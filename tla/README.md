# A TLA+ model of libdeltacloud

libdeltacloud is a C client library for the Deltacloud cloud API: it talks HTTP
through libcurl to a server, parses the XML answers with libxml2 into linked
structures, and hands these to its client. This directory holds TLA+ modules of
what the library does, TLC configurations that check them, and proofs that the
TLA+ proof system checks for every value of the constants.

The library has no threads of its own and keeps nothing on disk. What is hard
in it is not an algorithm but that *everything can fail*: each call is a long
chain of allocations, libcurl and libxml2 calls, each with its own early exit
to a shared cleanup label; that it keeps one piece of state per thread, created
lazily; that parsers share a cursor; and that the server changes while the
client holds copies. The models therefore keep all of the control of the code,
in particular every failure, and very little of its data.

Source paths below are relative to the repository (`src/` is the C source
directory, `include/` the public headers).

## 1. Inventory

| Part | Code | State | Operations | Module |
|---|---|---|---|---|
| Error slot | `src/common.c`, `src/libdeltacloud.c` | `tlsinitialized`, the pthread key `deltacloud_last_error`, one `struct deltacloud_error` per thread | `set_error`, `deltacloud_get_last_error`, the key's creation in `deltacloud_initialize`, the destructor at thread exit | `ErrorSlot`, abstract: `LastError` |
| HTTP transfer | `src/curl_action.c` | one easy handle, one header list, two receive buffers per call | `do_get_post_url` (get, post), `delete_url`, `do_multipart_post_url`, `head_url`, `memory_callback` | `Transfer`, abstract: `UrlTransfer` |
| Request helpers | `src/common.c`, `src/instance.c`, `src/bucket.c` | the temporaries of one call | `internal_get`, `internal_get_by_id`, `internal_create`, `internal_post`, `internal_destroy`, `instance_action`, the lookups by name of an instance and of a blob, `set_xml_error` | `Request`, abstract: `ApiCall` |
| API structure | `src/libdeltacloud.c` | `struct deltacloud_api` | `deltacloud_initialize`, `deltacloud_free`, `internal_free`, `parse_api_xml` | `ApiLifecycle` |
| Creating calls | seven resource files | `internal_params`, `pos`, `href`, the answer | instance, image, snapshot, key, bucket, firewall, firewall rule and load balancer create; load balancer register and unregister; volume attach | `CreateCall` |
| Blob calls | `src/bucket.c` | the form or header list, the metadata array | create from file, update metadata, get content, get metadata | `BlobCalls` |
| Parsers | one file per resource | `ctxt->node`, the structures and their lists | the `parse_*` functions, the `deltacloud_free_*` functions | `ResourceTrees` |
| Instances | `src/instance.c`, `tests/test_common.c` | the client's snapshot of an instance, the server's instances | create, lookup by id, start, stop, reboot, destroy, free, waiting for boot | `InstanceService` |
| Metrics | `src/metric.c`, `src/metric_value.c` | lists of metrics | their parsers and free functions | `ResourceTrees` |
| Helpers | `src/common.c`, `src/common.h` | none | `strip_*`, `add_to_list`, `free_list` | the first in `Request`, the others in `ResourceTrees` |
| Failure injection | `src/common.c:758-919`, `src/common.h:139-207` | a random seed | DEBUG wrappers that make calls fail at random | not modelled |
| libcurl, libxml2, pthread, libc | external | | | choices in the actions that call them |

**How the parts interact.** Everything is a synchronous call. An entry point
checks its arguments (`valid_api`, `valid_arg`), finds a link in the api
structure, builds an href and a parameter string, calls a transfer, classifies
the answer (nothing, an `<error>` document, something else), parses it, and
returns 0 or -1. Whichever function meets a failure calls `set_error()`, which
replaces the thread's error structure. libcurl calls back into
`memory_callback()`. Threads of the client meet only in the error slot: an api
structure is used by one thread at a time.

**What makes each part correct.**

- *Error slot*: a thread's failure is what that thread sees, no structure is
  shared, leaked or freed while it is held.
- *Transfer*: whole answers or none; everything released on each path; requests
  carry the headers they were given.
- *Request helpers*: -1 and an error go together; temporaries are freed whatever
  fails; a fetch has what was asked for, by the first match; what the server
  refused, in a way the library can see, is not a success, and its message is
  told without the blanks around it.
- *API structure*: usable or empty between calls, under any order of calls.
- *Creating calls*: the array is as large as what is put in it, complete when it
  is posted, freed afterwards; an id names something that exists.
- *Blob calls*: metadata goes out whole or not at all, and comes back as sent;
  outputs are of this call.
- *Parsers*: all or nothing, nothing reachable that is freed, each field from
  its own element.
- *Instances*: a call that succeeds was carried out, whatever has happened since
  the client looked; a wait ends, and says truly how; no snapshot is lost.

`PROJECT.json` lists the hazards behind these, line by line.

## 2. Modules

### ErrorSlot, LastError, ErrorSlotProofs

The only concurrent part. Each thread has a program counter; one action is one
access to what threads share, so that `if (!tlsinitialized)`,
`tlsinitialized = 1` and `pthread_key_create()` are three steps
(`CheckFlag`, `ClaimFlag`, `CreateKey`/`CreateKeyFails`), and `set_error()` is
malloc and fill (`AllocError`), free of the old structure (`ReleaseLast`) and
`pthread_setspecific` (`InstallError`/`InstallErrorFails`). The rest of an API
call only matters here in that it reports failures and returns. `Exit` runs the
destructor. The heap is a set of addresses, so that an address freed can be
given out again. `pthread_setspecific` can fail for lack of memory the first time
a thread stores under a key whose storage is not inline (in glibc, the 33rd key
and later); `InlineKeys` is the set for which it cannot.

The process has other components with keys of their own (`foreign`, one of the
sets in `Holdings`) and data under them (`Others`). The library's key is a static
variable, so it is 0 (`ZeroKey`) until it is created, and stays so when
`pthread_key_create()` fails: a key that nobody has created, which has no value
and cannot be set, or one of the others', whose data `set_error()` then frees and
replaces and `deltacloud_get_last_error()` returns. `HasKey` says that the library
has a key of its own; the invariants are about that case, and the refinement
about both.

`FirstCallers` is the set of threads that may make the first
`deltacloud_initialize()` of the program; the documentation asks for that call
to be first, not for it to be in one thread.

`LastError` is the promise of the comments: one last error per thread, once the
first initialisation has set up a `store` for them. When it could not, nothing is
recorded and nothing promised of what is shown (`GetAnything`). The refinement
maps the slot to the error number in it; between the free and the store it is
already the new one, since that is when the old one ceases to be.

### Transfer, UrlTransfer, TransferResults, TransferProofs

`Transfer` is one call of one of the five entry points: `EasyInit`, `SetUrl`,
three `AppendHeader`, `CheckHeaders`, `SetOptions` or `Unwind` for
`internal_curl_setup()`; then `AddInHeader` with the cursor `curr` for each of the
`inheaders` headers the caller gave, `SetMethod`, libcurl's deliveries
`ReceiveHeader`/`ReceiveBody` (either of which may be the callback's realloc
failing), the end of the transfer, `CopyResults` and `Cleanup`. Texts are
sequences of the pieces in which they are delivered, so that a truncated answer
differs from a whole one, and one of the pieces may be a NUL byte: `CopyResults`
copies the buffer as the C string it is taken for (`CString`), which ends there.
`Garbage` is a receive buffer before its `memset`. `named` says whether the api
has its driver and provider, which `internal_curl_setup()` concatenates unseen
(`NameDriverMissing`, the state "crashed").

`UrlTransfer` is the contract: a call fails, reports an error (of its own method,
or of memory: `errors`, which `Transfer` maps to `Reported`) and hands nothing
over; or it succeeds and hands over what was sent, as far as a C string holds it,
*or nothing*; or, without a driver or provider, it stops the program. "Or nothing"
is the code's: the two `strdup` calls at the end are unchecked. Above this contract
an answer is the C string.
`TransferResults` holds the set of outcomes, which `Request` and the other
modules draw from: the layers are checked separately and
meet at this contract, as implementation on one side and as assumption on the
other.

### Request, ApiCall, CallResults, RequestProofs

`Request` is one call of one helper, `CheckApi` to `Leave`. Eight kinds of call
differ in whether they search a link (`FindLink`), build an address or a
parameter string around it (`BuildAddress`, `BuildUrl`, `BuildParams`), and
fetch (`ClassifyFetched`, `Parse`) or change something (`ClassifyAnswer`).
`deltacloud_get_instance_by_name` fetches the listing and goes through it
(`FindAndParseInstance`); a listing is a sequence of names that are the wanted
one, another, or NULL. `SetXmlError` is `set_xml_error()`: the message of an error
document is a sequence of blanks and ink, trimmed by
`strip_trailing_whitespace` and `strip_leading_whitespace`, two functions in the
shape of their loops. `heap` holds the names of the allocations the call owns;
handing one to the caller removes it. `lost` records that the transfer had a
body and could not copy it. The state "crashed" is a NULL compared or copied: the
rel of a link, the name of an instance, a message, the driver or the provider.

An answer is "good" (what was asked for), "error" (a document that starts with
`<error`), "other" (any other body) or "none": this is all the code tells apart,
as it looks at no HTTP status.

`ApiCall` is the contract: one step from a call and the server's answer to one of
the `CallOutcomes` of `CallResults`, where trimming is defined without a loop and
a lookup by name is the least place of the name. `InstanceService` makes its
calls through the same `CallOutcomes`.

### ApiLifecycle, ApiLifecycleProofs

One structure in the hands of a client that initialises and frees it in any
order. A field is modelled by where its text came from ("client", "server",
NULL, or `Garbage` before the first `memset`), and `live[f]` counts the
allocations made for a field. `overwritten` marks a client that initialises a
usable structure again; its leak is its own.

### CreateCall, CreateCallProofs

The ten calls as records of a table: how many slots each allocates beyond the
client's, how many parameters it adds, whether one may be NULL, when it looks
its link up, whether it builds an href, where its answer names what was made.
`filled` is the set of slots that hold strings, `pos` the code's variable, which
is also -1 when `copy_parameters()` failed. The post draws from the outcomes of
`internal_post()`: `created` is whether the server did it, `answer` what its
answer says of what was made. `parse_create_headers()` is the function `IdIn`:
from a Location that ends in the id and a carriage return it takes the id; from
one without the carriage return an id short of its last character; from one that
ends in '/' the empty text; from a redirection whatever that names.

### BlobCalls, BlobCallsProofs

The four calls of `src/bucket.c` that talk to the server themselves. A metadata
entry is a member of a small set: one with or without a value when sent; when
read, what its header line does to `fgets()` and to the regular expression
("plain", a second colon, too long, not metadata). The answer to `get_content` is
a content with a NUL byte in it ("binary", of which "cut" is the C string) or
without one, an error document, or nothing.

### ResourceTrees, ResourceTreesProofs

All parsers of lists and items have one shape, and `Chain`
says for each kind of document which parsers nest in it. A type records the
ways they differ: whether the context is moved to the element, where fields are
read from, whether a failing child frees what the structure holds, which fields
the free function forgets. `Open`, `OutOfMemory`, `Close`, `Unwind` and
`FreeResult` interpret that table over every document of the shape; `frames` is
the stack of parsers under way and `context` is `ctxt->node`. A structure has
the name of its element's path. Not everything is linked: `LeaveOut` skips an
address whose text is missing or could not be copied, and `CloseWithoutList` ends
an instance or a load balancer of which a list was not found (`xmlXPathEval()`
failed, or did not find exactly one). The metric parsers depart from the shape in
what they leave untested: `LeaveOut` again (a sample without children is not
counted as a sample, and its structure is lost), `Crash` (a failed `calloc`, a property
without a name, a document without the chain of nodes that is followed) and
`Hang` (a node without a name is not stepped over).

### InstanceService, InstanceServiceProofs

The composition: a server with instances that boot, stop and vanish by themselves
or for other clients (`ServerMoves`), and one client that makes the calls of
`instance.c`. A call is sent (`CreateInstance`, `GetInstanceById`,
`InstanceAction`, `InstanceDestroy`) with an api that has its driver and provider,
is refused, performed or described by the
server (`Refuse`, `Perform`, `Describe`), or loses its connection
(`TransferFails`); then the result is one of the `CallOutcomes` for that answer
(`ReceiveCreated`, `ReceiveChanged`, `ReceiveDescribed`, `CallCrashes`). Between
any two of these the server moves. A request whose connection failed may still
be on its way (`stray`) and is handled, or dropped, at any time later
(`StrayArrives`). The snapshot `snap` holds the state and the actions the instance
had when it was looked up; an action is posted if *the snapshot* has it and
performed if the server then allows it. `known` are the ids the client was given,
among them `Bogus`, which stands for the ids of `CreateCall` that name nothing.

`WaitForInstanceBoot`, `PollAgain`, `GiveUp`, `Found` and `CompareMissingState` are
`wait_for_instance_boot()` of `tests/test_common.c`: look up, compare the state,
free and look up again, destroy after the last poll. The server is external to
the repository: its definitions (`Allowed`, `Target`, `Moves`, `Handles`) are
what the client code relies on.

## 3. What TLC checks

Every specification ends in a state that stutters, or goes on for ever, so
deadlock is checked throughout.

Fairness is stated in `InstanceService` only: weak fairness of `Progress`, the
steps of a call under way. It says that the client's thread is scheduled and that
a request is answered or its connection breaks. The second half is an assumption
about the network, not about the code: no timeout is set on the handle
(`src/curl_action.c:274`), so that a server that accepts a connection and keeps
quiet blocks its client. Nothing is assumed of the server's instances: `WaitEnds`
holds although an instance may stop and start between polls for ever, because
the polls are counted. All other properties are safety properties.

| Run | Bounds | Distinct states | What it shows |
|---|---|---|---|
| `error_slot` | 2 threads, 2 codes, 4 addresses, 2 keys (one inline), of which others hold none, the first or both | 236,443 | `SlotsPrivate`, `NoErrorLeak`, `HeldPointerValid`, `FailureRecordedInline`, and the refinement `LastErrorPromised`, if one thread makes the first call |
| `transfer` | 5 methods, up to 3 pieces each of headers and body, up to 2 headers of the caller, a NUL byte anywhere or nowhere | 88,676 | `Released`, `BuffersInitialised`, `HeadersSent`, and the refinement `TransferContract` |
| `request` | listings of up to 3 names, messages of up to 4 characters | 21,491 | `TemporariesFreed`, and the refinement `CallPromised` |
| `api_lifecycle` | 3 initialisations, any frees | 13,748 | `UsableOrEmpty`, `NoDanglingField`, `OthersAccountedFor`, `UsableMeansConnected` |
| `create_call` | 2 parameters of the client, 10 calls | 1,863 | `InBounds`, `PostedParametersFilled`, `CopiesFreed`, `IdNamesCreated`, `FailureReported` |
| `blob_calls` | 2 entries | 1,772 | `PostedWhole`, `PlainMetadataRead`, `TemporariesFreed`, `FailureReported` |
| `resource_trees` | 18 kinds of document, 2 children each, depth up to 3 | 54,525 | `ResultWhole`, `NothingDangling`, `FieldsNearby`, `LeftoversKnown` |
| `instance_service` | 2 instances, 3 polls, 1 stray request | 262,565 | `SuccessMeansDone`, `WaitOutcome`, `NoSnapshotOverwritten`, and the liveness property `WaitEnds` |

**Why the bounds are enough.** Two threads are the smallest number that can
race, and each owns at most two error structures, so four addresses let malloc
always have one unless something leaks (it may refuse all the same). Of two keys
key 0 can be another component's while the other one is free for the library, both
can be taken, or none. Three pieces give a first, a middle and a last one, with a
NUL byte as any of them; two headers of the caller give an
append that fails with one of them already in the list. Three initialisations
give a failed one, a usable one and one over either, with frees between. Two
parameters, entries or children give a failure with a sibling before it and one
without, and what is seen at two is what the code's loops do at every index; for
`CreateCall` the proofs say so for any number. A listing of three has a name
before the wanted one and the wanted one again behind it; a message of four has
blanks on both sides and between. Of the instances, one can be made by a call that
failed while the other is in use, and three polls are a first, a middle and the
last one (the code makes 300); the proofs cover any number of both. Only one
stray request is kept in mind: a second one would be one more `ServerMoves`, or
the `create` of another instance.

### Where the code does something else than it says

Four runs are expected to fail. Each checks what a comment or a header of the
repository states, and TLC shows the code doing otherwise.

- `error_slot_race` (`FailureRecorded`): two threads in their first
  `deltacloud_initialize()`. The second finds the flag set and goes on before
  there is a key; or both make one and the second replaces the first. A failure
  is then not what its thread sees. The same property fails with one first
  caller (`FirstCallers <- OneFirstCaller`) and `KeyCreateMayFail = TRUE`: the
  flag stays set after `pthread_key_create()` failed.
- `error_slot_keyless` (`HeldPointerOwn`): after a `deltacloud_initialize()` that
  returned -1 because `pthread_key_create()` failed, the library uses key 0. When
  that is another component's, as it is when all keys are in use,
  `deltacloud_get_last_error()` returns what that component stored, and the next
  failure frees it (`src/common.c:125-129`).
- `blob_content` (`ContentFresh`): with an empty body `get_url()` leaves the
  out parameter alone, and what the client's pointer held passes for the content.
- `trees_blob` (`FieldsOwn`): the blobs of a bucket get the href and the id of
  the bucket, because the context is not moved to them. The same configuration
  with `Resources` set to `{"listeners"}`, `{"addresses"}` or
  `{"instance_profiles"}` shows the ports of the first listener, the first
  address, and the name of the instance in their place.

The passing runs state other deviations as the exceptions of their properties,
so that nothing beyond them is missed:

- `HeadersSent`: when one of the first two `curl_slist_append()` of
  `internal_curl_setup()` fails, the request goes out without the headers so far
  (`src/curl_action.c:145-147`, where the comment at 109-110 says the headers are
  set up). It never goes out without the provider or a header of the caller.
  The copies made of the caller's headers (`listdata`) are never freed.
- `SlotsPrivate`, `NoErrorLeak`, `HeldPointerValid` and
  `FailureRecordedInline` are about a library that has a key of its own;
  `LastErrorPromised` leaves open what is shown when it has none. A failure for
  whose structure there is no memory (`src/common.c:113`) is not recorded, and the
  thread goes on seeing its earlier one: "sets an error" in the other modules is
  what a call hands to `set_error()`.
- `TransferContract`: the body and the headers are handed over up to their first
  NUL byte (`src/curl_action.c:282`, `285`, `328`, `371`, `408`); an api without a
  driver or a provider stops the program in each of the entry points
  (`src/curl_action.c:128-131`). A blob with a NUL byte in it is thus read short, with
  a 0: "content" is what `get_content` gives only of one without, "cut" of the other.
- `OthersAccountedFor`: `deltacloud_initialize()` copies driver and provider twice
  (`src/libdeltacloud.c:278-279`); the first copies, and the driver the server named,
  are what `deltacloud_free()` cannot free.
- `CallPromised` and `SuccessMeansDone`: a change the server refused is a success
  if its error document could not be copied (`src/common.c:228`), or if what it
  sent is not a document that starts with `<error`: no status code is looked at.
  A lookup never is. A link without a rel, an instance without a name, a
  message that could not be copied, and a driver or provider that is missing stop
  the program (the outcome `Crashed`; the state "crashed" of `CreateCall` and
  `BlobCalls`).
- `CopiesFreed`: it is about calls whose client parameters were all copied. A
  failing `copy_parameters()` returns -1, which is then the number of parameters
  to free: the copies made before the failure are lost (`src/common.c:686`).
- `IdNamesCreated`: a Location without a carriage return, with an empty last
  component or of a redirection gives an id that is not that of what was made
  (`src/instance.c:181`). `strdup()` of an id the document does not have
  (`src/image.c:184`) is the state "crashed".
- `ResultWhole`: the documents of metrics that stop or hang the program, and what a
  result may be without although the parser returned 0: samples without children;
  addresses without a text, or whose text could not be copied
  (`src/address.c:45-59`); and all of a list of an instance or a load balancer that
  was not found, or for which `xmlXPathEval()` had no memory
  (`src/instance.c:61-107`, `src/loadbalancer.c:159-205`).
- `WaitOutcome`: an instance given up after the last poll is destroyed although it
  may have booted since; and a state that is missing is compared
  (`CompareMissingState`).
- `UsableMeansConnected`: the driver is the client's, not the one "determined
  automatically" (`include/libdeltacloud/libdeltacloud.h:37`), and driver or
  provider may be NULL in a usable structure (`src/libdeltacloud.c:278-279`), the
  one every transfer stops the program with.
- `TemporariesFreed` of `BlobCalls`: the header strings of `update_metadata`,
  its header list when it stops growing, and the url of a failed `get_content`.
- `PlainMetadataRead`: it is about the names of headers with one line and one
  colon. Values keep the carriage return, a second colon shifts the name, a
  line of 1024 bytes is skipped, a value that could not be copied is NULL, and
  headers that could not be copied reach `strlen()` (the state "crashed").
- `LeftoversKnown`: `deltacloud_free_instance()` forgets `launch_time` and `auth`,
  the properties of a sample keep their names, a sample left out is lost, and a
  rule whose source ran out of memory is freed without its fields.

Every property of a passing run has a mutant in its module: an operator marked
`Mutant:`, the definition changed as a plausible bug would change it, under
which TLC finds the property violated.

## 4. What is proved

`tlapm` checks every leaf; nothing is assumed but the named assumptions of the
modules. Each of the eight proof modules extends the module it is about.
Every safety property of a passing run is a theorem, and so are the three
refinements.

**ErrorSlotProofs**, for any sets of threads, codes, addresses and keys, and any
keys and data of other components. `ConstantsAssumption` says that the values
meaning "none" are not values, and that the library's addresses are not those of
others' data.
`TypeCorrect` needs nothing more. The others assume `Serialised`: at most one
thread is in `FirstCallers`. That is what the run `error_slot_race` shows to be
necessary.

None of the safety properties is inductive by itself. The argument is that there
is never more than one key (`KeyInv`): before some initialisation has returned
only the one first caller is inside the library, so flag and key change together,
and after that the flag is set for good. Until its key is created or that has
failed the library has touched nothing (`Fresh`). It follows that what is under
its key is its own and nothing of its is elsewhere (`OwnInv`), that
`set_error()`'s local structure is live and not the one in the slot (`ErrInv`),
that the structures threads own are disjoint (`OwnersApart`), that others' data is
where it was (`OthersUntouched`), that all of the library's heap is owned
(`NoErrorLeak`), and that what the client holds is what its slot has (`HeldInv`).
`WantInv` follows a failure from the new structure into the slot. All this is of a
library that has a key; without one nothing is claimed of its slots
(`NothingWithoutKey`), and none comes later. The conjunction `IInv` is inductive;
`SlotsPrivateAlways`, `NoErrorLeakAlways`, `HeldPointerValidAlways` and
`FailureRecordedAlways` are read off it. `LastErrorRefined` shows that each step
under `IInv` is a step of `LastError` or a stutter: freeing the old structure, or
storing the new one in an empty slot, is `Fail`.

**CreateCallProofs**, for any number of parameters (`ConstantsAssumption`:
`MaxParams \in Nat`, and the values meaning "none" are distinct from the others).
`InBounds` follows from an exact description
of `filled` at each step (`FilledInv`): the slots filled are a prefix of the
array, as long as the copy loop's counter or as `pos`, and `pos` never exceeds
the client's parameters plus what the call adds. The table supplies that each
call allocates what it adds (lemma `CallRoom`). Cleanup after a failing
`deltacloud_prepare_parameter()` finds `pos` already one past the last filled
slot, which is why the invariant is weaker there: freeing the NULLs of the empty
slot is harmless. `HeapInv` and `ResultInv` carry the other four results.

**TransferProofs**, for answers in any number of pieces and any number of headers
of the caller (`BoundsAssumption`, and `GarbageAssumption`: an uninitialised
buffer is no text). `BufferInv` says that a buffer holds a prefix of what was
sent, and all of it at the copies; a text is told by its length (`PiecesEqual`),
so that receiving one more piece keeps it a prefix (`PieceReceived`). `OutcomeInv`
says that from the first error, or from the copies, the result is that of a
failure or of a success. `HeadersInv` is what makes `HeadersSent` hold wherever an
append fails: after the i-th append of the library's own headers the list is a run
of them that ends with the i-th, or empty if that append failed (a failure loses
those before it and the next append starts afresh); past the check it is a run up
to the provider, followed by the headers of the caller gone through, and when the
request goes out `curr` is `inheaders`, the number the caller gave. `CountInv`
bounds the entries orphaned by the appends made. `ContractImplemented` is the
refinement: the step that returns, or that stops the program, is `Return` of
`UrlTransfer`, all others stutter. The error is part of it, because `Request` and
`ApiLifecycle` draw their transfers' errors from those of the method they call.

**RequestProofs**, for any listing and any message (`BoundsAssumption`: the bounds
are numbers; `OutputsAssumption`: NULL is neither an output nor an answer).
`HeapInv` bounds what a call owns at each label by what the labels after it free;
headers are owned only by a create, between its transfer and the classification or
the explanation of its answer. The refinement of `ApiCall` needs to know what each
step has read: `PathInv` says that nothing has failed and nothing was handed over
while the call works, and that only a call whose api is `named` gets an answer,
`AnswerInv` that the document in hand is the server's answer or was lost, that an
error document is never parsed, and that no instance before the cursor of the
search has the name; `OutcomeInv` that from the moment a call is settled its
result is one of `CallOutcomes`. `CallOutcomes` has no loops: that
`strip_trailing_whitespace` and `strip_leading_whitespace` leave `Trimmed` of a
message (lemmas `TrailingIs`, `LeadingIs`, `Stripped`), and that the search of a
listing ends at the least place of the name (`FirstPlace`), is what ties the loops
of the code to it.

**BlobCallsProofs**, for any number of entries (`ConstantsAssumption`: `MaxEntries`
is a number, `None` is no error and `NULL` no array). `SendInv` says that while the
form or the header list is built it holds what is kept of the entries gone
through, those with a value, and that all were gone through when the transfer starts;
`ReadInv` says the same of the plain header lines and the array given to the client.
`KeptIs` is the lemma both rest on: what is kept of one element more. `HeapInv`
names for each call what its cleanup label frees, and `TemporariesFreed` follows
with the leaks that property names.

**ResourceTreesProofs**, for every document of any width, at every depth of the
table (`ConstantsAssumption`: the resources are in `Chain`, the width is a number,
"OOM" is an error). The stack of parsers is a path of the document (`StackInv`),
and what is before its next child in the order of the parse (`Before`) is exactly
what was passed (`PassedByOpen`, `PassedByClose`, `PassedAtFinish`). From this
`LinkedInv`: what is linked was passed, and all that was passed is linked but for
what the code leaves out; at the end that is the whole document, which is
`ResultWhole`. What may be left out is `Optional`, children skipped one by one,
and `Forgone`, what is below a structure that was linked without its list: it was
not linked before (`Opened` and `attached` are disjoint), nothing below it is
linked afterwards, and so it stays (`ForgoneGrows`). `UnwindInv` says that during
a failure what is above a linked structure is linked or still being filled, so
that freeing what each parser holds reaches all that was linked (`AllReached`):
nothing the list still reaches was freed (`HeapInv`, `NothingDangling`) and what
nobody freed is a known leftover (`OwnedInv`, `LeftoversKnown`). A rule of a
firewall is the exception in the code and in the invariant. `ContextInv` follows
`ctxt->node` through the frames: the node a parser notes is its own element or,
where it is not moved to, what its caller noted. The lemma `Table` goes through
the levels of `Chain` once, so that nothing else looks at single resources.

**ApiLifecycleProofs**, for any number of initialisations and frees
(`LifecycleAssumption`). `BuildInv` says what the structure holds at each step:
the arguments before the one at `pc`, the links only after the parse. `HeldInv`
relates that to the allocations, as equality for a client that frees what it
initialised, and `RoomInv` counts them: at most three for a field in one
initialisation (driver: the argument, the server's, the last copy).

**InstanceServiceProofs**, for any instances and any number of polls
(`ConstantsAssumption`). `RequestInv` and `ReplyInv` say what is under way: an
answer that is good, or missing, is to a request that was carried out; a lookup
finds the structure freed; an answered destroy left its instance gone, and gone is
for ever (`GoneStays`), which is what makes `WaitOutcome` survive the server's own
steps and stray requests. `WaitInv` ties the wait to the request and the snapshot:
polling, or destroying what it has not seen running. What a call may return comes
from `CallOutcomes` by lemma `CallResult`, without a look into `Request`.

The lemmas about loops and sequences are inductions. The library's induction
theorems have an operator as a parameter, which the provers cannot instantiate;
`NatSet` states induction for a *set* of numbers instead and is proved from `WFMin`
of `WellFoundedInduction`: a set of numbers that is not empty has a least one. Loops
of the code are recursive functions over numbers; no module here declares a
`RECURSIVE` operator.

Only model-checked: `WaitEnds`, since liveness under fairness is out of the prover's
reach, and the four expected violations, each a trace of TLC. The assumptions above
are evaluated by TLC for the values of each run.

## 5. What is not modelled

- *Texts*: URL escaping, header and XML syntax, and the length of names: driver
  and provider are taken to fit the 100-byte header buffers of
  `internal_curl_setup()` (`src/curl_action.c:125-131`). A field is not told from
  another of its structure, so "the id is missing" and "the copy of the id failed"
  are the same and leave no trace in `ResourceTrees`.
- *The constraints of a link's features* (`src/link.c:27-61`), one more list of the
  same shape below the features, `deltacloud_has_link()`, and the helpers with
  which a client prepares its parameters one at a time.
- *The server* beyond instances: what is behind the other resources has no life of
  its own, `CreateCall` records only whether a create was carried out. Stray
  requests are kept for instances only.
- *Other components' own calls*: in `ErrorSlot` they hold keys and data from the
  start; what they do with them while the library runs is left out, but for their
  destructors at the end of a thread.
- *The failure injector*: the models let every call it wraps fail.
- *Sharing an api structure between threads*: nothing in the code or the
  documentation allows it.
- *Outputs after a -1* other than those a property names: `get_metadata` sets its
  array before its length (`src/bucket.c:671`), and nothing says what a client may
  do with either.

## 6. Plan

1. Done: the error slot with its refinement; transfers and their contract; request
   helpers and theirs; the api's life; creating calls; blob calls; the parsers,
   metrics included; the instance service with the polling loop and its liveness.
2. Done: proofs of the error slot, creating calls, transfers, request helpers,
   blob calls, the parsers, the api's life and the instance service: every safety
   property of a passing run, and the three refinements.
3. Next, proofs: an abstract service for `InstanceService`, of which a call of the
   client is one step, as a refinement; liveness stays with TLC.
4. Next, models: the constraints of features in `Chain`; the same service for
   storage volumes, whose attach and detach act on two resources.
