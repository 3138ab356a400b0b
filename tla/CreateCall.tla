----------------------------- MODULE CreateCall -----------------------------
(***************************************************************************)
(* The calls that make something on the server from a list of parameters:  *)
(* the client's parameters are copied (copy_parameters), the call's own    *)
(* are added, the request is posted and the new id, if the client wants    *)
(* it, is read from the answer.  Slot i of internal_params is modelled by  *)
(* whether it holds strings.  The post is internal_create/internal_post,   *)
(* whose outcomes are those of Request; error is what the call hands to    *)
(* set_error(), as there.                                                  *)
(***************************************************************************)
EXTENDS TransferResults

CONSTANT MaxParams \* bound on the parameters of the client

Errors == {"INVALID_ARGUMENT", "OOM", "URL_DOES_NOT_EXIST", "POST_URL",
           "NAME_NOT_FOUND", "XML"}

ASSUME ConstantsAssumption ==
  /\ MaxParams \in Nat
  /\ None \notin Errors
  /\ NULL \notin {"naming", "bare", "nameless", "elsewhere", "useless"}
  /\ None \notin {"name", "cut", "empty", "other"}

\* Mutant: a parameter was added to the call, not to its allocation.
CreateRuleCramped ==
  [room |-> 3, fixed |-> 4, mayBeNull |-> FALSE, lookup |-> None, href |-> TRUE, answer |-> None]

(* A call: the slots it allocates for itself and the parameters it adds,    *)
(* whether one of these is a field that may be NULL, when it looks for its  *)
(* link, whether it builds an href of its own, and where the answer names   *)
(* what was made.                                                           *)
CreateInstance ==
  [room |-> 1, fixed |-> 1, mayBeNull |-> FALSE, lookup |-> "create", href |-> FALSE, answer |-> "headers"]
CreateImage ==
  [room |-> 2, fixed |-> 2, mayBeNull |-> TRUE, lookup |-> "create", href |-> FALSE, answer |-> "document"]
CreateSnapshot ==
  [room |-> 1, fixed |-> 1, mayBeNull |-> TRUE, lookup |-> "create", href |-> FALSE, answer |-> "document"]
CreateKey ==
  [room |-> 1, fixed |-> 1, mayBeNull |-> FALSE, lookup |-> "create", href |-> FALSE, answer |-> None]
CreateBucket == CreateKey
CreateFirewall ==
  [room |-> 2, fixed |-> 2, mayBeNull |-> FALSE, lookup |-> "create", href |-> FALSE, answer |-> None]
CreateRule ==
  [room |-> 4, fixed |-> 4, mayBeNull |-> FALSE, lookup |-> None, href |-> TRUE, answer |-> None]
CreateLoadBalancer ==
  [room |-> 5, fixed |-> 5, mayBeNull |-> FALSE, lookup |-> "create", href |-> FALSE, answer |-> None]
LbRegister ==
  [room |-> 1, fixed |-> 1, mayBeNull |-> FALSE, lookup |-> "first", href |-> TRUE, answer |-> None]
AttachVolume ==
  [room |-> 3, fixed |-> 3, mayBeNull |-> TRUE, lookup |-> "first", href |-> TRUE, answer |-> None]

Calls ==
  {CreateInstance, CreateImage, CreateSnapshot, CreateKey, CreateBucket, CreateFirewall,
   CreateRule, CreateLoadBalancer, LbRegister, AttachVolume}

VARIABLES
  pc,
  call,          \* the entry point
  params_length, \* the number of parameters the client passes
  holes,         \* those whose name or value is NULL
  wanted,        \* the client asks for the new id
  array,         \* internal_params is allocated
  filled,        \* the slots of internal_params that hold strings
  pos,           \* the next slot, NULL before it is set
  next,          \* the parameter copied next
  href,          \* the href built for the post is allocated
  answer,        \* the headers or the document of the answer
  created,       \* the server has done what was asked
  id,            \* the id the client was given
  ret, error

vars == <<pc, call, params_length, holes, wanted, array, filled, pos, next, href,
          answer, created, id, ret, error>>
callVars == <<call, params_length, holes, wanted>>
postVars == <<answer, created>>

Slots == 0..(MaxParams + 5)

(* What the answer says of what was made.  A document has its id, or not,   *)
(* or is no such document.  The Location ends in the id and a carriage      *)
(* return, or in the id, or in '/'; it is that of a redirection, since no   *)
(* status code is looked at; or there is none, or none with a '/'.          *)
Answers == {"naming", "bare", "nameless", "elsewhere", "useless"}
AnswersOf(where) ==
  CASE where = "headers"  -> Answers
    [] where = "document" -> {"naming", "nameless", "useless"}
    [] OTHER              -> {}

\* Those of a server that did nothing.
Unrelated == {"elsewhere", "useless"}

(* parse_create_headers(): what is after the last '/' but for one character,*)
(* be it the carriage return or not.                                        *)
IdIn == [naming |-> "name", bare |-> "cut", nameless |-> "empty", elsewhere |-> "other"]

(* The types; in particular no parameter beyond the client's is copied.     *)
TypeOK ==
  /\ pc \in {"check", "lookup", "alloc", "copy", "add", "href", "post", "result",
             "cleanup", "done", "crashed"}
  /\ call \in Calls
  /\ params_length \in -1..MaxParams
  /\ holes \subseteq 0..(MaxParams - 1)
  /\ wanted \in BOOLEAN /\ array \in BOOLEAN
  /\ filled \subseteq Slots
  /\ pos \in Slots \cup {-1, NULL}
  /\ next \in 0..MaxParams
  /\ href \in BOOLEAN
  /\ answer \in Answers \cup {NULL}
  /\ created \in BOOLEAN
  /\ id \in {None, "name", "cut", "empty", "other"}
  /\ ret \in {-1, 0}
  /\ error \in Errors \cup {None}

Init ==
  /\ pc = "check"
  /\ call \in Calls
  /\ params_length \in -1..MaxParams
  /\ holes \in SUBSET (0..(params_length - 1))
  /\ wanted \in IF call.answer = None THEN {FALSE} ELSE BOOLEAN
  /\ array = FALSE
  /\ filled = {}
  /\ pos = NULL
  /\ next = 0
  /\ href = FALSE
  /\ answer = NULL
  /\ created = FALSE
  /\ id = None
  /\ ret = -1
  /\ error = None

Goto(label) == pc' = label /\ UNCHANGED error

FailAt(label, e) == pc' = label /\ error' = e

-----------------------------------------------------------------------------
\* valid_api(), valid_arg() of the call's own arguments, params_length >= 0.
CheckArguments ==
  /\ pc = "check"
  /\ \/ FailAt("done", "INVALID_ARGUMENT")
     \/ params_length >= 0 /\ Goto(IF call.lookup = "first" THEN "lookup" ELSE "alloc")
  /\ UNCHANGED <<callVars, array, filled, pos, next, href, postVars, id, ret>>

\* A link in front of the one wanted may be without a rel to compare.
FindLink ==
  /\ pc = "lookup"
  /\ Goto("alloc") \/ FailAt("done", "URL_DOES_NOT_EXIST") \/ Goto("crashed")
  /\ UNCHANGED <<callVars, array, filled, pos, next, href, postVars, id, ret>>

AllocArray ==
  /\ pc = "alloc"
  /\ \/ array' = TRUE /\ Goto("copy")
     \/ array' = FALSE /\ FailAt("done", "OOM")
  /\ UNCHANGED <<callVars, filled, pos, next, href, postVars, id, ret>>

\* Mutant: the loop runs once too often.
CopyParameterOneMore ==
  /\ pc = "copy"
  /\ next <= params_length
  /\ filled' = filled \cup {next}
  /\ next' = next + 1
  /\ Goto("copy")
  /\ UNCHANGED <<callVars, array, pos, href, postVars, id, ret>>

\* Mutant: a failing copy sets no error.
CopyParameterSilently ==
  /\ pc = "copy"
  /\ next < params_length
  /\ \/ /\ filled' = filled \cup {next}
        /\ next' = next + 1
        /\ UNCHANGED pos
        /\ Goto("copy")
     \/ /\ Goto("cleanup")
        /\ pos' = -1
        /\ UNCHANGED <<filled, next>>
  /\ UNCHANGED <<callVars, array, href, postVars, id, ret>>

(* One turn of copy_parameters().  A failure makes it return -1, and that   *)
(* is what pos becomes.                                                     *)
CopyParameter ==
  /\ pc = "copy"
  /\ next < params_length
  /\ \/ /\ next \notin holes
        /\ filled' = filled \cup {next}
        /\ next' = next + 1
        /\ UNCHANGED pos
        /\ Goto("copy")
     \/ /\ FailAt("cleanup", IF next \in holes THEN "INVALID_ARGUMENT" ELSE "OOM")
        /\ pos' = -1
        /\ UNCHANGED <<filled, next>>
  /\ UNCHANGED <<callVars, array, href, postVars, id, ret>>

\* Mutant: the count of the copies is off by one.
ParametersCopiedOneMore ==
  /\ pc = "copy"
  /\ next = params_length
  /\ pos' = next + 1
  /\ Goto("add")
  /\ UNCHANGED <<callVars, array, filled, next, href, postVars, id, ret>>

ParametersCopied ==
  /\ pc = "copy"
  /\ next = params_length
  /\ pos' = next
  /\ Goto("add")
  /\ UNCHANGED <<callVars, array, filled, next, href, postVars, id, ret>>

AllAdded == pos = params_length + call.fixed

\* deltacloud_prepare_parameter(&internal_params[pos++], ...)
AddParameter ==
  /\ pc = "add"
  /\ ~AllAdded
  /\ pos' = pos + 1
  /\ \/ filled' = filled \cup {pos} /\ Goto("add")
     \/ /\ UNCHANGED filled
        /\ \E e \in {"OOM"} \cup (IF call.mayBeNull THEN {"INVALID_ARGUMENT"} ELSE {}) :
             FailAt("cleanup", e)
  /\ UNCHANGED <<callVars, array, next, href, postVars, id, ret>>

ParametersReady ==
  /\ pc = "add"
  /\ AllAdded
  /\ Goto(IF call.href THEN "href" ELSE "post")
  /\ UNCHANGED <<callVars, array, filled, pos, next, href, postVars, id, ret>>

BuildHref ==
  /\ pc = "href"
  /\ \/ href' = TRUE /\ Goto("post")
     \/ href' = FALSE /\ FailAt("cleanup", "OOM")
  /\ UNCHANGED <<callVars, array, filled, pos, next, postVars, id, ret>>

(* internal_create() or internal_post().  A post that fails may have been   *)
(* carried out all the same, with its answer lost; one that succeeds hands  *)
(* over what could be copied of the answer, and may have been refused when  *)
(* that could not be seen; and the program may not survive a link without a *)
(* rel, an api without a driver, or a refusal it could not copy the message *)
(* of (CallPromised in Request).                                            *)
Post ==
  /\ pc = "post"
  /\ href' = FALSE
  /\ \/ /\ created' \in BOOLEAN
        /\ \E e \in {"POST_URL", "OOM"} : FailAt("cleanup", e)
        /\ UNCHANGED answer
     \/ /\ call.lookup = "create"
        /\ FailAt("cleanup", "URL_DOES_NOT_EXIST")
        /\ UNCHANGED postVars
     \/ Goto("crashed") /\ UNCHANGED postVars
     \/ /\ created' = TRUE
        /\ answer' \in (AnswersOf(call.answer) \ {"elsewhere"}) \cup {NULL}
        /\ Goto("result")
     \/ /\ created' = FALSE
        /\ answer' \in (AnswersOf(call.answer) \cap Unrelated) \cup {NULL}
        /\ Goto("result")
  /\ UNCHANGED <<callVars, array, filled, pos, next, id, ret>>

\* Whether an id can be had from the answer.
Readable ==
  \/ call.answer = "headers" /\ answer \in DOMAIN IdIn
  \/ call.answer = "document" /\ answer = "naming"

(* The id: parse_create_headers(), or the document parsed and its id        *)
(* copied.  Only create_instance minds the answer when no id is wanted.     *)
UnreadableErrors == IF call.answer = "headers" THEN {"NAME_NOT_FOUND"} ELSE {"XML", "OOM"}

\* Mutant: the result of the parser is not looked at.
ReadResultUnchecked ==
  /\ pc = "result"
  /\ Goto("cleanup")
  /\ id' = IF wanted THEN "name" ELSE None
  /\ ret' = 0
  /\ UNCHANGED <<callVars, array, filled, pos, next, href, postVars>>

ReadResult ==
  /\ pc = "result"
  /\ \/ /\ call.answer = "headers" => answer # NULL
        /\ wanted => Readable
        /\ id' = IF wanted THEN IdIn[answer] ELSE None
        /\ ret' = 0
        /\ Goto("cleanup")
     \/ /\ call.answer = "headers" /\ answer = NULL
        /\ FailAt("cleanup", "POST_URL")
        /\ UNCHANGED <<id, ret>>
     \/ /\ wanted
        /\ call.answer = "headers" => answer # NULL
        /\ \E e \in UnreadableErrors : FailAt("cleanup", e)
        /\ UNCHANGED <<id, ret>>
  /\ UNCHANGED <<callVars, array, filled, pos, next, href, postVars>>

\* strdup() of an id that the document does not have, or had no memory for.
CopyMissingId ==
  /\ pc = "result"
  /\ wanted
  /\ call.answer = "document"
  /\ answer \in {"naming", "nameless"}
  /\ Goto("crashed")
  /\ UNCHANGED <<callVars, array, filled, pos, next, href, postVars, id, ret>>

\* Mutant: the parameter added last is not freed.
CleanupShort ==
  /\ pc = "cleanup"
  /\ filled' = filled \ 0..(pos - 2)
  /\ array' = FALSE
  /\ answer' = NULL
  /\ Goto("done")
  /\ UNCHANGED <<callVars, pos, next, href, created, id, ret>>

(* free_parameters(internal_params, pos) and the frees after it.            *)
Cleanup ==
  /\ pc = "cleanup"
  /\ filled' = filled \ 0..(pos - 1)
  /\ array' = FALSE
  /\ answer' = NULL
  /\ Goto("done")
  /\ UNCHANGED <<callVars, pos, next, href, created, id, ret>>

\* The call has returned, or the program is gone.
Returned == pc \in {"done", "crashed"} /\ UNCHANGED vars

Next ==
  \/ CheckArguments \/ FindLink \/ AllocArray \/ CopyParameter \/ ParametersCopied
  \/ AddParameter \/ ParametersReady \/ BuildHref \/ Post \/ ReadResult
  \/ CopyMissingId \/ Cleanup \/ Returned

Spec == Init /\ [][Next]_vars

-----------------------------------------------------------------------------
(* No slot outside the array is written, posted or freed, whatever the      *)
(* client passes and wherever the preparation stops.                        *)
InBounds ==
  array =>
    /\ \A i \in filled : i < params_length + call.room
    /\ pos # NULL => pos <= params_length + call.room

(* What is posted is complete: every slot up to pos holds its strings, none *)
(* is left over from the calloc.                                            *)
PostedParametersFilled == pc = "post" => filled = 0..(pos - 1)

(* Once the client's parameters are copied, every string the call makes is  *)
(* freed when it returns, the parameters after a failing one included, and  *)
(* so are the array and the href.                                           *)
CopiesFreed == pc = "done" => ~array /\ ~href /\ (pos # -1 => filled = {})

(* An id is given to the client exactly when it asked for one and the call  *)
(* succeeded.  It is the whole name of what was made whenever the answer    *)
(* has that where it should be, and then the server has made it: what a     *)
(* redirection, a line without a carriage return or a path without a name   *)
(* is taken for is never that name.                                         *)
IdNamesCreated ==
  /\ pc = "done" => (id # None <=> ret = 0 /\ wanted)
  /\ pc = "cleanup" /\ id # None => (id = "name" <=> answer = "naming")
  /\ id = "name" => created

(* -1 always comes with an error to ask for, and 0 never.                   *)
FailureReported == pc = "done" => (ret = -1 <=> error # None)
=============================================================================
