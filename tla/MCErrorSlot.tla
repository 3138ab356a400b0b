---------------------------- MODULE MCErrorSlot ----------------------------
(* Two client threads, two error numbers and as many structures as the two  *)
(* threads can own at once: one in the slot, one under construction.  Other *)
(* components hold no key, key 0, or every key there is.  The addresses are  *)
(* interchangeable.                                                         *)
EXTENDS ErrorSlot, TLC

CONSTANTS t1, t2, keyInline, keyLate, o1, e1, e2, e3, e4

MCThreads == {t1, t2}
MCCodes == {"GET_URL", "OOM"}
MCErrs == {e1, e2, e3, e4}
SameErrs == Permutations(MCErrs)
MCOthers == {o1}
MCKeys == {keyInline, keyLate}
MCInlineKeys == {keyInline}
AllInlineKeys == MCKeys
MCHoldings == {{}, {keyInline}, MCKeys}
NoHoldings == {{}}
OneFirstCaller == {t1}
AnyFirstCaller == {t1, t2}
=============================================================================
