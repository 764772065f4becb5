--------------------------- MODULE VoucherNumbers ---------------------------
(***************************************************************************)
(* What a payer's session promises about the vouchers of its channel,      *)
(* whichever transport asks for them: they are numbered one by one from    *)
(* the cumulative the session starts with, a number is signed by the one   *)
(* that drew it, only the last one drawn can be put back, and no more are  *)
(* drawn than the tries of what the spend hook accepted.                   *)
(***************************************************************************)
EXTENDS Integers

CONSTANTS
  Holders,         \* the requests and handshakes that pay
  Tries            \* how often each may draw a number

VARIABLES
  start,           \* the cumulative the session starts from
  last,            \* the last number drawn and not put back
  held,            \* the number each holder has drawn, 0 if none
  used,            \* the numbers signed
  accepted         \* what the spend hook accepted

numbers == <<start, last, held, used, accepted>>

Init ==
  /\ start \in Nat /\ last = start
  /\ held = [h \in Holders |-> 0] /\ used = {} /\ accepted = 0

Accept ==
  /\ accepted' = accepted + 1
  /\ UNCHANGED <<start, last, held, used>>

Draw(h) ==
  /\ held[h] = 0 /\ last - start < Tries * accepted
  /\ last' = last + 1 /\ held' = [held EXCEPT ![h] = last + 1]
  /\ UNCHANGED <<start, used, accepted>>

Sign(h) ==
  /\ held[h] # 0 /\ held[h] \notin used
  /\ used' = used \cup {held[h]} /\ held' = [held EXCEPT ![h] = 0]
  /\ UNCHANGED <<start, last, accepted>>

PutBack(h) ==
  /\ held[h] # 0
  /\ last' = IF last = held[h] THEN last - 1 ELSE last
  /\ held' = [held EXCEPT ![h] = 0]
  /\ UNCHANGED <<start, used, accepted>>

Next == Accept \/ \E h \in Holders : Draw(h) \/ Sign(h) \/ PutBack(h)

Spec == Init /\ [][Next]_numbers
=============================================================================
