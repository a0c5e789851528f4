--------------------------- MODULE CommandMailbox ---------------------------
(***************************************************************************)
(* What the command slot promises the MCU: it hands out stored commands,   *)
(* never an older one after a newer one, and never again one the MCU has   *)
(* acknowledged.  A command may be handed out several times before that,   *)
(* and one that is overtaken may never be handed out at all.               *)
(***************************************************************************)
EXTENDS Integers

VARIABLES
  stored,    \* the ids of the commands stored
  handed,    \* the id handed out last, 0 if none since the last confirmation
  confirmed  \* the id acknowledged last, 0 before the first

Init ==
  /\ stored = {}
  /\ handed = 0
  /\ confirmed = 0

Store(id) ==
  /\ \A other \in stored : id > other
  /\ stored' = stored \cup {id}
  /\ UNCHANGED <<handed, confirmed>>

Hand(id) ==
  /\ id \in stored
  /\ id >= handed
  /\ id > confirmed
  /\ handed' = id
  /\ UNCHANGED <<stored, confirmed>>

Confirm ==
  /\ handed # 0
  /\ confirmed' = handed
  /\ handed' = 0
  /\ UNCHANGED stored

Next == (\E id \in stored' : Store(id) \/ Hand(id)) \/ Confirm

Spec == Init /\ [][Next]_<<stored, handed, confirmed>>

=============================================================================
