---------------------------- MODULE DeviceLedger ----------------------------
(***************************************************************************)
(* What the simulator promises about devices: a ledger that records, for   *)
(* each device in use, the one workload that holds it.  A call asks for a  *)
(* workload that holds nothing, and is answered later: with devices that   *)
(* nobody holds, in one step, or with none.  A workload gives all of its   *)
(* devices back in one step.  Nothing moves a device from one workload to  *)
(* another, and an answer replaces what the workload holds only if the     *)
(* call overlapped another one for the same workload.                      *)
(***************************************************************************)
EXTENDS Functions

CONSTANTS Workloads, Devices, Callers, None

VARIABLES
  owner,      \* the workload that holds each device in use
  asked,      \* the workload each caller has asked for, or None
  overlaps    \* the callers in asked that met another one of their workload there

HeldBy(w) == {d \in DOMAIN owner : owner[d] = w}

Init ==
  /\ owner = [d \in {} |-> d]
  /\ asked = [c \in Callers |-> None]
  /\ overlaps = {}

Ask(c, w) ==
  LET others == {d \in Callers : asked[d] = w}
  IN  /\ asked[c] = None /\ HeldBy(w) = {}
      /\ asked' = [asked EXCEPT ![c] = w]
      /\ overlaps' = IF others = {} THEN overlaps ELSE overlaps \cup others \cup {c}
      /\ UNCHANGED owner

Answered(c) ==
  /\ asked[c] # None
  /\ asked' = [asked EXCEPT ![c] = None]
  /\ overlaps' = overlaps \ {c}

Refuse(c) == Answered(c) /\ UNCHANGED owner

Reserve(c, S) ==
  LET w == asked[c]
  IN  /\ Answered(c)
      /\ S \cap DOMAIN owner = {}
      /\ HeldBy(w) = {} \/ c \in overlaps
      /\ owner' = [d \in (DOMAIN owner \ HeldBy(w)) \cup S |->
                     IF d \in S THEN w ELSE owner[d]]

Relinquish(w) ==
  /\ owner' = [d \in DOMAIN owner \ HeldBy(w) |-> owner[d]]
  /\ UNCHANGED <<asked, overlaps>>

\* The process that keeps the ledger restarts.
Reset ==
  /\ owner' = [d \in {} |-> d]
  /\ asked' = [c \in Callers |-> None]
  /\ overlaps' = {}

Next ==
  \/ \E c \in Callers : \/ \E w \in Workloads : Ask(c, w)
                        \/ Refuse(c)
                        \/ \E S \in SUBSET Devices : Reserve(c, S)
  \/ \E w \in Workloads : Relinquish(w)
  \/ Reset

Spec == Init /\ [][Next]_<<owner, asked, overlaps>>
=============================================================================
