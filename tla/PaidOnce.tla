------------------------------ MODULE PaidOnce ------------------------------
(***************************************************************************)
(* What the distribution of one bucket promises its recipients: each of    *)
(* them is paid its share, whole and once, and in the end everyone is.     *)
(***************************************************************************)
EXTENDS Naturals

CONSTANTS
  Recipients,
  Share       \* what each recipient is to get, in units of the bucket's mint

VARIABLE received

PaidInit == received = [r \in Recipients |-> 0]

Pay(group) ==
  /\ \A r \in group : received[r] = 0
  /\ received' = [r \in Recipients |->
                    IF r \in group THEN Share[r] ELSE received[r]]

PaidNext == \E group \in SUBSET Recipients : Pay(group)

PaidSpec == PaidInit /\ [][PaidNext]_received

Everyone == received = Share
=============================================================================
