---------------------------- MODULE CreditLedger ----------------------------
(***************************************************************************)
(* What an account's purchased bytes promise their owner: every byte that  *)
(* was bought can be used until its date has passed, is reserved by a      *)
(* charge under way, was spent on a recorded interaction, has expired or   *)
(* is gone.  Only usable bytes are reserved and only reserved bytes are    *)
(* spent; bytes expire only as a date passes, and none comes back from     *)
(* where it has expired.                                                   *)
(***************************************************************************)
EXTENDS Naturals

VARIABLES
  usable,      \* bytes a charge can draw on
  reserved,    \* bytes taken by charges that have not recorded them yet
  spent,       \* bytes recorded as spent
  expired,     \* bytes whose date has passed
  gone,        \* bytes refunded to the wallet or lost by a failed charge
  dates        \* how many expiry dates have passed

Init == usable = 0 /\ reserved = 0 /\ spent = 0 /\ expired = 0 /\ gone = 0 /\ dates = 0

Buy ==
  /\ usable' > usable
  /\ UNCHANGED <<reserved, spent, expired, gone, dates>>

\* A charge takes bytes that can be used.
Reserve ==
  /\ reserved' > reserved
  /\ usable' + reserved' = usable + reserved
  /\ UNCHANGED <<spent, expired, gone, dates>>

\* What a charge has reserved is recorded.
Spend ==
  /\ spent' > spent
  /\ reserved' + spent' = reserved + spent
  /\ UNCHANGED <<usable, expired, gone, dates>>

\* What failed charges have reserved can be used again, or is lost.
Release ==
  /\ reserved' < reserved /\ usable' >= usable /\ gone' >= gone
  /\ usable' + reserved' + gone' = usable + reserved + gone
  /\ UNCHANGED <<spent, expired, dates>>

\* A date passes, and with it the bytes that were usable until then.
Expire ==
  /\ dates' = dates + 1
  /\ expired' >= expired
  /\ usable' + expired' = usable + expired
  /\ UNCHANGED <<reserved, spent, gone>>

\* Bytes are paid back to the wallet, before or after their date.
Refund ==
  /\ gone' > gone /\ usable' <= usable /\ expired' <= expired
  /\ usable' + expired' + gone' = usable + expired + gone
  /\ UNCHANGED <<reserved, spent, dates>>

Next == Buy \/ Reserve \/ Spend \/ Release \/ Expire \/ Refund

Spec == Init /\ [][Next]_<<usable, reserved, spent, expired, gone, dates>>
=============================================================================
