----------------------------- MODULE Py32Wheel ------------------------------
(***************************************************************************)
(* The volume conversions at work: the wheel of the PY32 is turned, the    *)
(* speaker sets the level it stands for (py32_apply_volume) and reports    *)
(* the percentage of that level (py32_sync_status_for_response).  Py32Link *)
(* runs with one maximum and a few volumes; here is what any host may      *)
(* expect of any maximum when it begins to talk to the speaker (AtBoot;    *)
(* the conversions depend on nothing that happens later).                  *)
(***************************************************************************)
EXTENDS Py32Link, Integers

CONSTANT Maxima     \* values of audio_policy_get_volume_level() looked at

ASSUME MaximaAssumption == Maxima \subseteq Nat

AtBoot == sent = <<>>

Wheel == 0..100

\* What the host is told after it has set pct.
Told(pct, max) == level_to_pct(pct_to_level(pct, max), max)

\* A host that sets its wheel to the percentage it is told stays at the same
\* volume: py32_volume_pct_to_level undoes py32_volume_level_to_pct, roundings
\* included, so wheel and speaker never chase each other.
EchoIsStable ==
    AtBoot => \A max \in Maxima : \A pct \in Wheel :
        pct_to_level(Told(pct, max), max) = pct_to_level(pct, max)

\* Both ends of the wheel are both ends of the volume, and are reported as such.
FullRange ==
    AtBoot => \A max \in Maxima :
        /\ pct_to_level(0, max) = 0 /\ Told(0, max) = 0
        /\ pct_to_level(100, max) = max
        /\ Told(100, max) = (IF max = 0 THEN 0 ELSE 100)

\* One percent moves the volume the way the wheel turns and by one level at most,
\* across every joint of the anchor table: no level is out of the wheel's reach.
TurnsSmoothly ==
    AtBoot => \A max \in Maxima : \A pct \in Wheel \ {100} :
        pct_to_level(pct + 1, max) - pct_to_level(pct, max) \in 0..1
=============================================================================
