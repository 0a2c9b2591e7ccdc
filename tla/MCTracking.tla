----------------------------- MODULE MCTracking -----------------------------
(* Instances of Tracking for TLC: two resources, of which helm changes one *)
(* or both and of which one may be filtered out.                            *)
EXTENDS Tracking

CONSTANTS web, job

Both == {web, job}
With(kept, changed, fail, killing) ==
    [tracked |-> kept, touched |-> changed, failOnError |-> fail, grace |-> killing]
FourSetups == {With(Both, Both, TRUE, TRUE), With({web}, Both, TRUE, FALSE),
               With({web}, {web}, FALSE, TRUE), With(Both, {web}, TRUE, FALSE)}
=============================================================================
