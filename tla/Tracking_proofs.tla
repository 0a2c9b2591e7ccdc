-------------------------- MODULE Tracking_proofs --------------------------
(***************************************************************************)
(* Proofs about one upgrade tracked in the background, for any resources:  *)
(* a failure has a cause outside of helmfile's own valves, and a success   *)
(* that errors count for is a cluster that has converged, but for rolling  *)
(* updates whose old pods the safety valve counted.                        *)
(***************************************************************************)
EXTENDS Tracking, TLAPS

----------------------------------------------------------------------------
(* The inductive invariants.                                                *)

\* Before the release is templated nothing of the tracking exists.
Untouched ==
    pc = "template" =>
        /\ mode = "undecided" /\ helm = "idle" /\ resultCh = "empty" /\ backstops = 0
        /\ tracker = "off" /\ firstErr = "nil" /\ gaveUp = {} /\ \A r \in Resources : task[r] = "off"
        /\ valve = "off" /\ killer = "off" /\ ~triggered /\ ~killed /\ ~safetyFired

\* helm runs while the worker is in its call, and tracking is what the mode says.
Phases ==
    /\ pc \in {"queue", "panicked"} => helm = "idle"
    /\ helm \in {"running", "applied", "wedged"} => pc = "helm"
    /\ pc = "track" => mode = "after"
    /\ pc \in {"wait", "windup"} => mode = "background"
    /\ pc = "windup" => safetyFired

\* A valve has said why before it acts, and gives the backstop one turn.
Announced ==
    /\ valve \in {"cancel", "signal"} => triggered
    /\ killer \in {"cancel", "signal"} => killed
    /\ triggered => valve \in {"cancel", "signal", "ended"}
    /\ valve = "signal" => trackCtx
    /\ safetyFired \/ backstops # 0 => killed \/ (triggered /\ trackCtx)
    /\ backstops = 2 => valve = "ended" /\ killer = "ended"
    /\ backstops = 1 => valve = "ended" \/ killer = "ended"

\* Who cancelled the two contexts, and what the answers of the tracker rest on.
Reasons ==
    /\ canceled => helm = "error" /\ pc \in {"wait", "windup", "done"}
    /\ trackCtx => triggered \/ canceled \/ pc = "done"
    /\ releaseCtx => killed \/ canceled \/ pc = "done"
    /\ helm = "interrupted" => killed
    /\ "error" \in {firstErr, resultCh} => SomeError
    /\ "canceled" \in {firstErr, resultCh} => trackCtx

IInv == TypeOK /\ Untouched /\ Phases /\ Announced /\ Reasons /\ NoPhantomFailure

\* What helm has changed is the new version, or was given up.
Ready(r) == cluster[r] = "ready" \/ r \in gaveUp
AllReady == \A r \in setup.tracked \cap setup.touched : Ready(r)

\* The same, but for what was rolling when the valve looked.
AllCounted == \A r \in setup.tracked \cap setup.touched : Ready(r) \/ r \in relied \cap Rolling

\* helm changes what it touches once, and its end is announced when it succeeded.
Applied ==
    /\ helm \in {"idle", "running"} => \A r \in Resources : cluster[r] \in {"absent", "old"}
    /\ helm \in {"applied", "wedged", "ok"} => \A r \in setup.touched : Changed(r)
    /\ \A r \in Resources : cluster[r] = "rolling" => r \in Rolling
    /\ helmDone => helm = "ok" \/ killed
    /\ valve \in {"poll", "store", "cancel", "signal"} => helmDone

\* Unless helm was killed: the valve has seen everything ready or rolling, and whoever else
\* says that tracking is over has seen everything ready, or the tracker was cancelled.
Confirmed ==
    ~killed =>
        /\ valve \in {"store", "cancel", "signal"} \/ triggered => AllCounted
        /\ \A r \in setup.touched : task[r] = "skipped" => r \in gaveUp
        /\ tracker = "select" /\ ~trackCtx =>
               \A r \in setup.tracked \cap setup.touched : task[r] = "ended" => Ready(r)
        /\ tracker \in {"drain", "sent"} /\ firstErr = "nil" /\ ~trackCtx => SomeError \/ AllReady
        /\ resultCh = "nil" /\ ~trackCtx => AllReady

\* A success that errors count for has converged, or the valve said so.
Sound == result = "ok" /\ mode = "background" /\ setup.failOnError /\ ~killed => AllReady \/ triggered

SInv == Applied /\ Confirmed /\ Sound

----------------------------------------------------------------------------
(* Every step keeps the first invariant.                                    *)

LEMMA Scope == TypeOK => setup.tracked \subseteq Resources /\ setup.touched \subseteq Resources
BY TrackingAssumption DEF TypeOK

LEMMA TypesKept ==
    ASSUME IInv, [Next]_vars
    PROVE  TypeOK'
<1> USE DEF IInv, TypeOK, Answers, Final, Untouched, Announced, workerVars, trackerVars, valveVars, contexts, flags, vars
<1>1. CASE Template
  BY <1>1 DEF Template, Started
<1>2. CASE StartHelm
  BY <1>2 DEF StartHelm
<1>3. CASE HelmReturned
  <2>1. /\ pc' \in {"wait", "track", "done"} /\ result' \in {"none", "ok", "failed"}
        /\ result' # "none" <=> pc' = "done"
    BY <1>3 DEF HelmReturned
  <2>2. canceled' \in BOOLEAN /\ trackCtx' \in BOOLEAN /\ releaseCtx' \in BOOLEAN /\ helmDone' \in BOOLEAN
    BY <1>3 DEF HelmReturned
  <2> QED BY <1>3, <2>1, <2>2 DEF HelmReturned
<1>4. CASE TrackAfter
  BY <1>4 DEF TrackAfter
<1>5. CASE WaitResult
  BY <1>5 DEF WaitResult, Conclude
<1>6. CASE WaitSafety
  BY <1>6 DEF WaitSafety
<1>7. CASE Windup
  BY <1>7 DEF Windup, Conclude
<1>8. CASE HardTimeout
  BY <1>8 DEF HardTimeout
<1>9. CASE HelmApply
  BY <1>9 DEF HelmApply
<1>10. CASE HelmWedge
  BY <1>10 DEF HelmWedge
<1>11. CASE HelmEnd
  BY <1>11 DEF HelmEnd
<1>12. CASE TrackerStops
  BY <1>12 DEF TrackerStops, AllEnded
<1>13. CASE TrackerSends
  BY <1>13 DEF TrackerSends, AllEnded
<1>14. CASE ValvePolls
  BY <1>14 DEF ValvePolls, ValveTo, valveUnchanged
<1>15. CASE ValveFires
  <2>1. CASE valve = "store"
    BY <1>15, <2>1 DEF ValveFires, ValveTo, valveUnchanged
  <2>2. CASE valve = "cancel"
    BY <1>15, <2>2 DEF ValveFires, ValveTo, valveUnchanged
  <2>3. CASE valve = "signal"
    <3>1. backstops \in 0..1
      BY <2>3
    <3>2. backstops + 1 \in 0..2
      BY <3>1
    <3> QED BY <1>15, <2>3, <3>2 DEF ValveFires, ValveTo, valveUnchanged
  <2> QED BY <1>15, <2>1, <2>2, <2>3 DEF ValveFires, ValveTo
<1>16. CASE KillerPolls
  BY <1>16 DEF KillerPolls, KillerTo, killerUnchanged
<1>17. CASE KillerFires
  <2>1. CASE killer = "store"
    BY <1>17, <2>1 DEF KillerFires, KillerTo, killerUnchanged
  <2>2. CASE killer = "cancel"
    BY <1>17, <2>2 DEF KillerFires, KillerTo, killerUnchanged
  <2>3. CASE killer = "signal"
    <3>1. backstops \in 0..1
      BY <2>3
    <3>2. backstops + 1 \in 0..2
      BY <3>1
    <3> QED BY <1>17, <2>3, <3>2 DEF KillerFires, KillerTo, killerUnchanged
  <2> QED BY <1>17, <2>1, <2>2, <2>3 DEF KillerFires, KillerTo
<1>18. CASE Backstop
  BY <1>18 DEF Backstop
<1>19. ASSUME NEW r \in Resources, Settle(r)
      PROVE  TypeOK'
  BY <1>19 DEF Settle
<1>20. ASSUME NEW r \in Resources, Fresh(r)
      PROVE  TypeOK'
  BY <1>20 DEF Fresh, TaskTo, taskUnchanged, Without
<1>21. ASSUME NEW r \in Resources, GiveUp(r)
      PROVE  TypeOK'
  BY <1>21 DEF GiveUp, TaskTo, taskUnchanged, Without
<1>22. ASSUME NEW r \in Resources, SeeReady(r)
      PROVE  TypeOK'
  BY <1>22 DEF SeeReady, TaskTo, taskUnchanged, Without
<1>23. ASSUME NEW r \in Resources, SeeError(r)
      PROVE  TypeOK'
  BY <1>23 DEF SeeError, TaskTo, taskUnchanged, Without
<1>24. ASSUME NEW r \in Resources, OutOfTime(r)
      PROVE  TypeOK'
  BY <1>24 DEF OutOfTime, TaskTo, taskUnchanged, Without
<1>25. ASSUME NEW r \in Resources, LeaveGate(r)
      PROVE  TypeOK'
  BY <1>25 DEF LeaveGate, TaskTo, taskUnchanged, Without
<1>26. ASSUME NEW r \in Resources, LeaveKubedog(r)
      PROVE  TypeOK'
  BY <1>26 DEF LeaveKubedog, TaskTo, taskUnchanged, Without
<1>27. CASE UNCHANGED vars
  BY <1>27
<1> QED BY <1>1, <1>2, <1>3, <1>4, <1>5, <1>6, <1>7, <1>8, <1>9, <1>10, <1>11, <1>12, <1>13, <1>14, <1>15, <1>16, <1>17, <1>18, <1>19, <1>20, <1>21, <1>22, <1>23, <1>24, <1>25, <1>26, <1>27
        DEF Next, Worker, Kubedog, Valve, Killer, Over

\* No resource whose tracking failed is forgotten.
LEMMA ErrorsStay ==
    ASSUME IInv, [Next]_vars
    PROVE  setup' = setup /\ (SomeError => SomeError')
<1>0. setup.tracked \subseteq Resources /\ setup.touched \subseteq Resources
  BY Scope DEF IInv
<1> USE DEF IInv, TypeOK, Answers, Final, Untouched, SomeError, workerVars, trackerVars, valveVars, contexts, flags, vars
<1>1. CASE Template
  <2>1. \A r \in Resources : task[r] # "error"
    BY <1>1 DEF Template
  <2> QED BY <1>0, <1>1, <2>1 DEF Template
<1>2. CASE StartHelm
  BY <1>2 DEF StartHelm
<1>3. CASE HelmReturned
  BY <1>3 DEF HelmReturned
<1>4. CASE TrackAfter
  BY <1>4 DEF TrackAfter
<1>5. CASE WaitResult
  BY <1>5 DEF WaitResult, Conclude
<1>6. CASE WaitSafety
  BY <1>6 DEF WaitSafety
<1>7. CASE Windup
  BY <1>7 DEF Windup, Conclude
<1>8. CASE HardTimeout
  BY <1>8 DEF HardTimeout
<1>9. CASE HelmApply
  BY <1>9 DEF HelmApply
<1>10. CASE HelmWedge
  BY <1>10 DEF HelmWedge
<1>11. CASE HelmEnd
  BY <1>11 DEF HelmEnd
<1>12. CASE TrackerStops
  BY <1>12 DEF TrackerStops, AllEnded
<1>13. CASE TrackerSends
  BY <1>13 DEF TrackerSends, AllEnded
<1>14. CASE ValvePolls
  BY <1>14 DEF ValvePolls, ValveTo, valveUnchanged
<1>15. CASE ValveFires
  BY <1>15 DEF ValveFires, ValveTo, valveUnchanged
<1>16. CASE KillerPolls
  BY <1>16 DEF KillerPolls, KillerTo, killerUnchanged
<1>17. CASE KillerFires
  BY <1>17 DEF KillerFires, KillerTo, killerUnchanged
<1>18. CASE Backstop
  BY <1>18 DEF Backstop
<1>19. ASSUME NEW r \in Resources, Settle(r)
      PROVE  setup' = setup /\ (SomeError => SomeError')
  BY <1>19 DEF Settle
<1>20. ASSUME NEW r \in Resources, Fresh(r)
      PROVE  setup' = setup /\ (SomeError => SomeError')
  BY <1>20 DEF Fresh, TaskTo, taskUnchanged, Without
<1>21. ASSUME NEW r \in Resources, GiveUp(r)
      PROVE  setup' = setup /\ (SomeError => SomeError')
  BY <1>21 DEF GiveUp, TaskTo, taskUnchanged, Without
<1>22. ASSUME NEW r \in Resources, SeeReady(r)
      PROVE  setup' = setup /\ (SomeError => SomeError')
  BY <1>22 DEF SeeReady, TaskTo, taskUnchanged, Without
<1>23. ASSUME NEW r \in Resources, SeeError(r)
      PROVE  setup' = setup /\ (SomeError => SomeError')
  BY <1>23 DEF SeeError, TaskTo, taskUnchanged, Without
<1>24. ASSUME NEW r \in Resources, OutOfTime(r)
      PROVE  setup' = setup /\ (SomeError => SomeError')
  BY <1>24 DEF OutOfTime, TaskTo, taskUnchanged, Without
<1>25. ASSUME NEW r \in Resources, LeaveGate(r)
      PROVE  setup' = setup /\ (SomeError => SomeError')
  BY <1>25 DEF LeaveGate, TaskTo, taskUnchanged, Without
<1>26. ASSUME NEW r \in Resources, LeaveKubedog(r)
      PROVE  setup' = setup /\ (SomeError => SomeError')
  BY <1>26 DEF LeaveKubedog, TaskTo, taskUnchanged, Without
<1>27. CASE UNCHANGED vars
  BY <1>27
<1> QED BY <1>1, <1>2, <1>3, <1>4, <1>5, <1>6, <1>7, <1>8, <1>9, <1>10, <1>11, <1>12, <1>13, <1>14, <1>15, <1>16, <1>17, <1>18, <1>19, <1>20, <1>21, <1>22, <1>23, <1>24, <1>25, <1>26, <1>27
        DEF Next, Worker, Kubedog, Valve, Killer, Over

\* Every step keeps what says who cancelled what, and with it the causes of a failure.
LEMMA CausesKept ==
    ASSUME IInv, [Next]_vars
    PROVE  Untouched' /\ Phases' /\ Announced' /\ Reasons' /\ NoPhantomFailure'
<1>0. setup' = setup /\ (SomeError => SomeError')
  BY ErrorsStay
<1> USE <1>0 DEF IInv, TypeOK, Answers, Final, Untouched, Phases, Announced, Reasons, NoPhantomFailure, workerVars, trackerVars, valveVars, contexts, flags, vars
<1>1. CASE Template
  BY <1>1 DEF Template, Started
<1>2. CASE StartHelm
  BY <1>2 DEF StartHelm
<1>3. CASE HelmReturned
  BY <1>3 DEF HelmReturned
<1>4. CASE TrackAfter
  BY <1>4 DEF TrackAfter
<1>5. CASE WaitResult
  BY <1>5 DEF WaitResult, Conclude
<1>6. CASE WaitSafety
  BY <1>6 DEF WaitSafety
<1>7. CASE Windup
  BY <1>7 DEF Windup, Conclude
<1>8. CASE HardTimeout
  BY <1>8 DEF HardTimeout
<1>9. CASE HelmApply
  BY <1>9 DEF HelmApply
<1>10. CASE HelmWedge
  BY <1>10 DEF HelmWedge
<1>11. CASE HelmEnd
  BY <1>11 DEF HelmEnd
<1>12. CASE TrackerStops
  BY <1>12 DEF TrackerStops, AllEnded
<1>13. CASE TrackerSends
  BY <1>13 DEF TrackerSends, AllEnded
<1>14. CASE ValvePolls
  BY <1>14 DEF ValvePolls, ValveTo, valveUnchanged
<1>15. CASE ValveFires
  BY <1>15 DEF ValveFires, ValveTo, valveUnchanged
<1>16. CASE KillerPolls
  BY <1>16 DEF KillerPolls, KillerTo, killerUnchanged
<1>17. CASE KillerFires
  BY <1>17 DEF KillerFires, KillerTo, killerUnchanged
<1>18. CASE Backstop
  BY <1>18 DEF Backstop
<1>19. ASSUME NEW r \in Resources, Settle(r)
      PROVE  Untouched' /\ Phases' /\ Announced' /\ Reasons' /\ NoPhantomFailure'
  BY <1>19 DEF Settle
<1>20. ASSUME NEW r \in Resources, Fresh(r)
      PROVE  Untouched' /\ Phases' /\ Announced' /\ Reasons' /\ NoPhantomFailure'
  BY <1>20 DEF Fresh, TaskTo, taskUnchanged, Without
<1>21. ASSUME NEW r \in Resources, GiveUp(r)
      PROVE  Untouched' /\ Phases' /\ Announced' /\ Reasons' /\ NoPhantomFailure'
  BY <1>21 DEF GiveUp, TaskTo, taskUnchanged, Without
<1>22. ASSUME NEW r \in Resources, SeeReady(r)
      PROVE  Untouched' /\ Phases' /\ Announced' /\ Reasons' /\ NoPhantomFailure'
  BY <1>22 DEF SeeReady, TaskTo, taskUnchanged, Without
<1>23. ASSUME NEW r \in Resources, SeeError(r)
      PROVE  Untouched' /\ Phases' /\ Announced' /\ Reasons' /\ NoPhantomFailure'
  BY <1>23 DEF SeeError, TaskTo, taskUnchanged, Without
<1>24. ASSUME NEW r \in Resources, OutOfTime(r)
      PROVE  Untouched' /\ Phases' /\ Announced' /\ Reasons' /\ NoPhantomFailure'
  BY <1>24 DEF OutOfTime, TaskTo, taskUnchanged, Without
<1>25. ASSUME NEW r \in Resources, LeaveGate(r)
      PROVE  Untouched' /\ Phases' /\ Announced' /\ Reasons' /\ NoPhantomFailure'
  BY <1>25 DEF LeaveGate, TaskTo, taskUnchanged, Without
<1>26. ASSUME NEW r \in Resources, LeaveKubedog(r)
      PROVE  Untouched' /\ Phases' /\ Announced' /\ Reasons' /\ NoPhantomFailure'
  BY <1>26 DEF LeaveKubedog, TaskTo, taskUnchanged, Without
<1>27. CASE UNCHANGED vars
  BY <1>27
<1> QED BY <1>1, <1>2, <1>3, <1>4, <1>5, <1>6, <1>7, <1>8, <1>9, <1>10, <1>11, <1>12, <1>13, <1>14, <1>15, <1>16, <1>17, <1>18, <1>19, <1>20, <1>21, <1>22, <1>23, <1>24, <1>25, <1>26, <1>27
        DEF Next, Worker, Kubedog, Valve, Killer, Over

----------------------------------------------------------------------------
(* Every step keeps the second.                                             *)

\* Every step keeps what is known of helm and its changes.
LEMMA AppliedKept ==
    ASSUME IInv, SInv, [Next]_vars
    PROVE  Applied'
<1>0. setup.tracked \subseteq Resources /\ setup.touched \subseteq Resources
  BY Scope DEF IInv
<1> USE <1>0 DEF IInv, TypeOK, Answers, Final, SInv, Untouched, Phases, Announced, Reasons, Applied, Changed, workerVars, trackerVars, valveVars, contexts, flags, vars
<1>1. CASE Template
  BY <1>1 DEF Template, Started
<1>2. CASE StartHelm
  BY <1>2 DEF StartHelm
<1>3. CASE HelmReturned
  BY <1>3 DEF HelmReturned
<1>4. CASE TrackAfter
  BY <1>4 DEF TrackAfter
<1>5. CASE WaitResult
  BY <1>5 DEF WaitResult, Conclude
<1>6. CASE WaitSafety
  BY <1>6 DEF WaitSafety
<1>7. CASE Windup
  BY <1>7 DEF Windup, Conclude
<1>8. CASE HardTimeout
  BY <1>8 DEF HardTimeout
<1>9. CASE HelmApply
  BY <1>9 DEF HelmApply
<1>10. CASE HelmWedge
  BY <1>10 DEF HelmWedge
<1>11. CASE HelmEnd
  BY <1>11 DEF HelmEnd
<1>12. CASE TrackerStops
  BY <1>12 DEF TrackerStops, AllEnded
<1>13. CASE TrackerSends
  BY <1>13 DEF TrackerSends, AllEnded
<1>14. CASE ValvePolls
  BY <1>14 DEF ValvePolls, ValveTo, valveUnchanged
<1>15. CASE ValveFires
  BY <1>15 DEF ValveFires, ValveTo, valveUnchanged
<1>16. CASE KillerPolls
  BY <1>16 DEF KillerPolls, KillerTo, killerUnchanged
<1>17. CASE KillerFires
  BY <1>17 DEF KillerFires, KillerTo, killerUnchanged
<1>18. CASE Backstop
  BY <1>18 DEF Backstop
<1>19. ASSUME NEW r \in Resources, Settle(r)
      PROVE  Applied'
  BY <1>19 DEF Settle
<1>20. ASSUME NEW r \in Resources, Fresh(r)
      PROVE  Applied'
  BY <1>20 DEF Fresh, TaskTo, taskUnchanged, Without
<1>21. ASSUME NEW r \in Resources, GiveUp(r)
      PROVE  Applied'
  BY <1>21 DEF GiveUp, TaskTo, taskUnchanged, Without
<1>22. ASSUME NEW r \in Resources, SeeReady(r)
      PROVE  Applied'
  BY <1>22 DEF SeeReady, TaskTo, taskUnchanged, Without
<1>23. ASSUME NEW r \in Resources, SeeError(r)
      PROVE  Applied'
  BY <1>23 DEF SeeError, TaskTo, taskUnchanged, Without
<1>24. ASSUME NEW r \in Resources, OutOfTime(r)
      PROVE  Applied'
  BY <1>24 DEF OutOfTime, TaskTo, taskUnchanged, Without
<1>25. ASSUME NEW r \in Resources, LeaveGate(r)
      PROVE  Applied'
  BY <1>25 DEF LeaveGate, TaskTo, taskUnchanged, Without
<1>26. ASSUME NEW r \in Resources, LeaveKubedog(r)
      PROVE  Applied'
  BY <1>26 DEF LeaveKubedog, TaskTo, taskUnchanged, Without
<1>27. CASE UNCHANGED vars
  BY <1>27
<1> QED BY <1>1, <1>2, <1>3, <1>4, <1>5, <1>6, <1>7, <1>8, <1>9, <1>10, <1>11, <1>12, <1>13, <1>14, <1>15, <1>16, <1>17, <1>18, <1>19, <1>20, <1>21, <1>22, <1>23, <1>24, <1>25, <1>26, <1>27
        DEF Next, Worker, Kubedog, Valve, Killer, Over

\* What is ready or given up stays so.
LEMMA ReadyStays ==
    ASSUME IInv, SInv, [Next]_vars
    PROVE  \A q \in setup.touched : Ready(q) => Ready(q)'
<1>0. setup.tracked \subseteq Resources /\ setup.touched \subseteq Resources
  BY Scope DEF IInv
<1> USE <1>0 DEF IInv, TypeOK, Answers, Final, SInv, Untouched, Phases, Applied, Ready, workerVars, trackerVars, valveVars, contexts, flags, vars
<1>1. CASE Template
  BY <1>1 DEF Template, Started
<1>2. CASE StartHelm
  BY <1>2 DEF StartHelm
<1>3. CASE HelmReturned
  BY <1>3 DEF HelmReturned
<1>4. CASE TrackAfter
  BY <1>4 DEF TrackAfter
<1>5. CASE WaitResult
  BY <1>5 DEF WaitResult, Conclude
<1>6. CASE WaitSafety
  BY <1>6 DEF WaitSafety
<1>7. CASE Windup
  BY <1>7 DEF Windup, Conclude
<1>8. CASE HardTimeout
  BY <1>8 DEF HardTimeout
<1>9. CASE HelmApply
  BY <1>9 DEF HelmApply
<1>10. CASE HelmWedge
  BY <1>10 DEF HelmWedge
<1>11. CASE HelmEnd
  BY <1>11 DEF HelmEnd
<1>12. CASE TrackerStops
  BY <1>12 DEF TrackerStops, AllEnded
<1>13. CASE TrackerSends
  BY <1>13 DEF TrackerSends, AllEnded
<1>14. CASE ValvePolls
  BY <1>14 DEF ValvePolls, ValveTo, valveUnchanged
<1>15. CASE ValveFires
  BY <1>15 DEF ValveFires, ValveTo, valveUnchanged
<1>16. CASE KillerPolls
  BY <1>16 DEF KillerPolls, KillerTo, killerUnchanged
<1>17. CASE KillerFires
  BY <1>17 DEF KillerFires, KillerTo, killerUnchanged
<1>18. CASE Backstop
  BY <1>18 DEF Backstop
<1>19. ASSUME NEW r \in Resources, Settle(r)
      PROVE  \A q \in setup.touched : Ready(q) => Ready(q)'
  BY <1>19 DEF Settle
<1>20. ASSUME NEW r \in Resources, Fresh(r)
      PROVE  \A q \in setup.touched : Ready(q) => Ready(q)'
  BY <1>20 DEF Fresh, TaskTo, taskUnchanged, Without
<1>21. ASSUME NEW r \in Resources, GiveUp(r)
      PROVE  \A q \in setup.touched : Ready(q) => Ready(q)'
  BY <1>21 DEF GiveUp, TaskTo, taskUnchanged, Without
<1>22. ASSUME NEW r \in Resources, SeeReady(r)
      PROVE  \A q \in setup.touched : Ready(q) => Ready(q)'
  BY <1>22 DEF SeeReady, TaskTo, taskUnchanged, Without
<1>23. ASSUME NEW r \in Resources, SeeError(r)
      PROVE  \A q \in setup.touched : Ready(q) => Ready(q)'
  BY <1>23 DEF SeeError, TaskTo, taskUnchanged, Without
<1>24. ASSUME NEW r \in Resources, OutOfTime(r)
      PROVE  \A q \in setup.touched : Ready(q) => Ready(q)'
  BY <1>24 DEF OutOfTime, TaskTo, taskUnchanged, Without
<1>25. ASSUME NEW r \in Resources, LeaveGate(r)
      PROVE  \A q \in setup.touched : Ready(q) => Ready(q)'
  BY <1>25 DEF LeaveGate, TaskTo, taskUnchanged, Without
<1>26. ASSUME NEW r \in Resources, LeaveKubedog(r)
      PROVE  \A q \in setup.touched : Ready(q) => Ready(q)'
  BY <1>26 DEF LeaveKubedog, TaskTo, taskUnchanged, Without
<1>27. CASE UNCHANGED vars
  BY <1>27
<1> QED BY <1>1, <1>2, <1>3, <1>4, <1>5, <1>6, <1>7, <1>8, <1>9, <1>10, <1>11, <1>12, <1>13, <1>14, <1>15, <1>16, <1>17, <1>18, <1>19, <1>20, <1>21, <1>22, <1>23, <1>24, <1>25, <1>26, <1>27
        DEF Next, Worker, Kubedog, Valve, Killer, Over

\* Both, as the next proof needs them.
LEMMA Stay ==
    ASSUME IInv, SInv, [Next]_vars
    PROVE  /\ setup' = setup /\ (SomeError => SomeError') /\ (AllReady => AllReady')
           /\ (AllCounted => AllCounted') \/ relied' # relied
           /\ \A q \in setup.touched : Ready(q) => Ready(q)'
           /\ setup.tracked \subseteq Resources /\ setup.touched \subseteq Resources
<1>1. setup.tracked \subseteq Resources /\ setup.touched \subseteq Resources
  BY Scope DEF IInv
<1>2. setup' = setup /\ (SomeError => SomeError')
  BY ErrorsStay
<1>3. \A q \in setup.touched : Ready(q) => Ready(q)'
  BY ReadyStays
<1> QED BY <1>1, <1>2, <1>3 DEF AllReady, AllCounted

\* Every step keeps what the end of the tracking rests on.
LEMMA SuccessKept ==
    ASSUME IInv, SInv, [Next]_vars
    PROVE  Confirmed' /\ Sound'
<1>0. /\ setup' = setup /\ (SomeError => SomeError') /\ (AllReady => AllReady')
      /\ (AllCounted => AllCounted') \/ relied' # relied
      /\ \A q \in setup.touched : Ready(q) => Ready(q)'
      /\ setup.tracked \subseteq Resources /\ setup.touched \subseteq Resources
  BY Stay
<1> USE <1>0 DEF IInv, TypeOK, Answers, Final, SInv, Untouched, Phases, Announced, Reasons, Applied, Confirmed, Sound, workerVars, trackerVars, valveVars, contexts, flags, vars
<1>1. CASE Template
  BY <1>1 DEF Template, Started
<1>2. CASE StartHelm
  BY <1>2 DEF StartHelm
<1>3. CASE HelmReturned
  BY <1>3 DEF HelmReturned
<1>4. CASE TrackAfter
  BY <1>4 DEF TrackAfter
<1>5. CASE WaitResult
  BY <1>5 DEF WaitResult, Conclude
<1>6. CASE WaitSafety
  BY <1>6 DEF WaitSafety
<1>7. CASE Windup
  BY <1>7 DEF Windup, Conclude
<1>8. CASE HardTimeout
  BY <1>8 DEF HardTimeout
<1>9. CASE HelmApply
  BY <1>9 DEF HelmApply
<1>10. CASE HelmWedge
  BY <1>10 DEF HelmWedge
<1>11. CASE HelmEnd
  BY <1>11 DEF HelmEnd
<1>12. CASE TrackerStops
  <2>1. ASSUME AllEnded, ~killed, ~trackCtx, tracker = "select", ~SomeError
        PROVE  AllReady
    <3> SUFFICES ASSUME NEW r \in setup.tracked \cap setup.touched
                 PROVE  Ready(r)
      BY DEF AllReady
    <3>1. task[r] \in {"ended", "skipped"}
      BY <2>1 DEF AllEnded, SomeError
    <3> QED BY <2>1, <3>1 DEF Ready
  <2> QED BY <1>12, <2>1 DEF TrackerStops, AllEnded
<1>13. CASE TrackerSends
  BY <1>13 DEF TrackerSends, AllEnded
<1>14. CASE ValvePolls
  <2>1. ASSUME Converged, valve = "poll", ~killed, relied' = {r \in Resources : cluster[r] = "rolling"},
               UNCHANGED <<setup, cluster, gaveUp>>
        PROVE  AllCounted'
    <3> SUFFICES ASSUME NEW r \in setup.tracked \cap setup.touched
                 PROVE  Ready(r) \/ r \in relied' \cap Rolling
      BY <2>1 DEF AllCounted, Ready
    <3>1. Changed(r) /\ r \in Resources
      BY <2>1
    <3>2. task[r] = "skipped" => r \in gaveUp
      BY <2>1
    <3> QED BY <2>1, <3>1, <3>2 DEF Converged, Changed, Ready
  <2>2. CASE valve = "poll" /\ valve' = "store"
    BY <1>14, <2>1, <2>2 DEF ValvePolls, ValveTo, valveUnchanged
  <2>3. CASE valve \in {"grace", "poll"} /\ valve' \in {"poll", "ended"} /\ UNCHANGED relied
    BY <1>14, <2>3 DEF ValvePolls, ValveTo, valveUnchanged
  <2> QED BY <1>14, <2>2, <2>3 DEF ValvePolls, ValveTo
<1>15. CASE ValveFires
  BY <1>15 DEF ValveFires, ValveTo, valveUnchanged
<1>16. CASE KillerPolls
  BY <1>16 DEF KillerPolls, KillerTo, killerUnchanged
<1>17. CASE KillerFires
  BY <1>17 DEF KillerFires, KillerTo, killerUnchanged
<1>18. CASE Backstop
  BY <1>18 DEF Backstop
<1>19. ASSUME NEW r \in Resources, Settle(r)
      PROVE  Confirmed' /\ Sound'
  BY <1>19 DEF Settle
<1>20. ASSUME NEW r \in Resources, Fresh(r)
      PROVE  Confirmed' /\ Sound'
  BY <1>20 DEF Fresh, TaskTo, taskUnchanged, Without
<1>21. ASSUME NEW r \in Resources, GiveUp(r)
      PROVE  Confirmed' /\ Sound'
  BY <1>21 DEF GiveUp, TaskTo, taskUnchanged, Without
<1>22. ASSUME NEW r \in Resources, SeeReady(r)
      PROVE  Confirmed' /\ Sound'
  <2>1. \A q \in setup.touched : q # r => task'[q] = task[q]
    BY <1>22 DEF SeeReady, TaskTo
  <2>2. task'[r] = "ended"
    BY <1>22 DEF SeeReady, TaskTo
  <2>3. r \in setup.touched => Ready(r)' \/ trackCtx \/ tracker # "select"
    BY <1>22 DEF SeeReady, taskUnchanged, Without, Ready, TaskTo
  <2>4. gaveUp \subseteq gaveUp'
    BY <1>22 DEF SeeReady, Without
  <2> QED BY <1>22, <2>1, <2>2, <2>3, <2>4 DEF SeeReady, taskUnchanged
<1>23. ASSUME NEW r \in Resources, SeeError(r)
      PROVE  Confirmed' /\ Sound'
  BY <1>23 DEF SeeError, TaskTo, taskUnchanged, Without
<1>24. ASSUME NEW r \in Resources, OutOfTime(r)
      PROVE  Confirmed' /\ Sound'
  <2>1. \A q \in setup.touched : q # r => task'[q] = task[q]
    BY <1>24 DEF OutOfTime, TaskTo
  <2>2. task'[r] = "ended"
    BY <1>24 DEF OutOfTime, TaskTo
  <2>3. r \in setup.touched => Ready(r)' \/ trackCtx \/ tracker # "select"
    BY <1>24 DEF OutOfTime, taskUnchanged, Without, Ready, TaskTo
  <2>4. gaveUp \subseteq gaveUp'
    BY <1>24 DEF OutOfTime, Without
  <2> QED BY <1>24, <2>1, <2>2, <2>3, <2>4 DEF OutOfTime, taskUnchanged
<1>25. ASSUME NEW r \in Resources, LeaveGate(r)
      PROVE  Confirmed' /\ Sound'
  <2>1. \A q \in setup.touched : q # r => task'[q] = task[q]
    BY <1>25 DEF LeaveGate, TaskTo
  <2>2. task'[r] = "ended"
    BY <1>25 DEF LeaveGate, TaskTo
  <2>3. r \in setup.touched => Ready(r)' \/ trackCtx \/ tracker # "select"
    BY <1>25 DEF LeaveGate, taskUnchanged, Without, Ready, TaskTo, Stopping
  <2>4. gaveUp \subseteq gaveUp'
    BY <1>25 DEF LeaveGate, Without
  <2> QED BY <1>25, <2>1, <2>2, <2>3, <2>4 DEF LeaveGate, taskUnchanged
<1>26. ASSUME NEW r \in Resources, LeaveKubedog(r)
      PROVE  Confirmed' /\ Sound'
  <2>1. \A q \in setup.touched : q # r => task'[q] = task[q]
    BY <1>26 DEF LeaveKubedog, TaskTo
  <2>2. task'[r] = "ended"
    BY <1>26 DEF LeaveKubedog, TaskTo
  <2>3. r \in setup.touched => Ready(r)' \/ trackCtx \/ tracker # "select"
    BY <1>26 DEF LeaveKubedog, taskUnchanged, Without, Ready, TaskTo, Stopping
  <2>4. gaveUp \subseteq gaveUp'
    BY <1>26 DEF LeaveKubedog, Without
  <2> QED BY <1>26, <2>1, <2>2, <2>3, <2>4 DEF LeaveKubedog, taskUnchanged
<1>27. CASE UNCHANGED vars
  BY <1>27
<1> QED BY <1>1, <1>2, <1>3, <1>4, <1>5, <1>6, <1>7, <1>8, <1>9, <1>10, <1>11, <1>12, <1>13, <1>14, <1>15, <1>16, <1>17, <1>18, <1>19, <1>20, <1>21, <1>22, <1>23, <1>24, <1>25, <1>26, <1>27
        DEF Next, Worker, Kubedog, Valve, Killer, Over

----------------------------------------------------------------------------
(* Theorems.                                                                *)

LEMMA InitKeeps == Init => IInv /\ SInv
<1> SUFFICES ASSUME Init
             PROVE  IInv /\ SInv
  OBVIOUS
<1>1. TypeOK
  <2>1. /\ task \in [Resources -> {"off", "gate", "attached"} \cup Final]
        /\ cluster \in [Resources -> {"absent", "old", "creating", "updating", "rolling",
                                    "ready", "failed"}]
    BY DEF Init
  <2>2. firstErr \in Answers /\ resultCh \in Answers \cup {"empty"} /\ gaveUp \subseteq setup.touched
        /\ relied \subseteq Resources
    BY DEF Init, Answers
  <2>3. /\ setup \in Setups /\ pc = "template" /\ result = "none" /\ helm = "idle"
        /\ mode = "undecided" /\ tracker = "off" /\ valve = "off" /\ killer = "off" /\ backstops = 0
    BY DEF Init
  <2>4. {helmDone, safetyFired, trackCtx, releaseCtx, triggered, killed, canceled, expired} \subseteq BOOLEAN
    BY DEF Init
  <2> QED BY <2>1, <2>2, <2>3, <2>4 DEF TypeOK
<1>2. Untouched /\ Phases /\ Announced /\ NoPhantomFailure
  BY DEF Init, Untouched, Phases, Announced, NoPhantomFailure
<1>3. Reasons
  BY DEF Init, Reasons
<1>4. setup.touched \subseteq Resources
  BY <1>1, Scope
<1>5. SInv
  BY <1>4 DEF Init, SInv, Applied, Confirmed, Sound
<1> QED BY <1>1, <1>2, <1>3, <1>5 DEF IInv

LEMMA NextKeeps == IInv /\ SInv /\ [Next]_vars => (IInv /\ SInv)'
<1>1. IInv /\ [Next]_vars => IInv'
  BY TypesKept, CausesKept DEF IInv
<1>2. IInv /\ SInv /\ [Next]_vars => SInv'
  BY AppliedKept, SuccessKept DEF SInv
<1> QED BY <1>1, <1>2

LEMMA Invariant == Spec => [](IInv /\ SInv)
BY InitKeeps, NextKeeps, PTL DEF Spec

\* Every variable stays in its type; each valve schedules at most one backstop.
THEOREM TypeCorrect == Spec => []TypeOK
<1>1. IInv => TypeOK
  BY DEF IInv
<1> QED BY Invariant, <1>1, PTL

\* A release is never reported as failed because of what the safety valve or the helm killer
\* cancelled: each says why before it cancels, and wait looks at that (startBackgroundKubedogTracking).
THEOREM FailuresHaveCauses == Spec => []NoPhantomFailure
<1>1. IInv => NoPhantomFailure
  BY DEF IInv
<1> QED BY Invariant, <1>1, PTL

\* Whoever ended the tracking of a release that is reported as a success, the tracker or the
\* backstop, its tracked resources were ready in the new version or had been given up; the
\* safety valve can also have counted the old pods of a rolling update (VerifyAllConverged).
THEOREM SuccessTrue == Spec => []SuccessConfirmed
<1>1. SInv => SuccessConfirmed
  BY DEF SInv, Confirmed, Sound, AllReady, AllCounted, Ready, OldPodsCounted, SuccessConfirmed
<1> QED BY Invariant, <1>1, PTL
=============================================================================
