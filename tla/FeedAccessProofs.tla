-------------------------- MODULE FeedAccessProofs --------------------------
(***************************************************************************)
(* FeedAccess for every number of requests and managers and every value of *)
(* the times.                                                              *)
(*                                                                         *)
(* Two arguments, both over single steps.  SecretsInv: from the moment a   *)
(* request comes in, the secret of the row is always among those it may be *)
(* served with, and what Verify accepted stays there.  UseInv: a clock is  *)
(* never older than MaxDelay when its statement is executed, so whatever   *)
(* touch is written last, the row is at most MaxDelay behind the last use. *)
(***************************************************************************)
EXTENDS FeedAccess, TLAPS

(* What TypeOK needs to be inductive: where issued secrets come from. *)
IssuedInv ==
    /\ create.pc = "stamped" => issued >= 1
    /\ \A m \in Managers : manage[m].pc = "rotate" => manage[m].secret \in 1..issued

TypeInv == TypeOK /\ IssuedInv

(* Nobody can ask before there is a feed. *)
BeforeInv ==
    create.pc # "done" =>
        feed = {} /\ shown = {} /\ \A r \in Requests : ics[r].pc = "idle"

SecretsInv ==
    \A r \in Requests :
        /\ ics[r].pc # "idle" => Secrets \subseteq valid[r]
        /\ ics[r].pc \in {"refresh", "touch", "200"} => ics[r].secret \in valid[r]

Recent(clock) == clock <= now /\ now <= clock + MaxDelay

UseInv ==
    /\ lastUsed <= now
    /\ \A f \in feed : lastUsed <= f.touched + MaxDelay
    /\ create.pc = "stamped" => Recent(create.at)
    /\ \A r \in Requests : ics[r].pc = "touch" => Recent(ics[r].at)

AccessInv == TypeInv /\ BeforeInv /\ SecretsInv /\ UseInv

-----------------------------------------------------------------------------
LEMMA AccessInit == Init => AccessInv
<1> USE AccessAssumption
<1>1. Init => TypeInv
  BY DEF Init, TypeInv, TypeOK, IssuedInv, FeedRow
<1>2. Init => BeforeInv /\ SecretsInv /\ UseInv
  BY DEF Init, BeforeInv, SecretsInv, UseInv, Secrets
<1> QED BY <1>1, <1>2 DEF AccessInv

ICSStates == {"idle", "lookup", "refresh", "touch", "200", "404", "refused"}

LoopStates == {"starting", "first", "later", "waiting"}

\* The reaper's record after a run.
LEMMA ReaperWaits ==
    ASSUME TypeOK, Wait
    PROVE  reaper' \in [pc : LoopStates, clock : Nat, due : Nat]
<1> USE AccessAssumption
<1> DEFINE next == (IF reaper.pc = "first" THEN now ELSE reaper.due) + Every
<1>1. reaper \in [pc : LoopStates, clock : Nat, due : Nat] /\ now \in Nat
  BY DEF TypeOK, LoopStates
<1>2. next \in Nat
  BY <1>1
<1>3. reaper' = [pc |-> "waiting", clock |-> reaper.clock, due |-> next]
  BY <1>1 DEF Wait
<1> HIDE DEF next
<1> QED BY <1>1, <1>2, <1>3 DEF LoopStates

LEMMA TypeKept ==
    ASSUME TypeInv, [Next]_vars PROVE TypeInv'
<1> USE AccessAssumption DEF FeedRow
<1>1. CASE CreateStamp
  BY <1>1 DEF TypeInv, TypeOK, IssuedInv, CreateStamp, handlers, history
<1>2. CASE CreateFeed
  BY <1>2 DEF TypeInv, TypeOK, IssuedInv, CreateFeed, handlers, history
<1>3. CASE CreateFails
  BY <1>3 DEF TypeInv, TypeOK, IssuedInv, CreateFails, handlers, history
<1>4. ASSUME NEW r \in Requests, Begin(r) PROVE TypeInv'
  BY <1>4 DEF TypeInv, TypeOK, IssuedInv, Begin, Secrets, handlers, history
<1>5. ASSUME NEW r \in Requests, Lookup(r) PROVE TypeInv'
  BY <1>5 DEF TypeInv, TypeOK, IssuedInv, Lookup, Answer, handlers, history
<1>6. ASSUME NEW r \in Requests, NotFound(r) PROVE TypeInv'
  BY <1>6 DEF TypeInv, TypeOK, IssuedInv, NotFound, Answer, handlers, history
<1>7. ASSUME NEW r \in Requests, Refused(r) PROVE TypeInv'
  BY <1>7 DEF TypeInv, TypeOK, IssuedInv, Refused, Answer, handlers, history
<1>8. ASSUME NEW r \in Requests, RefreshFails(r) PROVE TypeInv'
  BY <1>8 DEF TypeInv, TypeOK, IssuedInv, RefreshFails, Answer, handlers, history
<1>9. ASSUME NEW r \in Requests, RefreshReturns(r) PROVE TypeInv'
  <2>1. ics[r] \in [pc : ICSStates, secret : Nat, at : Nat] /\ now \in Nat
    BY DEF TypeInv, TypeOK, ICSStates
  <2>2. [ics[r] EXCEPT !.pc = "touch", !.at = now]
          \in [pc : ICSStates, secret : Nat, at : Nat]
    BY <2>1 DEF ICSStates
  <2>3. ics' \in [Requests -> [pc : ICSStates, secret : Nat, at : Nat]]
    BY <1>9, <2>2 DEF RefreshReturns, TypeInv, TypeOK, ICSStates
  <2> QED BY <1>9, <2>3
     DEF TypeInv, TypeOK, IssuedInv, RefreshReturns, ICSStates, handlers, history
<1>10. ASSUME NEW r \in Requests, Serve(r) PROVE TypeInv'
  BY <1>10 DEF TypeInv, TypeOK, IssuedInv, Serve, Answer, TouchLastRequest, handlers, history
<1>11. ASSUME NEW r \in Requests, TouchFails(r) PROVE TypeInv'
  BY <1>11 DEF TypeInv, TypeOK, IssuedInv, TouchFails, Answer, TouchLastRequest, handlers, history
<1>12. ASSUME NEW r \in Requests, Leave(r) PROVE TypeInv'
  BY <1>12 DEF TypeInv, TypeOK, IssuedInv, Leave, handlers, history
<1>13. ASSUME NEW m \in Managers, LoadManaged(m) PROVE TypeInv'
  BY <1>13 DEF TypeInv, TypeOK, IssuedInv, LoadManaged, handlers, history
<1>14. ASSUME NEW m \in Managers, ManageEnds(m) PROVE TypeInv'
  BY <1>14 DEF TypeInv, TypeOK, IssuedInv, ManageEnds, handlers, history
<1>15. ASSUME NEW m \in Managers, Generate(m) PROVE TypeInv'
  BY <1>15 DEF TypeInv, TypeOK, IssuedInv, Generate, handlers, history
<1>16. ASSUME NEW m \in Managers, RotateFeedToken(m) PROVE TypeInv'
  <2>1. feed' \in SUBSET FeedRow /\ \A f, g \in feed' : f = g
    BY <1>16 DEF RotateFeedToken, TypeInv, TypeOK, FeedRow
  <2>2. manage' \in [Managers -> [pc : {"idle", "loaded", "rotate"}, secret : Nat]]
    BY <1>16 DEF RotateFeedToken, TypeInv, TypeOK
  <2>3. valid' \in [Requests -> SUBSET Nat]
    BY <1>16 DEF RotateFeedToken, TypeInv, TypeOK
  <2>4. shown' \subseteq 1..issued'
    BY <1>16 DEF RotateFeedToken, TypeInv, TypeOK, IssuedInv
  <2>5. IssuedInv'
    BY <1>16, <2>1 DEF RotateFeedToken, TypeInv, TypeOK, IssuedInv
  <2> QED
    BY <1>16, <2>1, <2>2, <2>3, <2>4, <2>5 DEF RotateFeedToken, TypeInv, TypeOK
<1>17. ASSUME NEW m \in Managers, DeleteFeed(m) PROVE TypeInv'
  BY <1>17 DEF TypeInv, TypeOK, IssuedInv, DeleteFeed, handlers, history
<1>18. CASE RunOnce
  BY <1>18 DEF TypeInv, TypeOK, IssuedInv, RunOnce, handlers, history
<1>19. CASE DeleteStaleFeeds
  <2>1. reaper' \in [pc : LoopStates, clock : Nat, due : Nat]
    BY <1>19, ReaperWaits DEF DeleteStaleFeeds, TypeInv
  <2> QED BY <1>19, <2>1
     DEF TypeInv, TypeOK, IssuedInv, DeleteStaleFeeds, LoopStates, handlers, history
<1>20. CASE RunFails
  <2>1. reaper' \in [pc : LoopStates, clock : Nat, due : Nat]
    BY <1>20, ReaperWaits DEF RunFails, TypeInv
  <2> QED BY <1>20, <2>1
     DEF TypeInv, TypeOK, IssuedInv, RunFails, LoopStates, handlers, history
<1>21. CASE Restart
  BY <1>21 DEF TypeInv, TypeOK, IssuedInv, Restart, handlers, history
<1>22. CASE Tick
  BY <1>22 DEF TypeInv, TypeOK, IssuedInv, Tick, handlers, history
<1>23. CASE UNCHANGED vars
  BY <1>23 DEF TypeInv, TypeOK, IssuedInv, vars, handlers, history
<1> QED
  BY <1>1, <1>2, <1>3, <1>4, <1>5, <1>6, <1>7, <1>8, <1>9, <1>10, <1>11, <1>12, <1>13, <1>14, <1>15, <1>16, <1>17, <1>18, <1>19, <1>20, <1>21, <1>22, <1>23
     DEF Next, ICSStep, ManageStep

LEMMA BeforeKept ==
    ASSUME TypeInv, BeforeInv, [Next]_vars PROVE BeforeInv'
<1> USE AccessAssumption DEF FeedRow
<1>1. CASE CreateStamp
  BY <1>1 DEF BeforeInv, TypeInv, TypeOK, CreateStamp, handlers, history
<1>2. CASE CreateFeed
  BY <1>2 DEF BeforeInv, TypeInv, TypeOK, CreateFeed, handlers, history
<1>3. CASE CreateFails
  BY <1>3 DEF BeforeInv, TypeInv, TypeOK, CreateFails, handlers, history
<1>4. ASSUME NEW r \in Requests, Begin(r) PROVE BeforeInv'
  BY <1>4 DEF BeforeInv, TypeInv, TypeOK, Begin, Secrets, handlers, history
<1>5. ASSUME NEW r \in Requests, Lookup(r) PROVE BeforeInv'
  BY <1>5 DEF BeforeInv, TypeInv, TypeOK, Lookup, Answer, handlers, history
<1>6. ASSUME NEW r \in Requests, NotFound(r) PROVE BeforeInv'
  BY <1>6 DEF BeforeInv, TypeInv, TypeOK, NotFound, Answer, handlers, history
<1>7. ASSUME NEW r \in Requests, Refused(r) PROVE BeforeInv'
  BY <1>7 DEF BeforeInv, TypeInv, TypeOK, Refused, Answer, handlers, history
<1>8. ASSUME NEW r \in Requests, RefreshFails(r) PROVE BeforeInv'
  BY <1>8 DEF BeforeInv, TypeInv, TypeOK, RefreshFails, Answer, handlers, history
<1>9. ASSUME NEW r \in Requests, RefreshReturns(r) PROVE BeforeInv'
  BY <1>9 DEF BeforeInv, TypeInv, TypeOK, RefreshReturns, handlers, history
<1>10. ASSUME NEW r \in Requests, Serve(r) PROVE BeforeInv'
  BY <1>10 DEF BeforeInv, TypeInv, TypeOK, Serve, Answer, TouchLastRequest, handlers, history
<1>11. ASSUME NEW r \in Requests, TouchFails(r) PROVE BeforeInv'
  BY <1>11 DEF BeforeInv, TypeInv, TypeOK, TouchFails, Answer, TouchLastRequest, handlers, history
<1>12. ASSUME NEW r \in Requests, Leave(r) PROVE BeforeInv'
  BY <1>12 DEF BeforeInv, TypeInv, TypeOK, Leave, handlers, history
<1>13. ASSUME NEW m \in Managers, LoadManaged(m) PROVE BeforeInv'
  BY <1>13 DEF BeforeInv, TypeInv, TypeOK, LoadManaged, handlers, history
<1>14. ASSUME NEW m \in Managers, ManageEnds(m) PROVE BeforeInv'
  BY <1>14 DEF BeforeInv, TypeInv, TypeOK, ManageEnds, handlers, history
<1>15. ASSUME NEW m \in Managers, Generate(m) PROVE BeforeInv'
  BY <1>15 DEF BeforeInv, TypeInv, TypeOK, Generate, handlers, history
<1>16. ASSUME NEW m \in Managers, RotateFeedToken(m) PROVE BeforeInv'
  BY <1>16 DEF BeforeInv, TypeInv, TypeOK, RotateFeedToken, handlers, history
<1>17. ASSUME NEW m \in Managers, DeleteFeed(m) PROVE BeforeInv'
  BY <1>17 DEF BeforeInv, TypeInv, TypeOK, DeleteFeed, handlers, history
<1>18. CASE RunOnce
  BY <1>18 DEF BeforeInv, TypeInv, TypeOK, RunOnce, handlers, history
<1>19. CASE DeleteStaleFeeds
  BY <1>19 DEF BeforeInv, TypeInv, TypeOK, DeleteStaleFeeds, Wait, handlers, history
<1>20. CASE RunFails
  BY <1>20 DEF BeforeInv, TypeInv, TypeOK, RunFails, Wait, handlers, history
<1>21. CASE Restart
  BY <1>21 DEF BeforeInv, TypeInv, TypeOK, Restart, handlers, history
<1>22. CASE Tick
  BY <1>22 DEF BeforeInv, TypeInv, TypeOK, Tick, handlers, history
<1>23. CASE UNCHANGED vars
  BY <1>23 DEF BeforeInv, TypeInv, TypeOK, vars, handlers, history
<1> QED
  BY <1>1, <1>2, <1>3, <1>4, <1>5, <1>6, <1>7, <1>8, <1>9, <1>10, <1>11, <1>12, <1>13, <1>14, <1>15, <1>16, <1>17, <1>18, <1>19, <1>20, <1>21, <1>22, <1>23
     DEF Next, ICSStep, ManageStep

LEMMA SecretsKept ==
    ASSUME TypeInv, BeforeInv, SecretsInv, [Next]_vars PROVE SecretsInv'
<1> USE AccessAssumption DEF FeedRow
<1>1. CASE CreateStamp
  BY <1>1 DEF SecretsInv, Secrets, TypeInv, TypeOK, BeforeInv, Verify, CreateStamp, handlers, history
<1>2. CASE CreateFeed
  BY <1>2 DEF SecretsInv, Secrets, TypeInv, TypeOK, BeforeInv, Verify, CreateFeed, handlers, history
<1>3. CASE CreateFails
  BY <1>3 DEF SecretsInv, Secrets, TypeInv, TypeOK, BeforeInv, Verify, CreateFails, handlers, history
<1>4. ASSUME NEW r \in Requests, Begin(r) PROVE SecretsInv'
  BY <1>4 DEF SecretsInv, Secrets, TypeInv, TypeOK, BeforeInv, Verify, Begin, Secrets, handlers, history
<1>5. ASSUME NEW r \in Requests, Lookup(r) PROVE SecretsInv'
  BY <1>5 DEF SecretsInv, Secrets, TypeInv, TypeOK, BeforeInv, Verify, Lookup, Answer, handlers, history
<1>6. ASSUME NEW r \in Requests, NotFound(r) PROVE SecretsInv'
  BY <1>6 DEF SecretsInv, Secrets, TypeInv, TypeOK, BeforeInv, Verify, NotFound, Answer, handlers, history
<1>7. ASSUME NEW r \in Requests, Refused(r) PROVE SecretsInv'
  BY <1>7 DEF SecretsInv, Secrets, TypeInv, TypeOK, BeforeInv, Verify, Refused, Answer, handlers, history
<1>8. ASSUME NEW r \in Requests, RefreshFails(r) PROVE SecretsInv'
  BY <1>8 DEF SecretsInv, Secrets, TypeInv, TypeOK, BeforeInv, Verify, RefreshFails, Answer, handlers, history
<1>9. ASSUME NEW r \in Requests, RefreshReturns(r) PROVE SecretsInv'
  BY <1>9 DEF SecretsInv, Secrets, TypeInv, TypeOK, BeforeInv, Verify, RefreshReturns, handlers, history
<1>10. ASSUME NEW r \in Requests, Serve(r) PROVE SecretsInv'
  BY <1>10 DEF SecretsInv, Secrets, TypeInv, TypeOK, BeforeInv, Verify, Serve, Answer, TouchLastRequest, handlers, history
<1>11. ASSUME NEW r \in Requests, TouchFails(r) PROVE SecretsInv'
  BY <1>11 DEF SecretsInv, Secrets, TypeInv, TypeOK, BeforeInv, Verify, TouchFails, Answer, TouchLastRequest, handlers, history
<1>12. ASSUME NEW r \in Requests, Leave(r) PROVE SecretsInv'
  BY <1>12 DEF SecretsInv, Secrets, TypeInv, TypeOK, BeforeInv, Verify, Leave, handlers, history
<1>13. ASSUME NEW m \in Managers, LoadManaged(m) PROVE SecretsInv'
  BY <1>13 DEF SecretsInv, Secrets, TypeInv, TypeOK, BeforeInv, Verify, LoadManaged, handlers, history
<1>14. ASSUME NEW m \in Managers, ManageEnds(m) PROVE SecretsInv'
  BY <1>14 DEF SecretsInv, Secrets, TypeInv, TypeOK, BeforeInv, Verify, ManageEnds, handlers, history
<1>15. ASSUME NEW m \in Managers, Generate(m) PROVE SecretsInv'
  BY <1>15 DEF SecretsInv, Secrets, TypeInv, TypeOK, BeforeInv, Verify, Generate, handlers, history
<1>16. ASSUME NEW m \in Managers, RotateFeedToken(m) PROVE SecretsInv'
  BY <1>16 DEF SecretsInv, Secrets, TypeInv, TypeOK, BeforeInv, Verify, RotateFeedToken, handlers, history
<1>17. ASSUME NEW m \in Managers, DeleteFeed(m) PROVE SecretsInv'
  BY <1>17 DEF SecretsInv, Secrets, TypeInv, TypeOK, BeforeInv, Verify, DeleteFeed, handlers, history
<1>18. CASE RunOnce
  BY <1>18 DEF SecretsInv, Secrets, TypeInv, TypeOK, BeforeInv, Verify, RunOnce, handlers, history
<1>19. CASE DeleteStaleFeeds
  BY <1>19 DEF SecretsInv, Secrets, TypeInv, TypeOK, BeforeInv, Verify, DeleteStaleFeeds, Wait, handlers, history
<1>20. CASE RunFails
  BY <1>20 DEF SecretsInv, Secrets, TypeInv, TypeOK, BeforeInv, Verify, RunFails, Wait, handlers, history
<1>21. CASE Restart
  BY <1>21 DEF SecretsInv, Secrets, TypeInv, TypeOK, BeforeInv, Verify, Restart, handlers, history
<1>22. CASE Tick
  BY <1>22 DEF SecretsInv, Secrets, TypeInv, TypeOK, BeforeInv, Verify, Tick, handlers, history
<1>23. CASE UNCHANGED vars
  BY <1>23 DEF SecretsInv, Secrets, TypeInv, TypeOK, BeforeInv, Verify, vars, handlers, history
<1> QED
  BY <1>1, <1>2, <1>3, <1>4, <1>5, <1>6, <1>7, <1>8, <1>9, <1>10, <1>11, <1>12, <1>13, <1>14, <1>15, <1>16, <1>17, <1>18, <1>19, <1>20, <1>21, <1>22, <1>23
     DEF Next, ICSStep, ManageStep

LEMMA UseKept ==
    ASSUME TypeInv, BeforeInv, UseInv, [Next]_vars PROVE UseInv'
<1> USE AccessAssumption DEF FeedRow
<1>1. CASE CreateStamp
  BY <1>1 DEF UseInv, Recent, TypeInv, TypeOK, BeforeInv, InTime, CreateStamp, handlers, history
<1>2. CASE CreateFeed
  BY <1>2 DEF UseInv, Recent, TypeInv, TypeOK, BeforeInv, InTime, CreateFeed, handlers, history
<1>3. CASE CreateFails
  BY <1>3 DEF UseInv, Recent, TypeInv, TypeOK, BeforeInv, InTime, CreateFails, handlers, history
<1>4. ASSUME NEW r \in Requests, Begin(r) PROVE UseInv'
  BY <1>4 DEF UseInv, Recent, TypeInv, TypeOK, BeforeInv, InTime, Begin, Secrets, handlers, history
<1>5. ASSUME NEW r \in Requests, Lookup(r) PROVE UseInv'
  BY <1>5 DEF UseInv, Recent, TypeInv, TypeOK, BeforeInv, InTime, Lookup, Answer, handlers, history
<1>6. ASSUME NEW r \in Requests, NotFound(r) PROVE UseInv'
  BY <1>6 DEF UseInv, Recent, TypeInv, TypeOK, BeforeInv, InTime, NotFound, Answer, handlers, history
<1>7. ASSUME NEW r \in Requests, Refused(r) PROVE UseInv'
  BY <1>7 DEF UseInv, Recent, TypeInv, TypeOK, BeforeInv, InTime, Refused, Answer, handlers, history
<1>8. ASSUME NEW r \in Requests, RefreshFails(r) PROVE UseInv'
  BY <1>8 DEF UseInv, Recent, TypeInv, TypeOK, BeforeInv, InTime, RefreshFails, Answer, handlers, history
<1>9. ASSUME NEW r \in Requests, RefreshReturns(r) PROVE UseInv'
  BY <1>9 DEF UseInv, Recent, TypeInv, TypeOK, BeforeInv, InTime, RefreshReturns, handlers, history
<1>10. ASSUME NEW r \in Requests, Serve(r) PROVE UseInv'
  BY <1>10 DEF UseInv, Recent, TypeInv, TypeOK, BeforeInv, InTime, Serve, Answer, TouchLastRequest, handlers, history
<1>11. ASSUME NEW r \in Requests, TouchFails(r) PROVE UseInv'
  BY <1>11 DEF UseInv, Recent, TypeInv, TypeOK, BeforeInv, InTime, TouchFails, Answer, TouchLastRequest, handlers, history
<1>12. ASSUME NEW r \in Requests, Leave(r) PROVE UseInv'
  BY <1>12 DEF UseInv, Recent, TypeInv, TypeOK, BeforeInv, InTime, Leave, handlers, history
<1>13. ASSUME NEW m \in Managers, LoadManaged(m) PROVE UseInv'
  BY <1>13 DEF UseInv, Recent, TypeInv, TypeOK, BeforeInv, InTime, LoadManaged, handlers, history
<1>14. ASSUME NEW m \in Managers, ManageEnds(m) PROVE UseInv'
  BY <1>14 DEF UseInv, Recent, TypeInv, TypeOK, BeforeInv, InTime, ManageEnds, handlers, history
<1>15. ASSUME NEW m \in Managers, Generate(m) PROVE UseInv'
  BY <1>15 DEF UseInv, Recent, TypeInv, TypeOK, BeforeInv, InTime, Generate, handlers, history
<1>16. ASSUME NEW m \in Managers, RotateFeedToken(m) PROVE UseInv'
  BY <1>16 DEF UseInv, Recent, TypeInv, TypeOK, BeforeInv, InTime, RotateFeedToken, handlers, history
<1>17. ASSUME NEW m \in Managers, DeleteFeed(m) PROVE UseInv'
  BY <1>17 DEF UseInv, Recent, TypeInv, TypeOK, BeforeInv, InTime, DeleteFeed, handlers, history
<1>18. CASE RunOnce
  BY <1>18 DEF UseInv, Recent, TypeInv, TypeOK, BeforeInv, InTime, RunOnce, handlers, history
<1>19. CASE DeleteStaleFeeds
  BY <1>19 DEF UseInv, Recent, TypeInv, TypeOK, BeforeInv, InTime, DeleteStaleFeeds, Wait, handlers, history
<1>20. CASE RunFails
  BY <1>20 DEF UseInv, Recent, TypeInv, TypeOK, BeforeInv, InTime, RunFails, Wait, handlers, history
<1>21. CASE Restart
  BY <1>21 DEF UseInv, Recent, TypeInv, TypeOK, BeforeInv, InTime, Restart, handlers, history
<1>22. CASE Tick
  BY <1>22 DEF UseInv, Recent, TypeInv, TypeOK, BeforeInv, InTime, Tick, handlers, history
<1>23. CASE UNCHANGED vars
  BY <1>23 DEF UseInv, Recent, TypeInv, TypeOK, BeforeInv, InTime, vars, handlers, history
<1> QED
  BY <1>1, <1>2, <1>3, <1>4, <1>5, <1>6, <1>7, <1>8, <1>9, <1>10, <1>11, <1>12, <1>13, <1>14, <1>15, <1>16, <1>17, <1>18, <1>19, <1>20, <1>21, <1>22, <1>23
     DEF Next, ICSStep, ManageStep

THEOREM AccessSafe == Spec => []AccessInv
<1>1. AccessInv /\ [Next]_vars => AccessInv'
  BY TypeKept, BeforeKept, SecretsKept, UseKept DEF AccessInv
<1> QED BY <1>1, AccessInit, PTL DEF Spec

(* The row, the requests, the managers and the reaper's loop keep their    *)
(* types: there is at most one row, and no page shows a secret that was    *)
(* not issued (CreateFeed, RotateFeedToken).                               *)
THEOREM AccessTyped == Spec => []TypeOK
<1>1. AccessInv => TypeOK
  BY DEF AccessInv, TypeInv
<1> QED BY <1>1, AccessSafe, PTL

(* A request gets a body only with a secret that was the feed's since the  *)
(* request came in (serveICS against RotateFeedToken and DeleteFeed), for  *)
(* any number of requests and rotations.                                   *)
THEOREM ServedProperly == Spec => []ServedWithItsSecret
<1>1. AccessInv => ServedWithItsSecret
  BY DEF AccessInv, SecretsInv, ServedWithItsSecret
<1> QED BY <1>1, AccessSafe, PTL

(* The reaper deletes a feed only a retention after its last use, less the *)
(* time a touch may be under way (DeleteStaleFeeds, TouchLastRequest).     *)
THEOREM ReapsOnlyIdle == Spec => ReapedOnlyIdle
<1>1. AccessInv /\ [Next]_vars =>
        [DeleteStaleFeeds /\ feed' # feed =>
           lastUsed < reaper.clock - Retention + MaxDelay]_vars
  <2> SUFFICES ASSUME AccessInv, DeleteStaleFeeds, feed' # feed
               PROVE  lastUsed < reaper.clock - Retention + MaxDelay
    OBVIOUS
  <2>1. PICK f \in feed : Stale(f, reaper.clock)
    BY DEF DeleteStaleFeeds
  <2>2. f.touched \in Nat /\ reaper.clock \in Nat /\ lastUsed \in Nat
    BY DEF AccessInv, TypeInv, TypeOK, FeedRow
  <2>3. lastUsed <= f.touched + MaxDelay
    BY DEF AccessInv, UseInv
  <2> QED BY <2>1, <2>2, <2>3, AccessAssumption DEF Stale
<1> QED BY <1>1, AccessSafe, PTL DEF Spec, ReapedOnlyIdle

-----------------------------------------------------------------------------
(* Idle feeds.  Behind is what the runs that were lost add to the          *)
(* retention; how far the next tick, the clock that was read or the start  *)
(* of the loop lies behind a feed's last touch depends on where it is.     *)

Period == Every + 3 * MaxDelay

Behind == Retention + missed * Period

Loop(pc) == reaper.pc = pc

LoopInv ==
    /\ Loop("starting") => reaper.due <= now /\ now <= reaper.due + MaxDelay
    /\ Loop("waiting") => reaper.due <= now + Every /\ now <= reaper.due + MaxDelay
    /\ Loop("first") \/ Loop("later") => Recent(reaper.clock)
    /\ Loop("later") =>
         reaper.due <= reaper.clock /\ reaper.clock <= reaper.due + MaxDelay

LagInv ==
    \A f \in feed :
        /\ f.touched <= now
        /\ Loop("starting") => reaper.due - f.touched <= Behind + Every + 2 * MaxDelay
        /\ Loop("first") => reaper.clock - f.touched <= Behind + Every + 3 * MaxDelay
        /\ Loop("later") \/ Loop("waiting") =>
             reaper.due - f.touched <= Behind + Every + MaxDelay

ReapInv == LoopInv /\ LagInv

\* One run more that is lost costs one period.
LEMMA OneMore ==
    ASSUME TypeOK
    PROVE  /\ Behind \in Nat /\ Period \in Nat
           /\ (missed + 1) * Period = missed * Period + Period
           /\ Retention + (missed + 1) * Period = Behind + Period
<1> USE AccessAssumption
<1>1. Period \in Nat /\ missed \in Nat
  BY DEF Period, TypeOK
<1>2. \A a, b \in Nat : a * b \in Nat /\ (a + 1) * b = a * b + b
  OBVIOUS
<1>3. missed * Period \in Nat /\ (missed + 1) * Period = missed * Period + Period
  BY <1>1, <1>2
<1> HIDE DEF Period
<1> QED BY <1>1, <1>3 DEF Behind

LEMMA ReapBounds ==
    ASSUME AccessInv, ReapInv, NEW f \in feed
    PROVE  now - f.touched <= Behind + Period + MaxDelay
<1> USE AccessAssumption
<1>1. /\ now \in Nat /\ f.touched \in Nat
      /\ reaper \in [pc : LoopStates, clock : Nat, due : Nat]
  BY DEF AccessInv, TypeInv, TypeOK, FeedRow, LoopStates
<1>2. Behind \in Nat
  BY OneMore DEF AccessInv, TypeInv
<1> HIDE DEF Behind
<1> QED
  BY <1>1, <1>2 DEF ReapInv, LoopInv, LagInv, Loop, Recent, Period, LoopStates

LEMMA LoopKept ==
    ASSUME AccessInv, LoopInv, [Next]_vars, MaxDelay <= Every PROVE LoopInv'
<1> USE AccessAssumption DEF LoopInv, Loop, Recent
<1>0. now \in Nat /\ reaper \in [pc : LoopStates, clock : Nat, due : Nat]
  BY DEF AccessInv, TypeInv, TypeOK, LoopStates
<1>1. CASE UNCHANGED <<now, reaper>>
  BY <1>1
<1>2. CASE RunOnce
  BY <1>0, <1>2 DEF RunOnce
<1>3. CASE DeleteStaleFeeds \/ RunFails
  <2> DEFINE next == (IF reaper.pc = "first" THEN now ELSE reaper.due) + Every
  <2>1. reaper.pc \in {"first", "later"} /\ now' = now
    BY <1>3 DEF DeleteStaleFeeds, RunFails
  <2>2. reaper'.pc = "waiting" /\ reaper'.due = next
    BY <1>0, <1>3 DEF DeleteStaleFeeds, RunFails, Wait
  <2>3. next <= now + Every /\ now <= next + MaxDelay
    BY <1>0, <2>1
  <2> QED BY <2>1, <2>2, <2>3
<1>4. CASE Restart
  BY <1>0, <1>4 DEF Restart
<1>5. CASE Tick
  BY <1>0, <1>5 DEF Tick, InTime
<1>6. CASE UNCHANGED vars
  BY <1>6 DEF vars
<1> QED
  BY <1>1, <1>2, <1>3, <1>4, <1>5, <1>6
     DEF Next, ICSStep, ManageStep, CreateStamp, CreateFeed, CreateFails, Begin,
         Lookup, NotFound, Refused, RefreshFails, RefreshReturns, Serve,
         TouchFails, Leave, LoadManaged, ManageEnds, Generate, RotateFeedToken,
         DeleteFeed

\* A touch that is written now is recent, wherever the loop is.
LEMMA RecentLags ==
    ASSUME AccessInv, LoopInv, NEW t \in Nat, Recent(t)
    PROVE  /\ t <= now
           /\ Loop("starting") => reaper.due - t <= Behind + Every + 2 * MaxDelay
           /\ Loop("first") => reaper.clock - t <= Behind + Every + 3 * MaxDelay
           /\ Loop("later") \/ Loop("waiting") =>
                reaper.due - t <= Behind + Every + MaxDelay
<1> USE AccessAssumption
<1>1. now \in Nat /\ reaper \in [pc : LoopStates, clock : Nat, due : Nat]
  BY DEF AccessInv, TypeInv, TypeOK, LoopStates
<1>2. Behind \in Nat
  BY OneMore DEF AccessInv, TypeInv
<1> HIDE DEF Behind
<1> QED BY <1>1, <1>2 DEF LoopInv, Loop, Recent

\* No touch but recent ones, and the loop and its losses as they were.
LEMMA TouchesLag ==
    ASSUME AccessInv, ReapInv, UNCHANGED <<now, reaper, missed>>,
           \A g \in feed' : \/ \E f \in feed : g.touched = f.touched
                            \/ g.touched \in Nat /\ Recent(g.touched)
    PROVE  LagInv'
<1>1. UNCHANGED Behind
  BY DEF Behind
<1> QED BY <1>1, RecentLags DEF ReapInv, LagInv, Loop

LEMMA LagKept ==
    ASSUME AccessInv, ReapInv, [Next]_vars PROVE LagInv'
<1> USE AccessAssumption
<1>0. /\ now \in Nat /\ missed \in Nat
      /\ reaper \in [pc : LoopStates, clock : Nat, due : Nat]
      /\ \A f \in feed : f.touched \in Nat
  BY DEF AccessInv, TypeInv, TypeOK, LoopStates, FeedRow
<1>1. Behind \in Nat /\ Period \in Nat
  BY OneMore DEF AccessInv, TypeInv
<1>2. missed' = missed + 1 => Behind' = Behind + Period
  BY OneMore DEF AccessInv, TypeInv, Behind, Period
<1>3. missed' = missed => Behind' = Behind
  BY DEF Behind
<1>4. CASE CreateFeed
  <2>1. create.at \in Nat /\ Recent(create.at)
    BY <1>4 DEF CreateFeed, AccessInv, UseInv, TypeInv, TypeOK
  <2> QED BY <1>4, <2>1, TouchesLag DEF CreateFeed
<1>5. ASSUME NEW r \in Requests, Serve(r) \/ TouchFails(r) PROVE LagInv'
  <2>1. ics[r].at \in Nat /\ Recent(ics[r].at)
    BY <1>5 DEF Serve, TouchFails, AccessInv, UseInv, TypeInv, TypeOK
  <2>2. feed \subseteq FeedRow
    BY DEF AccessInv, TypeInv, TypeOK
  <2>3. \A g \in feed' : g \in feed \/ g.touched = ics[r].at
    BY <1>5, <2>2 DEF Serve, TouchFails, TouchLastRequest, FeedRow
  <2> QED BY <1>5, <2>1, <2>3, TouchesLag DEF Serve, TouchFails, history
<1>6. ASSUME NEW m \in Managers, RotateFeedToken(m) PROVE LagInv'
  <2>1. feed \subseteq FeedRow
    BY DEF AccessInv, TypeInv, TypeOK
  <2>2. \A g \in feed' : \E f \in feed : g.touched = f.touched
    BY <1>6, <2>1 DEF RotateFeedToken, FeedRow
  <2> QED BY <1>6, <2>2, TouchesLag DEF RotateFeedToken
<1>7. ASSUME NEW m \in Managers, DeleteFeed(m) PROVE LagInv'
  BY <1>7, TouchesLag DEF DeleteFeed, history
<1>8. CASE UNCHANGED <<now, feed, reaper, missed>>
  BY <1>8, TouchesLag
<1>9. CASE RunOnce
  <2>1. UNCHANGED <<now, feed, missed>>
    BY <1>9 DEF RunOnce, history
  <2>2. Behind' = Behind
    BY <1>3, <2>1
  <2> HIDE DEF Behind, Period
  <2>3. /\ reaper'.due = reaper.due /\ reaper'.clock = now
        /\ \/ reaper.pc = "starting" /\ reaper'.pc = "first"
           \/ reaper.pc = "waiting" /\ reaper'.pc = "later"
    BY <1>0, <1>9 DEF RunOnce
  <2> QED BY <1>0, <1>1, <2>1, <2>2, <2>3 DEF ReapInv, LoopInv, LagInv, Loop
<1>10. ASSUME DeleteStaleFeeds \/ RunFails PROVE LagInv'
  <2> DEFINE next == (IF reaper.pc = "first" THEN now ELSE reaper.due) + Every
  <2>1. reaper.pc \in {"first", "later"} /\ now' = now /\ feed' \subseteq feed
    BY <1>10 DEF DeleteStaleFeeds, RunFails
  <2>2. reaper'.pc = "waiting" /\ reaper'.due = next
    BY <1>0, <1>10 DEF DeleteStaleFeeds, RunFails, Wait
  <2>3. CASE DeleteStaleFeeds
    <3>1. \A f \in feed' : reaper.clock - Retention <= f.touched
      BY <1>0, <2>3 DEF DeleteStaleFeeds, Stale
    <3>2. next <= reaper.clock + MaxDelay + Every
      BY <1>0, <2>1 DEF ReapInv, LoopInv, Loop, Recent
    <3>3. Behind' = Retention
      BY <2>3, OneMore DEF DeleteStaleFeeds, Behind, Period, AccessInv, TypeInv
    <3> HIDE DEF Behind, next
    <3>4. next \in Nat
      BY <1>0 DEF next
    <3> QED BY <1>0, <2>1, <2>2, <3>1, <3>2, <3>3, <3>4 DEF ReapInv, LagInv, Loop
  <2>4. CASE RunFails
    <3>1. Behind' = Behind + Period
      BY <1>2, <2>4 DEF RunFails
    <3> HIDE DEF Behind
    <3>2. \A f \in feed : next - f.touched <= Behind + Period + Every + MaxDelay
      BY <1>0, <1>1, <2>1 DEF ReapInv, LoopInv, LagInv, Loop, Recent, Period
    <3> QED BY <1>0, <2>1, <2>2, <3>1, <3>2 DEF ReapInv, LagInv, Loop
  <2> QED BY <1>10, <2>3, <2>4
<1>11. CASE Restart
  <2>1. \A f \in feed : now - f.touched <= Behind + Period + MaxDelay
    BY ReapBounds
  <2>2. reaper'.pc = "starting" /\ reaper'.due = now /\ UNCHANGED <<now, feed>>
    BY <1>11 DEF Restart
  <2>3. CASE reaper.pc = "waiting"
    <3>1. Behind' = Behind
      BY <1>3, <1>11, <2>3 DEF Restart
    <3> HIDE DEF Behind
    <3> QED BY <1>0, <1>1, <2>2, <2>3, <3>1 DEF ReapInv, LoopInv, LagInv, Loop
  <2>4. CASE reaper.pc # "waiting"
    <3>1. Behind' = Behind + Period
      BY <1>2, <1>11, <2>4 DEF Restart
    <3> HIDE DEF Behind
    <3> QED BY <1>0, <1>1, <2>1, <2>2, <2>4, <3>1 DEF ReapInv, LoopInv, LagInv, Loop
  <2> QED BY <2>3, <2>4
<1>12. CASE Tick
  <2>1. UNCHANGED <<feed, reaper, missed>> /\ now' = now + 1
    BY <1>12 DEF Tick, history
  <2>2. Behind' = Behind
    BY <1>3, <2>1
  <2> HIDE DEF Behind
  <2> QED BY <1>0, <2>1, <2>2 DEF ReapInv, LagInv, Loop
<1>13. CASE UNCHANGED vars
  BY <1>8, <1>13 DEF vars, history
<1> QED
  BY <1>4, <1>5, <1>6, <1>7, <1>8, <1>9, <1>10, <1>11, <1>12, <1>13
     DEF Next, ICSStep, ManageStep, CreateStamp, CreateFails, Begin, Lookup,
         NotFound, Refused, RefreshFails, RefreshReturns, Leave, LoadManaged,
         ManageEnds, Generate, history

(* A feed nobody uses is gone within a period of the reaper after its      *)
(* retention, and one period more for each run that was lost (Loop, the    *)
(* ticker, DeleteStaleFeeds), if no statement takes longer than a period.  *)
THEOREM IdleOnesGo ==
    ASSUME MaxDelay <= Every PROVE Spec => []IdleFeedsReaped
<1>1. Init => ReapInv
  BY AccessAssumption DEF Init, ReapInv, LoopInv, LagInv, Loop, Recent
<1>2. AccessInv /\ ReapInv /\ [Next]_vars => ReapInv'
  BY LoopKept, LagKept DEF ReapInv
<1>3. AccessInv /\ ReapInv => IdleFeedsReaped
  <2> SUFFICES ASSUME AccessInv, ReapInv, NEW f \in feed
               PROVE  now - f.touched <=
                        Retention + MaxDelay + (missed + 1) * (Every + 3 * MaxDelay)
    BY DEF IdleFeedsReaped
  <2>1. now - f.touched <= Behind + Period + MaxDelay
    BY ReapBounds
  <2>2. /\ Retention + (missed + 1) * Period = Behind + Period
        /\ Behind \in Nat /\ Period \in Nat
        /\ (missed + 1) * Period = missed * Period + Period
    BY OneMore DEF AccessInv, TypeInv
  <2>3. now \in Nat /\ f.touched \in Nat /\ missed \in Nat
    BY DEF AccessInv, TypeInv, TypeOK, FeedRow
  <2>4. now - f.touched <= Retention + MaxDelay + (missed + 1) * Period
    <3> DEFINE lost == (missed + 1) * Period
    <3>1. lost \in Int
      BY <2>2, <2>3
    <3>2. Retention + lost = Behind + Period
      BY <2>2
    <3> HIDE DEF lost, Behind, Period
    <3>3. now - f.touched <= Retention + MaxDelay + lost
      BY <2>1, <2>2, <2>3, <3>1, <3>2, AccessAssumption
    <3> QED BY <3>3 DEF lost
  <2> QED BY <2>4 DEF Period
<1> QED BY <1>1, <1>2, <1>3, AccessSafe, PTL DEF Spec
=============================================================================
