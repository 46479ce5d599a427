----------------------------- MODULE ProxyProofs ------------------------------
(***************************************************************************)
(* Theorems about the proxy: ProjectCache, for any number of proxies,      *)
(* resolves and admin requests and for any lifetimes, and ProxyRequest,    *)
(* for an answer of any length.                                            *)
(***************************************************************************)
EXTENDS ProjectCache, ProxyRequest, TLAPS

----------------------------------------------------------------------------
(* The cache of project keys *)

\* The ages the bounds speak of are naturals in this order.
LEMMA Bounds ==
    /\ StaleBound \in Nat /\ Old \in Nat /\ Old = StaleBound + 1
    /\ MaxHold + L2TTL <= StaleBound
    /\ MaxHold + L1TTL <= StaleBound
    BY TTLsPositive DEF StaleBound, Old

\* A tick adds one to an age below the cap and takes one from a lifetime above zero.
LEMMA Ageing ==
    /\ \A n \in 0..Old : More(n) \in 0..Old /\ n <= More(n) /\ More(n) <= n + 1
    /\ \A n \in 0..Old : n <= StaleBound => More(n) = n + 1
    /\ \A n \in Nat : Less(n) \in 0..n /\ (n # 0 => Less(n) = n - 1) /\ (n = 0 => Less(n) = 0)
    BY Bounds DEF More, Less

\* The initial state is of the types.
LEMMA InitCacheTypeOK == CacheInit => CacheTypeOK
    BY Bounds, TTLsPositive DEF CacheInit, CacheTypeOK

\* A resolve keeps the types.
LEMMA ResolveTypeOK ==
    ASSUME CacheTypeOK, NEW w \in Worker, Resolve(w)
    PROVE  CacheTypeOK'
<1> USE DEF CacheTypeOK, Step, Keep, admins, history, workers
<1>0. w[1] \in Replica /\ L1TTL \in 0..L1TTL /\ L2TTL \in 0..L2TTL /\ 0 \in 0..MaxHold
    BY TTLsPositive DEF Worker
<1>1. CASE Lookup(w)
    BY <1>0, <1>1 DEF Lookup
<1>2. CASE L2Hit(w)
    BY <1>0, <1>2 DEF L2Hit
<1>3. CASE L2Miss(w)
    BY <1>0, <1>3 DEF L2Miss
<1>4. CASE Fill(w)
    BY <1>0, <1>4 DEF Fill
<1>5. CASE DbHit(w)
    BY <1>0, <1>5 DEF DbHit
<1>6. CASE DbMiss(w)
    BY <1>0, <1>6 DEF DbMiss
<1>7. CASE SetL1(w)
    BY <1>0, <1>7 DEF SetL1
<1>8. CASE SetL2(w)
    BY <1>0, <1>8 DEF SetL2
<1>9. CASE SetL2Fails(w)
    BY <1>0, <1>9 DEF SetL2Fails
<1> QED BY <1>1, <1>2, <1>3, <1>4, <1>5, <1>6, <1>7, <1>8, <1>9 DEF Resolve

\* An admin request keeps the types.
LEMMA AdministerTypeOK ==
    ASSUME CacheTypeOK, NEW a \in Admin, Administer(a)
    PROVE  CacheTypeOK'
<1> USE DEF CacheTypeOK, AStep, AFinish, workers, history
<1>1. ASSUME NEW op \in {"reset", "delete", "update"}, Read(a, op) PROVE CacheTypeOK'
    BY <1>1 DEF Read
<1>2. CASE Rotate(a)
    BY <1>2 DEF Rotate, Replace
<1>3. CASE Remove(a)
    BY <1>3 DEF Remove, Replace
<1>4. CASE Rename(a)
    BY <1>4 DEF Rename
<1>5. CASE WriteFails(a)
    BY <1>5 DEF WriteFails
<1>6. CASE Del(a)
    BY <1>6, TTLsPositive DEF Del
<1>7. CASE DelFails(a)
    BY <1>7 DEF DelFails
<1>8. CASE Publish(a)
    BY <1>8 DEF Publish
<1> QED BY <1>1, <1>2, <1>3, <1>4, <1>5, <1>6, <1>7, <1>8 DEF Administer

\* A broadcast that arrives keeps the types.
LEMMA ApplyTypeOK ==
    ASSUME CacheTypeOK, NEW p \in Replica, Apply(p)
    PROVE  CacheTypeOK'
    BY TTLsPositive DEF CacheTypeOK, Apply, workers, admins, history

\* The passing of time keeps the types.
LEMMA TickTypeOK ==
    ASSUME CacheTypeOK, Tick
    PROVE  CacheTypeOK'
<1>1. l1' \in [Replica -> 0..L1TTL] /\ l2' \in 0..L2TTL
    BY Ageing, TTLsPositive DEF CacheTypeOK, Tick
<1>2. held' \in [Worker -> 0..MaxHold]
    BY TTLsPositive DEF CacheTypeOK, Tick
<1>3. revokedFor' \in 0..Old /\ clearedFor' \in 0..Old
    BY Ageing DEF CacheTypeOK, Tick
<1> QED BY <1>1, <1>2, <1>3 DEF CacheTypeOK, Tick, admins

\* Every step keeps the types.
LEMMA StepCacheTypeOK == CacheTypeOK /\ [CacheNext]_cacheVars => CacheTypeOK'
<1> SUFFICES ASSUME CacheTypeOK, [CacheNext]_cacheVars PROVE CacheTypeOK'
    OBVIOUS
<1>1. CASE UNCHANGED cacheVars
    BY <1>1 DEF cacheVars, CacheTypeOK, workers, admins, history
<1> QED BY <1>1, ResolveTypeOK, AdministerTypeOK, ApplyTypeOK, TickTypeOK DEF CacheNext

\* Every behaviour of the caches, the resolves and the admin requests stays in the
\* types of CacheTypeOK: no entry ever gets a longer life than its tier's TTL.
THEOREM CacheTypes == CacheSpec => []CacheTypeOK
    BY InitCacheTypeOK, StepCacheTypeOK, PTL DEF CacheSpec

----------------------------------------------------------------------------
(* Staleness *)

\* CacheInv without its type part.
Rest ==
    /\ RevokedKeyDies /\ ClearedStaysOut
    /\ IF status = "revoked" THEN HeldIsYoung ELSE revokedFor = 0 /\ cleared = "no"
    /\ IF cleared = "clean" THEN HeldAtClear ELSE clearedFor = 0

\* No key is revoked or cached at first.
LEMMA InitRest == CacheInit => Rest
    BY DEF CacheInit, Rest, RevokedKeyDies, ClearedStaysOut

\* A resolve caches a revoked key only while its bound lasts.
LEMMA ResolveRest ==
    ASSUME CacheTypeOK, CacheTypeOK', Rest, NEW w \in Worker, Resolve(w)
    PROVE  Rest'
<1> USE Bounds, TTLsPositive
    DEF CacheTypeOK, Rest, RevokedKeyDies, ClearedStaysOut, HeldIsYoung, HeldAtClear, Within,
        Step, Keep, admins, history, workers
<1>0. w[1] \in Replica
    BY DEF Worker
<1>1. CASE Lookup(w)
    BY <1>0, <1>1 DEF Lookup
<1>2. CASE L2Hit(w)
    BY <1>0, <1>2 DEF L2Hit
<1>3. CASE L2Miss(w)
    BY <1>0, <1>3 DEF L2Miss
<1>4. CASE Fill(w)
    BY <1>0, <1>4 DEF Fill, StaleBound
<1>5. CASE DbHit(w)
    BY <1>0, <1>5 DEF DbHit
<1>6. CASE DbMiss(w)
    BY <1>0, <1>6 DEF DbMiss
<1>7. CASE SetL1(w)
    BY <1>0, <1>7 DEF SetL1
<1>8. CASE SetL2(w)
    BY <1>0, <1>8 DEF SetL2
<1>9. CASE SetL2Fails(w)
    BY <1>0, <1>9 DEF SetL2Fails
<1> QED BY <1>1, <1>2, <1>3, <1>4, <1>5, <1>6, <1>7, <1>8, <1>9 DEF Resolve

\* A rotation or deletion starts the clocks; an invalidation shortens lives only.
LEMMA AdministerRest ==
    ASSUME CacheTypeOK, Rest, NEW a \in Admin, Administer(a)
    PROVE  Rest'
<1> USE Bounds, TTLsPositive
    DEF CacheTypeOK, Rest, RevokedKeyDies, ClearedStaysOut, HeldIsYoung, HeldAtClear, Within,
        AStep, AFinish, workers, history
<1>1. ASSUME NEW op \in {"reset", "delete", "update"}, Read(a, op) PROVE Rest'
    BY <1>1 DEF Read
<1>2. CASE Rotate(a)
    BY <1>2 DEF Rotate, Replace
<1>3. CASE Remove(a)
    BY <1>3 DEF Remove, Replace
<1>4. CASE Rename(a)
    BY <1>4 DEF Rename
<1>5. CASE WriteFails(a)
    BY <1>5 DEF WriteFails
<1>6. CASE Del(a)
    BY <1>6 DEF Del, Halfway
<1>7. CASE DelFails(a)
    BY <1>7 DEF DelFails
<1>8. CASE Publish(a)
    BY <1>8 DEF Publish
<1> QED BY <1>1, <1>2, <1>3, <1>4, <1>5, <1>6, <1>7, <1>8 DEF Administer

\* A broadcast shortens a life.
LEMMA ApplyRest ==
    ASSUME CacheTypeOK, Rest, NEW p \in Replica, Apply(p)
    PROVE  Rest'
    BY DEF CacheTypeOK, Rest, RevokedKeyDies, ClearedStaysOut, HeldIsYoung, HeldAtClear, Within,
           Apply, workers, admins, history

\* A tick takes one from a lifetime and adds one to an age, and to what a resolve holds.
LEMMA TickRest ==
    ASSUME CacheTypeOK, Rest, Tick
    PROVE  Rest'
<1> USE Bounds, TTLsPositive DEF CacheTypeOK
<1>1. ASSUME NEW life \in Nat, NEW age \in 0..Old, NEW bound \in 0..StaleBound,
             Within(life, age, bound)
      PROVE  Within(Less(life), More(age), bound)
    BY <1>1, Ageing DEF Within
<1>2. RevokedKeyDies'
    <2> SUFFICES ASSUME status = "revoked"
        PROVE  /\ Within(Less(l2), More(revokedFor), MaxHold + L2TTL)
               /\ \A p \in Replica : Within(Less(l1[p]), More(revokedFor), StaleBound)
        BY DEF Tick, RevokedKeyDies
    <2> QED BY <1>1 DEF Rest, RevokedKeyDies
<1>3. ClearedStaysOut'
    <2> SUFFICES ASSUME cleared = "clean"
        PROVE  /\ Less(l2) = 0
               /\ \A p \in Replica : Within(Less(l1[p]), More(clearedFor), MaxHold + L1TTL)
        BY DEF Tick, ClearedStaysOut
    <2> QED BY <1>1, Ageing DEF Rest, ClearedStaysOut
<1>4. IF status' = "revoked" THEN HeldIsYoung' ELSE revokedFor' = 0 /\ cleared' = "no"
    <2>1. CASE status = "revoked"
        BY <2>1, Ageing DEF Rest, HeldIsYoung, Tick, Holding
    <2>2. CASE status # "revoked"
        BY <2>2 DEF Rest, Tick
    <2> QED BY <2>1, <2>2
<1>5. IF cleared' = "clean" THEN HeldAtClear' ELSE clearedFor' = 0
    <2>1. CASE cleared = "clean"
        BY <2>1, Ageing DEF Rest, HeldAtClear, Tick, Holding
    <2>2. CASE cleared # "clean"
        BY <2>2 DEF Rest, Tick
    <2> QED BY <2>1, <2>2
<1> QED BY <1>2, <1>3, <1>4, <1>5 DEF Rest

\* Every step keeps the bounds on the lives of a revoked key.
LEMMA StepRest == CacheTypeOK /\ CacheTypeOK' /\ Rest /\ [CacheNext]_cacheVars => Rest'
<1> SUFFICES ASSUME CacheTypeOK, CacheTypeOK', Rest, [CacheNext]_cacheVars PROVE Rest'
    OBVIOUS
<1>1. CASE UNCHANGED cacheVars
    BY <1>1 DEF cacheVars, Rest, RevokedKeyDies, ClearedStaysOut, HeldIsYoung, HeldAtClear,
                Within, workers, admins, history
<1> QED BY <1>1, ResolveRest, AdministerRest, ApplyRest, TickRest DEF CacheNext

\* The invariant: besides the two properties, how old what a resolve holds can be.
THEOREM CacheInvariant == CacheSpec => []CacheInv
<1>1. CacheInit => CacheTypeOK /\ Rest
    BY InitCacheTypeOK, InitRest
<1>2. (CacheTypeOK /\ Rest) /\ [CacheNext]_cacheVars => (CacheTypeOK /\ Rest)'
    BY StepCacheTypeOK, StepRest
<1>3. CacheTypeOK /\ Rest => CacheInv
    BY DEF CacheInv, Rest
<1> QED BY <1>1, <1>2, <1>3, PTL DEF CacheSpec

\* A rotated or deleted key is out of Redis and out of every proxy after a time that
\* depends on the lifetimes alone, whatever fails or is lost on the way.
THEOREM RevokedKeysDie == CacheSpec => []RevokedKeyDies
<1>1. CacheInv => RevokedKeyDies
    BY DEF CacheInv
<1> QED BY <1>1, CacheInvariant, PTL

\* A DEL that meets no resolve halfway takes the key out of Redis for good, and out of
\* the proxies one L1 lifetime later, even when no broadcast arrives.
THEOREM ClearedKeysStayOut == CacheSpec => []ClearedStaysOut
<1>1. CacheInv => ClearedStaysOut
    BY DEF CacheInv
<1> QED BY <1>1, CacheInvariant, PTL

----------------------------------------------------------------------------
(* One request *)

\* No step of serve or of its goroutines leaves the types.
LEMMA StepTypeOK ==
    ASSUME RequestInv, Next
    PROVE  TypeOK'
<1>0. /\ TypeOK
      /\ pc = "client" => written < sent
      /\ pc = "store" /\ store = "reading" => stored < written
      /\ pc \in {"store", "parse"} => chunk.kind \in spoken
      /\ parser = "busy" => parsing.kind \in spoken
    BY DEF RequestInv, TypeOK, NothingUnheard, NothingUnstored
<1> USE MaxChunksOK, <1>0 DEF TypeOK, Chunk, copy, parsers, stores
<1>1. CASE Refuse
    BY <1>1 DEF Refuse
<1>2. CASE Forward
    BY <1>2 DEF Forward
<1>3. CASE UpstreamFails
    BY <1>3 DEF UpstreamFails
<1>4. CASE UpstreamAnswers
    BY <1>4 DEF UpstreamAnswers
<1>5. CASE ReadChunk
    BY <1>5 DEF ReadChunk
<1>6. CASE AnswerEnds
    BY <1>6 DEF AnswerEnds
<1>7. CASE WriteClient
    BY <1>7 DEF WriteClient
<1>8. CASE ClientGone
    BY <1>8 DEF ClientGone
<1>9. CASE WriteStore
    BY <1>9 DEF WriteStore, TakeChunk, AfterStore
<1>10. CASE WriteParser
    BY <1>10 DEF WriteParser
<1>11. CASE Drained
    BY <1>11 DEF Drained
<1>12. CASE CloseStore
    BY <1>12 DEF CloseStore
<1>13. CASE Join
    BY <1>13 DEF Join
<1>14. CASE Submit
    BY <1>14 DEF Submit, Status
<1>15. CASE ParserHandles
    BY <1>15 DEF ParserHandles
<1>16. CASE ParserEnds
    BY <1>16 DEF ParserEnds
<1>17. CASE StoreSeesEnd
    BY <1>17 DEF StoreSeesEnd, StoreStep
<1>18. CASE StorePartSent
    BY <1>18 DEF StorePartSent, StoreStep
<1>19. CASE StoreFinishes
    BY <1>19 DEF StoreFinishes, StoreStep
<1>20. CASE StoreFails
    BY <1>20 DEF StoreFails, StoreStep
<1>21. CASE RequestUploaded
    BY <1>21 DEF RequestUploaded
<1> QED BY <1>1, <1>2, <1>3, <1>4, <1>5, <1>6, <1>7, <1>8, <1>9, <1>10, <1>11, <1>12, <1>13, <1>14, <1>15, <1>16, <1>17, <1>18, <1>19, <1>20, <1>21
    DEF Next, Serve, Parse, MinIO

\* The parser does not lose a chunk that was written to the client.
LEMMA StepUnheard ==
    ASSUME RequestInv, Next
    PROVE  NothingUnheard'
<1> USE MaxChunksOK DEF RequestInv, TypeOK, copy, parsers, stores, NothingUnheard, Judged, Copying, Ending
<1>1. CASE Refuse
    BY <1>1 DEF Refuse
<1>2. CASE Forward
    BY <1>2 DEF Forward
<1>3. CASE UpstreamFails
    BY <1>3 DEF UpstreamFails
<1>4. CASE UpstreamAnswers
    BY <1>4 DEF UpstreamAnswers
<1>5. CASE ReadChunk
    BY <1>5 DEF ReadChunk
<1>6. CASE AnswerEnds
    BY <1>6 DEF AnswerEnds
<1>7. CASE WriteClient
    BY <1>7 DEF WriteClient
<1>8. CASE ClientGone
    BY <1>8 DEF ClientGone
<1>9. CASE WriteStore
    BY <1>9 DEF WriteStore, TakeChunk, AfterStore
<1>10. CASE WriteParser
    BY <1>10 DEF WriteParser
<1>11. CASE Drained
    BY <1>11 DEF Drained
<1>12. CASE CloseStore
    BY <1>12 DEF CloseStore
<1>13. CASE Join
    BY <1>13 DEF Join
<1>14. CASE Submit
    BY <1>14 DEF Submit, Status
<1>15. CASE ParserHandles
    BY <1>15 DEF ParserHandles
<1>16. CASE ParserEnds
    BY <1>16 DEF ParserEnds
<1>17. CASE StoreSeesEnd
    BY <1>17 DEF StoreSeesEnd, StoreStep
<1>18. CASE StorePartSent
    BY <1>18 DEF StorePartSent, StoreStep
<1>19. CASE StoreFinishes
    BY <1>19 DEF StoreFinishes, StoreStep
<1>20. CASE StoreFails
    BY <1>20 DEF StoreFails, StoreStep
<1>21. CASE RequestUploaded
    BY <1>21 DEF RequestUploaded
<1> QED BY <1>1, <1>2, <1>3, <1>4, <1>5, <1>6, <1>7, <1>8, <1>9, <1>10, <1>11, <1>12, <1>13, <1>14, <1>15, <1>16, <1>17, <1>18, <1>19, <1>20, <1>21
    DEF Next, Serve, Parse, MinIO

\* Nor does a PutObject that goes on.
LEMMA StepUnstored ==
    ASSUME RequestInv, Next
    PROVE  NothingUnstored'
<1> USE MaxChunksOK DEF RequestInv, TypeOK, copy, parsers, stores, NothingUnstored, Judged, Copying, Ending
<1>1. CASE Refuse
    BY <1>1 DEF Refuse
<1>2. CASE Forward
    BY <1>2 DEF Forward
<1>3. CASE UpstreamFails
    BY <1>3 DEF UpstreamFails
<1>4. CASE UpstreamAnswers
    BY <1>4 DEF UpstreamAnswers
<1>5. CASE ReadChunk
    BY <1>5 DEF ReadChunk
<1>6. CASE AnswerEnds
    BY <1>6 DEF AnswerEnds
<1>7. CASE WriteClient
    BY <1>7 DEF WriteClient
<1>8. CASE ClientGone
    BY <1>8 DEF ClientGone
<1>9. CASE WriteStore
    BY <1>9 DEF WriteStore, TakeChunk, AfterStore
<1>10. CASE WriteParser
    BY <1>10 DEF WriteParser
<1>11. CASE Drained
    BY <1>11 DEF Drained
<1>12. CASE CloseStore
    BY <1>12 DEF CloseStore
<1>13. CASE Join
    BY <1>13 DEF Join
<1>14. CASE Submit
    BY <1>14 DEF Submit, Status
<1>15. CASE ParserHandles
    BY <1>15 DEF ParserHandles
<1>16. CASE ParserEnds
    BY <1>16 DEF ParserEnds
<1>17. CASE StoreSeesEnd
    BY <1>17 DEF StoreSeesEnd, StoreStep
<1>18. CASE StorePartSent
    BY <1>18 DEF StorePartSent, StoreStep
<1>19. CASE StoreFinishes
    BY <1>19 DEF StoreFinishes, StoreStep
<1>20. CASE StoreFails
    BY <1>20 DEF StoreFails, StoreStep
<1>21. CASE RequestUploaded
    BY <1>21 DEF RequestUploaded
<1> QED BY <1>1, <1>2, <1>3, <1>4, <1>5, <1>6, <1>7, <1>8, <1>9, <1>10, <1>11, <1>12, <1>13, <1>14, <1>15, <1>16, <1>17, <1>18, <1>19, <1>20, <1>21
    DEF Next, Serve, Parse, MinIO

\* An event is submitted once, at the end, with what serve knows then.
LEMMA StepJudged ==
    ASSUME RequestInv, Next
    PROVE  Judged'
<1> USE MaxChunksOK DEF RequestInv, TypeOK, copy, parsers, stores, NothingUnheard, NothingUnstored, Judged, Ending, Status, NoEvent
<1>1. CASE Refuse
    BY <1>1 DEF Refuse
<1>2. CASE Forward
    BY <1>2 DEF Forward
<1>3. CASE UpstreamFails
    BY <1>3 DEF UpstreamFails
<1>4. CASE UpstreamAnswers
    BY <1>4 DEF UpstreamAnswers
<1>5. CASE ReadChunk
    BY <1>5 DEF ReadChunk
<1>6. CASE AnswerEnds
    BY <1>6 DEF AnswerEnds
<1>7. CASE WriteClient
    BY <1>7 DEF WriteClient
<1>8. CASE ClientGone
    BY <1>8 DEF ClientGone
<1>9. CASE WriteStore
    BY <1>9 DEF WriteStore, TakeChunk, AfterStore
<1>10. CASE WriteParser
    BY <1>10 DEF WriteParser
<1>11. CASE Drained
    BY <1>11 DEF Drained
<1>12. CASE CloseStore
    BY <1>12 DEF CloseStore
<1>13. CASE Join
    BY <1>13 DEF Join
<1>14. CASE Submit
    BY <1>14 DEF Submit, Status
<1>15. CASE ParserHandles
    BY <1>15 DEF ParserHandles
<1>16. CASE ParserEnds
    BY <1>16 DEF ParserEnds
<1>17. CASE StoreSeesEnd
    BY <1>17 DEF StoreSeesEnd, StoreStep
<1>18. CASE StorePartSent
    BY <1>18 DEF StorePartSent, StoreStep
<1>19. CASE StoreFinishes
    BY <1>19 DEF StoreFinishes, StoreStep
<1>20. CASE StoreFails
    BY <1>20 DEF StoreFails, StoreStep
<1>21. CASE RequestUploaded
    BY <1>21 DEF RequestUploaded
<1> QED BY <1>1, <1>2, <1>3, <1>4, <1>5, <1>6, <1>7, <1>8, <1>9, <1>10, <1>11, <1>12, <1>13, <1>14, <1>15, <1>16, <1>17, <1>18, <1>19, <1>20, <1>21
    DEF Next, Serve, Parse, MinIO

\* The inductive invariant holds in every reachable state of a request.
THEOREM RequestInvariant == Spec => []RequestInv
<1>1. Init => RequestInv
    <2>1. Init => TypeOK
        <3>1. NoEvent \in [status : {"none", "success", "error", "aborted"},
                           respKey : BOOLEAN, reqKey : BOOLEAN]
            BY DEF NoEvent
        <3>2. ASSUME Init
              PROVE  /\ sent \in 0..MaxChunks /\ written \in 0..sent
                     /\ delivered \in 0..written /\ stored \in 0..written
            BY <3>2, MaxChunksOK DEF Init
        <3>3. ASSUME Init
              PROVE  /\ chunk \in Chunk /\ parsing \in Chunk
                     /\ spoken \subseteq Kind /\ heard \subseteq spoken /\ unclosed \subseteq spoken
            BY <3>3 DEF Init, Kind, Chunk, Noise
        <3> QED BY <3>1, <3>2, <3>3 DEF Init, TypeOK
    <2>2. Init => NothingUnheard /\ NothingUnstored /\ Judged
        BY DEF Init, NothingUnheard, NothingUnstored, Judged, Copying, Ending
    <2> QED BY <2>1, <2>2 DEF RequestInv
<1>2. RequestInv /\ [Next]_vars => RequestInv'
    <2>1. CASE Next
        BY <2>1, StepTypeOK, StepUnheard, StepUnstored, StepJudged DEF RequestInv
    <2>2. CASE UNCHANGED vars
        BY <2>2 DEF vars, copy, parsers, stores, RequestInv, TypeOK, NothingUnheard,
                    NothingUnstored, Judged, Copying, Ending, Status
    <2> QED BY <2>1, <2>2
<1> QED BY <1>1, <1>2, PTL DEF Spec

\* The variables of a request keep their types, and what a later writer has taken of the
\* answer never exceeds what an earlier one has.
THEOREM TypeCorrect == Spec => []TypeOK
<1>1. RequestInv => TypeOK
    BY DEF RequestInv
<1> QED BY <1>1, RequestInvariant, PTL

\* Exactly the forwarded requests leave a trace event.
THEOREM ForwardedIsTraced == Spec => []EventIffForwarded
<1>1. RequestInv => EventIffForwarded
    BY DEF RequestInv, Judged, EventIffForwarded, NoEvent, Status
<1> QED BY <1>1, RequestInvariant, PTL

\* A stream is called a success exactly if it ended properly and with its terminal
\* event, though serve and the parser run side by side.
THEOREM StreamVerdict == Spec => []VerdictTrue
<1>1. ASSUME RequestInv, event # NoEvent, streaming, reply = "ok"
      PROVE  (event.status = "success") = (~copyErr /\ "end" \in spoken)
    <2>1. pc = "done" /\ event.status = Status
        BY <1>1 DEF RequestInv, Judged
    <2>2. "end" \in spoken => "end" \in heard
        BY <1>1, <2>1 DEF RequestInv, NothingUnheard, Ending
    <2>3. heard \subseteq spoken
        BY <1>1 DEF RequestInv, TypeOK
    <2> QED BY <1>1, <2>1, <2>2, <2>3 DEF Status
<1>2. RequestInv => VerdictTrue
    BY <1>1 DEF VerdictTrue
<1> QED BY <1>2, RequestInvariant, PTL

\* The bodies an event names are stored, and the response's is what the client was
\* given, chunk for chunk.
THEOREM KeysNameBodies == Spec => []KeyMeansWholeBody
<1>1. ASSUME RequestInv, event # NoEvent
      PROVE  /\ event.respKey => store = "ok" /\ stored = written
             /\ event.reqKey => reqUpload = "ok"
    <2>1. pc = "done" /\ event.respKey = respKey /\ event.reqKey = (reqUpload = "ok")
        BY <1>1 DEF RequestInv, Judged
    <2> QED BY <1>1, <2>1 DEF RequestInv, TypeOK, NothingUnstored
<1>2. RequestInv => KeyMeansWholeBody
    BY <1>1 DEF KeyMeansWholeBody
<1> QED BY <1>2, RequestInvariant, PTL

===============================================================================
