------------------------------ MODULE LoopProof ------------------------------
(***************************************************************************)
(* The reference-count protocol of the event loop, proved for any number   *)
(* of handles and requests: the counts are exact, a handle's close         *)
(* callback is the last thing that happens to it, and run() returns false  *)
(* only when nothing is left.  All three follow from one inductive         *)
(* invariant, IInv.  Three more, EdgeInv, ErrorAlone and DueInv, are       *)
(* inductive beside it: no request is stranded and no edge missed.         *)
(***************************************************************************)
EXTENDS Loop, FiniteSetTheorems, TLAPS

\* What ties a handle's list, counts and flags together.
HandleOK(h) ==
    /\ node[h] # "active" => mFly[h] = 0
    /\ node[h] # "none" => "OPEN" \in mFlag[h] \/ "CLOSING" \in mFlag[h]
    /\ "READABLE" \in mFlag[h] \/ "WRITEABLE" \in mFlag[h] => Alive(h)
    /\ mGrab[h] = IF Alive(h) THEN 1 ELSE 0
    /\ Alive(h) => node[h] = "active"

\* The command handle has one request, free while its callback runs.
CmdOwned ==
    /\ mHandle[ReadCMD] = CMD
    /\ \A r \in Requests : mHandle[r] = CMD /\ where[r] # "free" => r = ReadCMD
    /\ cb.kind \in {"req", "stop"} /\ cb.h = CMD => where[ReadCMD] = "free"

\* Once run() has returned false nothing is left to happen.
DoneOK == pc = "done" => cb.kind = "none" /\ loopGrab = 0

IInv ==
    /\ TypeOK
    /\ FlyCounted
    /\ LoopCountsHandles
    /\ \A h \in Handles : HandleOK(h)
    /\ CmdOwned
    /\ DoneOK

-----------------------------------------------------------------------------
(* Counting.                                                               *)

\* A finite set with one more, and one fewer, member.
LEMMA OneMore ==
    ASSUME NEW S, IsFiniteSet(S), NEW x, x \notin S
    PROVE  Cardinality(S \cup {x}) = Cardinality(S) + 1
BY FS_AddElement

LEMMA OneFewer ==
    ASSUME NEW S, IsFiniteSet(S), NEW x, x \in S
    PROVE  /\ Cardinality(S \ {x}) = Cardinality(S) - 1
           /\ Cardinality(S) > 0
<1>1. Cardinality(S \ {x}) = Cardinality(S) - 1
  BY FS_RemoveElement
<1>2. Cardinality(S) # 0
  BY FS_EmptySet
<1>3. Cardinality(S) \in Nat
  BY FS_CardinalityType
<1> QED BY <1>1, <1>2, <1>3

\* The sets the invariants count are finite.
LEMMA Finite ==
    /\ \A h : IsFiniteSet(InFlight(h)) /\ Cardinality(InFlight(h)) \in Nat
    /\ IsFiniteSet(Held) /\ Cardinality(Held) \in Nat
    /\ IsFiniteSet(Linked) /\ Cardinality(Linked) \in Nat
<1>1. IsFiniteSet(Requests) /\ IsFiniteSet(Handles)
  BY ConstantsOK
<1>2. \A h : InFlight(h) \subseteq Requests
  BY DEF InFlight
<1>3. Held \subseteq Requests /\ Linked \subseteq Handles
  BY DEF Held, Linked
<1>4. /\ \A h : IsFiniteSet(InFlight(h))
      /\ IsFiniteSet(Held) /\ IsFiniteSet(Linked)
  BY <1>1, <1>2, <1>3, FS_Subset, Zenon
<1> QED BY <1>4, FS_CardinalityType, Zenon

\* FlyCounted survives a step that takes no request and gives none back.
LEMMA FlyKept ==
    ASSUME TypeOK, FlyCounted,
           UNCHANGED <<mHandle, mFly, loopFly>>,
           \A r \in Requests : where'[r] = "free" <=> where[r] = "free",
           Calling' <=> Calling,
           Calling => cb'.h = cb.h
    PROVE  FlyCounted'
<1>1. \A h : InFlight(h)' = InFlight(h)
  BY DEF InFlight
<1>2. Held' = Held
  BY DEF Held
<1> QED BY <1>1, <1>2 DEF FlyCounted

\* It survives a step in which the application hands r to the handle h ...
LEMMA FlyTaken ==
    ASSUME TypeOK, FlyCounted,
           NEW h \in Handles, NEW r \in Requests,
           where[r] = "free", where'[r] # "free",
           \A x \in Requests \ {r} : where'[x] = "free" <=> where[x] = "free",
           mHandle' = [mHandle EXCEPT ![r] = h],
           mFly' = [mFly EXCEPT ![h] = @ + 1],
           loopFly' = loopFly + 1,
           Calling' <=> Calling,
           Calling => cb'.h = cb.h
    PROVE  FlyCounted'
<1>1. InFlight(h)' = InFlight(h) \cup {r} /\ r \notin InFlight(h)
  BY DEF TypeOK, InFlight
<1>2. \A x \in Handles \ {h} : InFlight(x)' = InFlight(x)
  BY DEF TypeOK, InFlight
<1>3. Held' = Held \cup {r} /\ r \notin Held
  BY DEF Held
<1>4. Cardinality(InFlight(h)') = Cardinality(InFlight(h)) + 1
  BY <1>1, Finite, OneMore
<1>5. Cardinality(Held') = Cardinality(Held) + 1
  BY <1>3, Finite, OneMore
<1>6. mFly'[h] = mFly[h] + 1 /\ \A x \in Handles \ {h} : mFly'[x] = mFly[x]
  BY DEF TypeOK
<1>7. mFly'[h] = Cardinality(InFlight(h)')
                   + (IF Calling' /\ cb'.h = h THEN 1 ELSE 0)
  BY <1>4, <1>6, Finite DEF FlyCounted
<1>8. \A x \in Handles \ {h} :
        mFly'[x] = Cardinality(InFlight(x)')
                     + (IF Calling' /\ cb'.h = x THEN 1 ELSE 0)
  BY <1>2, <1>6 DEF FlyCounted
<1>9. loopFly' = Cardinality(Held') + (IF Calling' THEN 1 ELSE 0)
  BY <1>5, Finite DEF FlyCounted
<1> QED BY <1>7, <1>8, <1>9 DEF FlyCounted

\* ... a step in which the loop hands r back and its callback begins ...
LEMMA FlyGiven ==
    ASSUME TypeOK, FlyCounted,
           NEW h \in Handles, NEW r \in Requests,
           mHandle[r] = h, where[r] # "free", where'[r] = "free",
           \A x \in Requests \ {r} : where'[x] = "free" <=> where[x] = "free",
           UNCHANGED <<mHandle, mFly, loopFly>>,
           ~Calling, Calling', cb'.h = h
    PROVE  FlyCounted'
<1>1. InFlight(h)' = InFlight(h) \ {r} /\ r \in InFlight(h)
  BY DEF InFlight
<1>2. \A x \in Handles \ {h} : InFlight(x)' = InFlight(x)
  BY DEF InFlight
<1>3. Held' = Held \ {r} /\ r \in Held
  BY DEF Held
<1>4. Cardinality(InFlight(h)') = Cardinality(InFlight(h)) - 1
  BY <1>1, Finite, OneFewer
<1>5. Cardinality(Held') = Cardinality(Held) - 1
  BY <1>3, Finite, OneFewer
<1>6. /\ \A x \in Handles : mFly[x] = Cardinality(InFlight(x))
      /\ loopFly = Cardinality(Held)
  BY Finite DEF FlyCounted
<1>7. mFly'[h] = Cardinality(InFlight(h)') + 1
  BY <1>4, <1>6, Finite
<1>8. \A x \in Handles \ {h} : mFly'[x] = Cardinality(InFlight(x)') + 0
  BY <1>2, <1>6, Finite
<1>9. loopFly' = Cardinality(Held') + 1
  BY <1>5, <1>6, Finite
<1> QED BY <1>7, <1>8, <1>9 DEF FlyCounted

\* ... and the step in which the callback has returned.
LEMMA FlyReturned ==
    ASSUME TypeOK, FlyCounted,
           NEW h \in Handles,
           Calling, cb.h = h, ~Calling',
           mHandle' = mHandle,
           \A r \in Requests : where'[r] = "free" <=> where[r] = "free",
           mFly' = [mFly EXCEPT ![h] = @ - 1],
           loopFly' = loopFly - 1
    PROVE  /\ FlyCounted'
           /\ mFly[h] > 0
           /\ loopFly > 0
<1>1. \A x : InFlight(x)' = InFlight(x)
  BY DEF InFlight
<1>2. Held' = Held
  BY DEF Held
<1>3. /\ mFly'[h] = mFly[h] - 1
      /\ \A x \in Handles \ {h} : mFly'[x] = mFly[x]
  BY DEF TypeOK
<1>4. /\ mFly[h] = Cardinality(InFlight(h)) + 1
      /\ \A x \in Handles \ {h} : mFly[x] = Cardinality(InFlight(x))
      /\ loopFly = Cardinality(Held) + 1
  BY Finite DEF FlyCounted
<1>5. /\ mFly'[h] = Cardinality(InFlight(h)') + 0
      /\ mFly[h] > 0
  BY <1>1, <1>3, <1>4, Finite
<1>6. \A x \in Handles \ {h} : mFly'[x] = Cardinality(InFlight(x)') + 0
  BY <1>1, <1>3, <1>4, Finite
<1>7. /\ loopFly' = Cardinality(Held') + 0
      /\ loopFly > 0
  BY <1>2, <1>4, Finite
<1> QED BY <1>5, <1>6, <1>7 DEF FlyCounted

-----------------------------------------------------------------------------
(* Lists, counts and flags.                                                *)

\* A handle some request is in flight for, or whose request's callback is
\* running, is on the active list.
LEMMA InFlightActive ==
    ASSUME IInv, NEW r \in Requests, where[r] # "free"
    PROVE  /\ mHandle[r] \in Handles
           /\ node[mHandle[r]] = "active"
           /\ "OPEN" \in mFlag[mHandle[r]] \/ "CLOSING" \in mFlag[mHandle[r]]
<1> DEFINE h == mHandle[r]
<1>1. h \in Handles /\ mFly[h] \in Nat
  BY DEF IInv, TypeOK
<1>2. Cardinality(InFlight(h)) > 0
  BY Finite, OneFewer DEF InFlight
<1>3. mFly[h] # 0
  BY <1>1, <1>2, Finite DEF IInv, FlyCounted
<1> QED BY <1>1, <1>3 DEF IInv, HandleOK

\* LoopCountsHandles depends on which handles are linked somewhere ...
LEMMA LinkedKept ==
    ASSUME LoopCountsHandles, loopGrab' = loopGrab, torn' = torn,
           \A h \in Handles : node'[h] = "none" <=> node[h] = "none",
           cb'.kind = "close" <=> cb.kind = "close"
    PROVE  LoopCountsHandles'
<1>1. Linked' = Linked
  BY DEF Linked
<1> QED BY <1>1 DEF LoopCountsHandles

\* ... and a handle that is opened is one more, or is counted twice.
LEMMA LinkedMore ==
    ASSUME TypeOK, LoopCountsHandles, ~torn,
           NEW h \in Handles,
           Link(h),
           loopGrab' = loopGrab + 1,
           cb' = cb
    PROVE  LoopCountsHandles'
<1>1. node' = [node EXCEPT ![h] = "active"] /\ (torn' <=> node[h] # "none")
  BY DEF Link
<1>2. CASE node[h] = "none"
  <2>1. Linked' = Linked \cup {h} /\ h \notin Linked
    BY <1>1, <1>2 DEF Linked, TypeOK
  <2>2. Cardinality(Linked') = Cardinality(Linked) + 1
    BY <2>1, Finite, OneMore
  <2> QED BY <1>1, <1>2, <2>2, Finite DEF LoopCountsHandles
<1>3. CASE node[h] # "none"
  <2>1. Linked' = Linked
    BY <1>1, <1>3 DEF Linked, TypeOK
  <2> QED BY <1>1, <1>3, <2>1, Finite DEF LoopCountsHandles
<1> QED BY <1>2, <1>3

\* closeHandle() leaves the invariant's picture of every handle intact and
\* frees no request.
LEMMA Closing ==
    ASSUME IInv, NEW h \in Handles,
           NEW f \in [Handles -> SUBSET Flags],
           NEW w \in [Requests -> Places],
           \A x \in Handles \ {h} : f[x] = mFlag[x],
           f[h] \subseteq mFlag[h],
           \A g \in {"OPEN", "CLOSING", "CLOSE"} : g \in f[h] <=> g \in mFlag[h],
           CloseHandle(h, f, w, mFly[h]),
           mFly' = mFly
    PROVE  /\ mFlag' \in [Handles -> SUBSET Flags]
           /\ due' \subseteq Handles \X Directions
           /\ mGrab' \in [Handles -> Nat]
           /\ node' \in [Handles -> Nodes]
           /\ timeHub' \subseteq Handles
           /\ where' \in [Requests -> Places]
           /\ \A r \in Requests : where'[r] = "free" <=> w[r] = "free"
           /\ \A x \in Handles : node'[x] = "none" <=> node[x] = "none"
           /\ \A x \in Handles : HandleOK(x)'
<1> USE DEF IInv, TypeOK
<1>1. CASE Ended(h, f)
  <2>1. /\ mFlag' = f /\ where' = w
        /\ UNCHANGED <<mGrab, node, timeHub, due>>
    BY <1>1 DEF CloseHandle
  <2>2. \A x \in Handles : HandleOK(x)'
    BY <2>1 DEF HandleOK, Alive
  <2> QED BY <2>1, <2>2
<1>2. CASE ~Ended(h, f)
  <2>1. Alive(h) /\ node[h] = "active" /\ mGrab[h] = 1
    BY <1>2 DEF Ended, HandleOK, Alive
  <2>2. /\ mFlag' = [f EXCEPT ![h] = ClosingFlags(@)]
        /\ timeHub' \subseteq timeHub
        /\ due' \subseteq due
        /\ where' = PendAll(h, w)
        /\ mGrab' = [mGrab EXCEPT ![h] = 0]
        /\ node' = IF mFly[h] = 0 THEN [node EXCEPT ![h] = "close"] ELSE node
    BY <1>2, <2>1 DEF CloseHandle, AddClose
  <2>3. mFlag' \in [Handles -> SUBSET Flags]
    BY <2>2 DEF ClosingFlags, Flags
  <2>4. node' \in [Handles -> Nodes]
    BY <2>2 DEF Nodes
  <2>5. /\ where' \in [Requests -> Places]
        /\ \A r \in Requests : where'[r] = "free" <=> w[r] = "free"
    BY <2>2 DEF PendAll, Places
  <2>6. \A x \in Handles : node'[x] = "none" <=> node[x] = "none"
    BY <2>1, <2>2
  <2>7. \A x \in Handles : HandleOK(x)'
    <3>1. HandleOK(h)'
      BY <2>1, <2>2 DEF HandleOK, Alive, ClosingFlags
    <3>2. \A x \in Handles \ {h} : HandleOK(x)'
      BY <2>2 DEF HandleOK, Alive
    <3> QED BY <3>1, <3>2
  <2>8. /\ mGrab' \in [Handles -> Nat] /\ timeHub' \subseteq Handles
        /\ due' \subseteq Handles \X Directions
    BY <2>2
  <2> QED BY <2>3, <2>4, <2>5, <2>6, <2>7, <2>8
<1> QED BY <1>1, <1>2

-----------------------------------------------------------------------------
(* Every step keeps the invariant.  First what most steps have in common.  *)

\* A step that neither takes nor gives back a request, links or unlinks a
\* handle, nor changes what a handle is open to.
LEMMA QuietStep ==
    ASSUME IInv, TypeOK', DoneOK',
           UNCHANGED <<mGrab, mFly, mHandle, loopGrab, loopFly, torn>>,
           \A r \in Requests : where'[r] = "free" <=> where[r] = "free",
           \A h \in Handles : node'[h] = "none" <=> node[h] = "none",
           \A h \in Handles : node'[h] = "active" <=> node[h] = "active",
           \A h \in Handles : \A g \in Flags \ {"SYNC_READ", "SYNC_WRITE"} :
               g \in mFlag'[h] <=> g \in mFlag[h],
           cb'.kind = "close" <=> cb.kind = "close",
           Calling' <=> Calling,
           Calling => cb'.h = cb.h,
           cb'.kind \in {"req", "stop"} => cb.kind \in {"req", "stop"}
    PROVE  IInv'
<1>1. FlyCounted'
  BY FlyKept DEF IInv
<1>2. LoopCountsHandles'
  BY LinkedKept DEF IInv
<1>3. \A h \in Handles : HandleOK(h)'
  BY DEF IInv, HandleOK, Alive, Flags
<1>4. CmdOwned'
  BY ConstantsOK DEF IInv, CmdOwned, Calling
<1> QED BY <1>1, <1>2, <1>3, <1>4 DEF IInv

\* read(), write() and accept(), by the application or by the loop itself.
LEMMA PostStep ==
    ASSUME IInv, NEW h \in Handles, NEW r \in Requests,
           NEW t \in ReqTypes \ {"connect"},
           where[r] = "free", Ready(t) \in mFlag[h],
           Post(h, r, t, where),
           UNCHANGED <<mGrab, node, timeHub, loopGrab, mStop, torn, due, polled,
                       pc>>,
           cb' \in CallRecord,
           cb'.kind = "close" <=> cb.kind = "close",
           Calling' <=> Calling,
           Calling => cb'.h = cb.h,
           \/ h # CMD /\ r # ReadCMD /\ cb' = cb
           \/ h = CMD /\ r = ReadCMD /\ cb'.kind \notin {"req", "stop"},
           cb.kind # "none"
    PROVE  IInv'
<1> USE DEF IInv
<1>1. /\ mHandle' = [mHandle EXCEPT ![r] = h]
      /\ mType' = [mType EXCEPT ![r] = t]
      /\ mFly' = [mFly EXCEPT ![h] = @ + 1]
      /\ loopFly' = loopFly + 1
  BY DEF Post, Issue, BindFly
<1>2. /\ where' \in [Requests -> Places]
      /\ where'[r] # "free"
      /\ \A x \in Requests \ {r} : where'[x] = "free" <=> where[x] = "free"
  <2>1. CASE Sync(t) \in mFlag[h]
    <3>1. PICK q \in {r} \cup Queue(h, QueueOf(t)) :
            where' = [where EXCEPT ![r] = QueueOf(t), ![q] = "pend"]
      BY <2>1 DEF Post
    <3>2. q \in Requests /\ (q # r => where[q] # "free")
      BY <3>1 DEF Queue, QueueOf
    <3> QED BY <3>1, <3>2 DEF TypeOK, Places, QueueOf
  <2>2. CASE Sync(t) \notin mFlag[h]
    BY <2>2 DEF Post, TypeOK, Places, QueueOf
  <2> QED BY <2>1, <2>2
<1>3. mFlag' = [mFlag EXCEPT ![h] = @ \ {Sync(t)}] \/ mFlag' = mFlag
  BY DEF Post
<1>4. Alive(h) /\ node[h] = "active"
  BY DEF HandleOK, Ready
<1>5. TypeOK'
  <2>1. mHandle' \in [Requests -> Handles] /\ mType' \in [Requests -> ReqTypes]
    BY <1>1 DEF TypeOK
  <2>2. mFly' \in [Handles -> Nat] /\ loopFly' \in Nat
    BY <1>1 DEF TypeOK
  <2>3. mFlag' \in [Handles -> SUBSET Flags]
    BY <1>3 DEF TypeOK
  <2> QED BY <1>2, <2>1, <2>2, <2>3 DEF TypeOK
<1>6. FlyCounted'
  BY <1>1, <1>2, FlyTaken
<1>7. LoopCountsHandles'
  BY LinkedKept
<1>8. \A x \in Handles : HandleOK(x)'
  <2>1. HandleOK(h)'
    BY <1>3, <1>4 DEF HandleOK, Alive, Sync, TypeOK
  <2>2. \A x \in Handles \ {h} : HandleOK(x)'
    BY <1>1, <1>3 DEF HandleOK, Alive, TypeOK
  <2> QED BY <2>1, <2>2
<1>9. CmdOwned'
  BY <1>1, <1>2, ConstantsOK DEF CmdOwned, TypeOK
<1>10. DoneOK'
  BY DEF DoneOK
<1> QED BY <1>5, <1>6, <1>7, <1>8, <1>9, <1>10

\* The loop hands a request back: its callback begins.
LEMMA GiveStep ==
    ASSUME IInv, NEW r \in Requests, Current(r),
           TypeOK',
           UNCHANGED <<mFly, mHandle, mType, loopGrab, loopFly, torn, pc>>,
           \A x \in Requests : where'[x] = "free" <=> x = r \/ where[x] = "free",
           \A h \in Handles : node'[h] = "none" <=> node[h] = "none",
           \A h \in Handles : HandleOK(h)',
           cb'.kind = "req", cb'.h = mHandle[r]
    PROVE  IInv'
<1>1. /\ pc = "pending" /\ cb.kind = "none"
      /\ where[r] # "free"
  BY DEF Current, NoCall
<1>2. ~Calling /\ Calling'
  BY <1>1 DEF Calling
<1>3. mHandle[r] \in Handles
  BY DEF IInv, TypeOK
<1>4. FlyCounted'
  BY <1>1, <1>2, <1>3, FlyGiven DEF IInv
<1>5. LoopCountsHandles'
  BY <1>1, LinkedKept DEF IInv
<1>6. CmdOwned'
  BY <1>1, ConstantsOK DEF IInv, CmdOwned
<1>7. DoneOK'
  BY <1>1 DEF DoneOK
<1> QED BY <1>4, <1>5, <1>6, <1>7 DEF IInv

\* A handle is closed: by the application, by its timer, or by stop().
LEMMA CloseStep ==
    ASSUME IInv, NEW h \in Handles,
           CloseHandle(h, mFlag, where, mFly[h]),
           UNCHANGED <<mFly, mHandle, mType, loopGrab, loopFly, mStop, torn,
                       polled, pc>>,
           cb.kind # "none",
           cb' = cb \/ (cb.kind = "time" /\ cb' = NoCall)
    PROVE  IInv'
<1> USE DEF IInv
<1>1. /\ mFlag' \in [Handles -> SUBSET Flags]
      /\ due' \subseteq Handles \X Directions
      /\ mGrab' \in [Handles -> Nat]
      /\ node' \in [Handles -> Nodes]
      /\ timeHub' \subseteq Handles
      /\ where' \in [Requests -> Places]
      /\ \A r \in Requests : where'[r] = "free" <=> where[r] = "free"
      /\ \A x \in Handles : node'[x] = "none" <=> node[x] = "none"
      /\ \A x \in Handles : HandleOK(x)'
  BY Closing DEF TypeOK
<1>2. NoCall \in CallRecord
  BY ConstantsOK DEF NoCall, CallRecord, CbKinds, ReqTypes
<1>3. TypeOK'
  BY <1>1, <1>2 DEF TypeOK
<1>4. FlyCounted'
  BY <1>1, FlyKept DEF Calling, NoCall
<1>5. LoopCountsHandles'
  BY <1>1, LinkedKept DEF NoCall
<1>6. CmdOwned' /\ DoneOK'
  BY <1>1, ConstantsOK DEF CmdOwned, DoneOK, NoCall
<1> QED BY <1>1, <1>3, <1>4, <1>5, <1>6

-----------------------------------------------------------------------------
\* What the application does in a callback.
LEMMA UserKeeps ==
    ASSUME IInv, ~torn, UserStep
    PROVE  IInv'
<1> USE DEF IInv
<1>0. PICK h \in Handles :
        \/ Close(h) \/ OpenRefused(h) \/ OpenFails(h) \/ Open(h)
        \/ \E r \in Requests :
              Read(h, r) \/ Write(h, r) \/ Accept(h, r)
                         \/ OpenConnect(h, r) \/ OpenConnectFails(h, r)
  BY DEF UserStep
<1>a. InCallback => cb.kind # "none"
  BY DEF InCallback
<1>b. MayOpen(h) => ~Alive(h) /\ InCallback /\ h # CMD
  BY DEF MayOpen, ConnectFailed, HandleOK
<1>1. CASE Close(h)
  <2>1. /\ CloseHandle(h, mFlag, where, mFly[h])
        /\ UNCHANGED <<mFly, mHandle, mType, loopGrab, loopFly, mStop, torn,
                       polled, pc>>
        /\ cb' = cb /\ cb.kind # "none"
    BY <1>1, <1>a DEF Close
  <2> HIDE DEF IInv
  <2> QED BY <2>1, CloseStep
<1>2. CASE OpenRefused(h) \/ OpenFails(h)
  <2>1. /\ ~Alive(h) /\ InCallback
        /\ UNCHANGED <<mGrab, mFly, node, timeHub, reqVars, loopGrab, loopFly,
                       mStop, torn, due, polled, pc, cb>>
        /\ \/ mFlag' = [mFlag EXCEPT ![h] = @ \cup {"CLOSING"}]
           \/ mFlag' = [mFlag EXCEPT ![h] = {"CLOSING", "CLOSE"}]
    BY <1>2, <1>b DEF OpenRefused, OpenFails, CanOpen
  <2>2. TypeOK'
    BY <2>1 DEF TypeOK, Flags, reqVars
  <2>3. FlyCounted'
    BY <2>1, FlyKept DEF Calling, reqVars
  <2>4. LoopCountsHandles'
    BY <2>1, LinkedKept
  <2>5. \A x \in Handles : HandleOK(x)'
    <3>1. HandleOK(h)'
      BY <2>1 DEF HandleOK, Alive, TypeOK
    <3>2. \A x \in Handles \ {h} : HandleOK(x)'
      BY <2>1 DEF HandleOK, Alive, TypeOK
    <3> QED BY <3>1, <3>2
  <2>6. CmdOwned' /\ DoneOK'
    BY <2>1 DEF CmdOwned, DoneOK, reqVars
  <2> QED BY <2>2, <2>3, <2>4, <2>5, <2>6
<1>3. CASE Open(h)
  <2>1. /\ ~Alive(h) /\ InCallback
        /\ mGrab' = [mGrab EXCEPT ![h] = @ + 1]
        /\ loopGrab' = loopGrab + 1
        /\ mFlag' = [mFlag EXCEPT ![h] = NewFlags(h)]
        /\ Link(h)
        /\ node' = [node EXCEPT ![h] = "active"] /\ torn' \in BOOLEAN
        /\ timeHub' \subseteq timeHub \cup {h}
        /\ UNCHANGED <<mFly, reqVars, loopFly, mStop, due, polled, pc, cb>>
    BY <1>3, <1>b DEF Open, CanOpen, BindHandle, Link, TypeOK
  <2>2. TypeOK'
    <3>1. /\ mGrab' \in [Handles -> Nat] /\ loopGrab' \in Nat
          /\ node' \in [Handles -> Nodes] /\ timeHub' \subseteq Handles
      BY <2>1 DEF TypeOK, Nodes
    <3>2. mFlag' \in [Handles -> SUBSET Flags]
      BY <2>1 DEF TypeOK, NewFlags, OpenFlags, Flags
    <3> QED BY <2>1, <3>1, <3>2 DEF TypeOK, reqVars
  <2>3. FlyCounted'
    BY <2>1, FlyKept DEF Calling, reqVars
  <2>4. LoopCountsHandles'
    BY <2>1, LinkedMore
  <2>5. \A x \in Handles : HandleOK(x)'
    <3>1. HandleOK(h)'
      BY <2>1 DEF HandleOK, Alive, TypeOK, NewFlags, OpenFlags
    <3>2. \A x \in Handles \ {h} : HandleOK(x)'
      BY <2>1 DEF HandleOK, Alive, TypeOK
    <3> QED BY <3>1, <3>2
  <2>6. CmdOwned' /\ DoneOK'
    BY <2>1, <1>a DEF CmdOwned, DoneOK, reqVars
  <2> QED BY <2>2, <2>3, <2>4, <2>5, <2>6
<1>4. ASSUME NEW r \in Requests, Read(h, r) \/ Write(h, r) \/ Accept(h, r)
      PROVE  IInv'
  <2>1. PICK t \in {"read", "write", "accept"} : Request(h, r, t)
    BY <1>4 DEF Read, Write, Accept
  <2>2. /\ h # CMD /\ r # ReadCMD /\ where[r] = "free"
        /\ Ready(t) \in mFlag[h]
        /\ Post(h, r, t, where)
        /\ UNCHANGED <<mGrab, node, timeHub, loopGrab, mStop, torn, due,
                       polled, pc, cb>>
        /\ cb.kind # "none"
    BY <2>1, <1>a DEF Request
  <2>3. (Calling' <=> Calling) /\ cb' \in CallRecord
    BY <2>2 DEF Calling, TypeOK
  <2>4. t \in ReqTypes \ {"connect"}
    BY DEF ReqTypes
  <2> HIDE DEF IInv
  <2> QED BY <2>2, <2>3, <2>4, PostStep
<1>5. ASSUME NEW r \in Requests, OpenConnect(h, r) \/ OpenConnectFails(h, r)
      PROVE  IInv'
  <2>1. /\ ~Alive(h) /\ InCallback /\ h # CMD
        /\ r # ReadCMD /\ where[r] = "free"
        /\ mFly' = [mFly EXCEPT ![h] = @ + 1]
        /\ loopFly' = loopFly + 1
        /\ loopGrab' = loopGrab + 1
        /\ mHandle' = [mHandle EXCEPT ![r] = h]
        /\ mType' = [mType EXCEPT ![r] = "connect"]
        /\ Link(h)
        /\ node' = [node EXCEPT ![h] = "active"] /\ torn' \in BOOLEAN
        /\ timeHub' \subseteq timeHub \cup {h}
        /\ UNCHANGED <<mStop, due, polled, pc, cb>>
    BY <1>5, <1>b DEF OpenConnect, OpenConnectFails, CanOpen, BindHandle,
                      BindFly, Issue, Link, TypeOK
  <2>2. PICK p \in {"pend", "write", "lost"} : where' = [where EXCEPT ![r] = p]
    BY <1>5 DEF OpenConnect, OpenConnectFails
  <2>3. \/ /\ mGrab' = [mGrab EXCEPT ![h] = @ + 1]
           /\ mFlag' = [mFlag EXCEPT ![h] = NewFlags(h)]
        \/ /\ mGrab' = mGrab
           /\ mFlag' = [mFlag EXCEPT ![h] = ClosingFlags(NewFlags(h))]
    BY <1>5 DEF OpenConnect, OpenConnectFails, BindHandle
  <2>4. TypeOK'
    <3>1. /\ mFly' \in [Handles -> Nat] /\ loopFly' \in Nat /\ loopGrab' \in Nat
          /\ node' \in [Handles -> Nodes] /\ timeHub' \subseteq Handles
      BY <2>1 DEF TypeOK, Nodes
    <3>2. /\ where' \in [Requests -> Places]
          /\ mHandle' \in [Requests -> Handles]
          /\ mType' \in [Requests -> ReqTypes]
      BY <2>1, <2>2 DEF TypeOK, Places, ReqTypes
    <3>3. NewFlags(h) \subseteq Flags /\ ClosingFlags(NewFlags(h)) \subseteq Flags
      BY DEF NewFlags, OpenFlags, ClosingFlags, Flags
    <3>4. mFlag' \in [Handles -> SUBSET Flags] /\ mGrab' \in [Handles -> Nat]
      BY <2>3, <3>3 DEF TypeOK
    <3> QED BY <2>1, <3>1, <3>2, <3>4 DEF TypeOK
  <2>5. FlyCounted'
    BY <2>1, <2>2, FlyTaken DEF Calling, TypeOK
  <2>6. LoopCountsHandles'
    BY <2>1, LinkedMore
  <2>7. \A x \in Handles : HandleOK(x)'
    <3>1. HandleOK(h)'
      BY <2>1, <2>3 DEF HandleOK, Alive, TypeOK, NewFlags, OpenFlags, ClosingFlags
    <3>2. \A x \in Handles \ {h} : HandleOK(x)'
      BY <2>1, <2>3 DEF HandleOK, Alive, TypeOK
    <3> QED BY <3>1, <3>2
  <2>8. CmdOwned' /\ DoneOK'
    BY <2>1, <2>2, <1>a, ConstantsOK DEF CmdOwned, DoneOK, TypeOK
  <2> QED BY <2>4, <2>5, <2>6, <2>7, <2>8
<1> QED BY <1>0, <1>1, <1>2, <1>3, <1>4, <1>5

\* The steps in which the loop neither calls a request's callback nor
\* returns from it.
LEMMA LoopKeeps ==
    ASSUME IInv,
           \/ InitReturn \/ TimerAgain \/ EndTimers \/ BeginPending
           \/ (\E r \in Requests : NextRequest(r))
           \/ StopEnd \/ EndTick \/ CmdStop
           \/ (\E h \in Handles : TimerFire(h))
    PROVE  IInv'
<1> USE DEF IInv, handleVars, reqVars
<1>1. NoCall \in CallRecord /\ NoCall.kind = "none"
  BY ConstantsOK DEF NoCall, CallRecord, CbKinds, ReqTypes
<1>2. CASE InitReturn \/ TimerAgain
  <2>1. TypeOK'
    BY <1>1, <1>2 DEF InitReturn, TimerAgain, TypeOK
  <2>2. DoneOK'
    BY <1>2 DEF InitReturn, TimerAgain, DoneOK
  <2>3. ~Calling /\ ~Calling' /\ cb.kind # "close" /\ cb'.kind = "none"
    BY <1>1, <1>2 DEF InitReturn, TimerAgain, Calling
  <2> QED BY <1>2, <2>1, <2>2, <2>3, QuietStep DEF InitReturn, TimerAgain
<1>3. CASE EndTimers \/ EndTick
  <2>1. TypeOK'
    BY <1>3 DEF EndTimers, EndTick, TypeOK, Phases
  <2>2. DoneOK'
    BY <1>1, <1>3 DEF EndTimers, EndTick, DoneOK, GoOn, TypeOK
  <2> QED BY <1>3, <2>1, <2>2, QuietStep DEF EndTimers, EndTick, Calling
<1>4. CASE BeginPending \/ \E r \in Requests : NextRequest(r)
  <2>1. TypeOK' /\ DoneOK'
    BY <1>4 DEF BeginPending, NextRequest, TypeOK, Phases, Places, DoneOK
  <2>2. \A r \in Requests : where'[r] = "free" <=> where[r] = "free"
    BY <1>4 DEF BeginPending, NextRequest, TypeOK
  <2> QED BY <1>4, <2>1, <2>2, QuietStep DEF BeginPending, NextRequest, Calling
<1>5. CASE StopEnd \/ CmdStop
  <2>1. /\ cb.kind \in {"req", "stop"}
        /\ cb'.kind \in {"req", "stop", "ret"} /\ cb'.h = cb.h
        /\ cb' \in CallRecord
    BY <1>5 DEF StopEnd, CmdStop, TypeOK, CallRecord, CbKinds
  <2>2. TypeOK' /\ DoneOK'
    BY <1>5, <2>1 DEF StopEnd, CmdStop, TypeOK, DoneOK
  <2>3. Calling /\ Calling'
    BY <2>1 DEF Calling
  <2> QED BY <1>5, <2>1, <2>2, <2>3, QuietStep DEF StopEnd, CmdStop
<1>6. ASSUME NEW h \in Handles, TimerFire(h)
      PROVE  IInv'
  <2>1. TypeOK' /\ DoneOK'
    BY <1>6 DEF TimerFire, Call, TypeOK, DoneOK, CallRecord, CbKinds, ReqTypes
  <2>2. ~Calling /\ ~Calling' /\ cb.kind = "none" /\ cb'.kind = "time"
    BY <1>6, <1>1 DEF TimerFire, Call, Calling
  <2> QED BY <1>6, <2>1, <2>2, QuietStep DEF TimerFire
<1> QED BY <1>2, <1>3, <1>4, <1>5, <1>6

\* The steps of updatePending() on one request.
LEMMA RequestKeeps ==
    ASSUME IInv, NEW r \in Requests, RequestStep(r), ~NextRequest(r)
    PROVE  IInv'
<1> DEFINE h == mHandle[r]
           t == mType[r]
<1> USE DEF IInv
<1>0. Current(r)
  BY DEF RequestStep, Connected, ConnectError, Complete, ShortRead, Again,
         Fail, Refuse
<1>1. /\ h \in Handles /\ t \in ReqTypes
      /\ node[h] = "active"
      /\ "OPEN" \in mFlag[h] \/ "CLOSING" \in mFlag[h]
      /\ cb.kind = "none" /\ where[r] = "cur" /\ pc = "pending"
  BY <1>0, InFlightActive DEF Current, NoCall, TypeOK
<1>2. /\ Given(r) \in [Requests -> Places]
      /\ \A x \in Requests : Given(r)[x] = "free" <=> x = r \/ where[x] = "free"
  BY DEF Given, TypeOK, Places
<1>3. \A m, e \in BOOLEAN, x \in ReqTypes :
        [kind |-> "req", h |-> h, type |-> x, more |-> m, err |-> e] \in CallRecord
  BY <1>1 DEF CallRecord, CbKinds
<1>d. \A q \in Directions : due \cup {<<h, q>>} \subseteq Handles \X Directions
  <2>1. due \subseteq Handles \X Directions
    BY DEF TypeOK
  <2> QED BY <1>1, <2>1
<1>4. CASE Connected(r)
  <2>1. /\ mFlag' = [mFlag EXCEPT ![h] = @ \cup
                        {"READABLE", "WRITEABLE", "SYNC_WRITE"}]
        /\ "CLOSING" \notin mFlag[h]
        /\ timeHub' \subseteq timeHub \cup {h}
        /\ where' = Given(r)
        /\ cb' = [kind |-> "req", h |-> h, type |-> "connect", more |-> FALSE,
                  err |-> FALSE]
        /\ due' = due \cup {<<h, "write">>}
        /\ UNCHANGED <<mGrab, mFly, node, mHandle, mType, loopGrab, loopFly,
                       mStop, torn, polled, pc>>
    BY <1>4 DEF Connected, RelinkTime, Call
  <2>2. TypeOK'
    <3>1. due' \subseteq Handles \X Directions
      BY <1>d, <2>1 DEF Directions
    <3> QED BY <1>1, <1>2, <1>3, <2>1, <3>1 DEF TypeOK, Flags, ReqTypes
  <2>3. \A x \in Handles : HandleOK(x)'
    <3>1. HandleOK(h)'
      BY <1>1, <2>1 DEF HandleOK, Alive, TypeOK
    <3>2. \A x \in Handles \ {h} : HandleOK(x)'
      BY <2>1 DEF HandleOK, Alive, TypeOK
    <3> QED BY <2>1, <3>1, <3>2
  <2> HIDE DEF IInv
  <2> QED BY <1>0, <1>2, <2>1, <2>2, <2>3, GiveStep
<1>5. CASE ConnectError(r) \/ Fail(r)
  <2>1. PICK f \in [Handles -> SUBSET Flags] :
          /\ \A x \in Handles \ {h} : f[x] = mFlag[x]
          /\ f[h] \subseteq mFlag[h]
          /\ \A g \in {"OPEN", "CLOSING", "CLOSE"} :
                g \in f[h] <=> g \in mFlag[h]
          /\ CloseHandle(h, f, Given(r), mFly[h])
    <3>1. CASE ConnectError(r)
      BY <3>1, <1>1 DEF ConnectError, TypeOK
    <3>2. CASE Fail(r)
      <4> DEFINE f == [mFlag EXCEPT ![h] = @ \ {Ready(t), Sync(t)}]
      <4>1. f \in [Handles -> SUBSET Flags]
        BY DEF TypeOK
      <4>2. CloseHandle(h, f, Given(r), mFly[h])
        BY <3>2 DEF Fail
      <4>3. \A g \in {"OPEN", "CLOSING", "CLOSE"} : g \notin {Ready(t), Sync(t)}
        BY DEF Ready, Sync
      <4> QED BY <1>1, <4>1, <4>2, <4>3 DEF TypeOK
    <3> QED BY <1>5, <3>1, <3>2
  <2>2. /\ UNCHANGED <<mFly, mHandle, mType, loopGrab, loopFly, mStop, torn,
                       polled, pc>>
        /\ cb' \in CallRecord /\ cb'.kind = "req" /\ cb'.h = h
    <3>1. CASE ConnectError(r)
      BY <3>1, <1>1, <1>3 DEF ConnectError, Call, ReqTypes
    <3>2. CASE Fail(r)
      BY <3>2, <1>1, <1>3 DEF Fail, Call
    <3> QED BY <1>5, <3>1, <3>2
  <2>3. /\ mFlag' \in [Handles -> SUBSET Flags]
        /\ due' \subseteq Handles \X Directions
        /\ mGrab' \in [Handles -> Nat]
        /\ node' \in [Handles -> Nodes]
        /\ timeHub' \subseteq Handles
        /\ where' \in [Requests -> Places]
        /\ \A x \in Requests : where'[x] = "free" <=> Given(r)[x] = "free"
        /\ \A x \in Handles : node'[x] = "none" <=> node[x] = "none"
        /\ \A x \in Handles : HandleOK(x)'
    BY <1>1, <1>2, <2>1, <2>2, Closing
  <2>4. TypeOK'
    BY <2>2, <2>3 DEF TypeOK
  <2> HIDE DEF IInv
  <2> QED BY <1>0, <1>2, <2>2, <2>3, <2>4, GiveStep
<1>6. CASE Complete(r) \/ ShortRead(r) \/ Refuse(r)
  <2>1. /\ mFlag' = mFlag \/ mFlag' = [mFlag EXCEPT ![h] = @ \ {"SYNC_READ"}]
        /\ where' = Given(r)
        /\ due' \subseteq Handles \X Directions
        /\ UNCHANGED <<mGrab, mFly, node, timeHub, mHandle, mType, loopGrab,
                       loopFly, mStop, torn, polled, pc>>
        /\ cb' \in CallRecord /\ cb'.kind = "req" /\ cb'.h = h
    <3>1. CASE Complete(r)
      <4>1. due' = due \cup {<<h, QueueOf(t)>>} /\ QueueOf(t) \in Directions
        BY <3>1 DEF Complete, QueueOf, Directions
      <4>2. due' \subseteq Handles \X Directions
        BY <1>d, <4>1
      <4> QED BY <3>1, <4>2, <1>1, <1>3 DEF Complete, Call, handleVars
    <3>2. CASE ShortRead(r)
      BY <3>2, <1>1, <1>3 DEF ShortRead, Call, ReqTypes, TypeOK
    <3>3. CASE Refuse(r)
      BY <3>3, <1>1, <1>3 DEF Refuse, Call, handleVars, TypeOK
    <3> QED BY <1>6, <3>1, <3>2, <3>3
  <2>2. TypeOK'
    BY <1>2, <2>1 DEF TypeOK
  <2>3. \A x \in Handles : HandleOK(x)'
    <3>1. \A x \in Handles : \A g \in Flags \ {"SYNC_READ"} :
            g \in mFlag'[x] <=> g \in mFlag[x]
      BY <2>1 DEF TypeOK
    <3> QED BY <2>1, <3>1 DEF HandleOK, Alive, Flags
  <2> HIDE DEF IInv
  <2> QED BY <1>0, <1>2, <2>1, <2>2, <2>3, GiveStep
<1>7. CASE Again(r)
  <2>1. /\ mFlag' = [mFlag EXCEPT ![h] = @ \ {Sync(t)}]
        /\ where' = [where EXCEPT ![r] = QueueOf(t)]
        /\ timeHub' \subseteq timeHub \cup {h}
        /\ due' \subseteq due
        /\ UNCHANGED <<mGrab, mFly, node, mHandle, mType, loopGrab, loopFly,
                       mStop, torn, polled, pc, cb>>
    BY <1>7 DEF Again, RelinkTime
  <2>2. QueueOf(t) \in Places \ {"free"}
    BY DEF QueueOf, Places
  <2>3. TypeOK'
    BY <1>1, <2>1, <2>2 DEF TypeOK
  <2>4. DoneOK'
    BY <1>1, <2>1 DEF DoneOK
  <2>5. \A x \in Handles : \A g \in Flags \ {"SYNC_READ", "SYNC_WRITE"} :
          g \in mFlag'[x] <=> g \in mFlag[x]
    BY <2>1 DEF TypeOK, Sync
  <2>6. \A x \in Requests : where'[x] = "free" <=> where[x] = "free"
    BY <1>1, <2>1, <2>2 DEF TypeOK
  <2>7. Calling' <=> Calling
    BY <2>1 DEF Calling
  <2> HIDE DEF IInv
  <2> QED BY <2>1, <2>3, <2>4, <2>5, <2>6, <2>7, QuietStep
<1> QED BY <1>4, <1>5, <1>6, <1>7 DEF RequestStep

\* A request's callback returns to updatePending().
LEMMA ReturnKeeps ==
    ASSUME IInv, RequestReturn
    PROVE  IInv'
<1> USE DEF IInv
<1>1. PICK h \in Handles : h = cb.h
  BY DEF TypeOK, CallRecord
<1>2. /\ cb.kind \in {"req", "ret"}
      /\ cb' = NoCall
      /\ mFly' = [mFly EXCEPT ![h] = @ - 1]
      /\ loopFly' = loopFly - 1
      /\ node' = IF mGrab[h] = 0 /\ mFly[h] - 1 = 0
                 THEN [node EXCEPT ![h] = "close"] ELSE node
      /\ mFlag' = mFlag \/ mFlag' = [mFlag EXCEPT ![h] = @ \cup {Sync(cb.type)}]
      /\ timeHub' \subseteq timeHub \cup {h}
      /\ UNCHANGED <<mGrab, mHandle, mType, loopGrab, mStop, torn, due, polled,
                     pc>>
  BY <1>1 DEF RequestReturn, AddClose, RelinkTime
<1>3. /\ where' \in [Requests -> Places]
      /\ \A x \in Requests : where'[x] = "free" <=> where[x] = "free"
  <2>1. \/ where' = where
        \/ \E r \in Queue(cb.h, QueueOf(cb.type)) :
              where' = [where EXCEPT ![r] = "cur"]
    BY DEF RequestReturn
  <2>2. \A r \in Queue(cb.h, QueueOf(cb.type)) : r \in Requests /\ where[r] # "free"
    BY DEF Queue, QueueOf
  <2> QED BY <2>1, <2>2 DEF TypeOK, Places
<1>4. NoCall \in CallRecord /\ NoCall.kind = "none"
  BY ConstantsOK DEF NoCall, CallRecord, CbKinds, ReqTypes
<1>5. Calling /\ ~Calling'
  BY <1>2, <1>4 DEF Calling
<1>6. FlyCounted' /\ mFly[h] > 0 /\ loopFly > 0
  BY <1>1, <1>2, <1>3, <1>5, FlyReturned
<1>7. node[h] = "active"
  BY <1>6 DEF HandleOK, TypeOK
<1>8. TypeOK'
  <2>1. mFly' \in [Handles -> Nat] /\ loopFly' \in Nat
    BY <1>2, <1>6 DEF TypeOK
  <2>2. node' \in [Handles -> Nodes] /\ timeHub' \subseteq Handles
    BY <1>2 DEF TypeOK, Nodes
  <2>3. mFlag' \in [Handles -> SUBSET Flags]
    BY <1>2 DEF TypeOK, Sync, Flags
  <2> QED BY <1>2, <1>3, <1>4, <2>1, <2>2, <2>3 DEF TypeOK
<1>9. LoopCountsHandles'
  BY <1>2, <1>4, <1>7, LinkedKept
<1>10. \A x \in Handles : HandleOK(x)'
  <2>1. HandleOK(h)'
    BY <1>2, <1>6, <1>7 DEF HandleOK, Alive, Sync, TypeOK
  <2>2. \A x \in Handles \ {h} : HandleOK(x)'
    BY <1>2 DEF HandleOK, Alive, TypeOK
  <2> QED BY <2>1, <2>2
<1>11. CmdOwned' /\ DoneOK'
  BY <1>2, <1>3, <1>4 DEF CmdOwned, DoneOK
<1> QED BY <1>6, <1>8, <1>9, <1>10, <1>11

\* Loop::onRead has run its commands and posts its read again.
LEMMA CmdKeeps ==
    ASSUME IInv, CmdDone
    PROVE  IInv'
<1>1. /\ cb.kind = "req" /\ cb.h = CMD
      /\ cb'.kind = "ret" /\ cb'.h = CMD /\ cb' \in CallRecord
      /\ UNCHANGED <<mGrab, node, timeHub, loopGrab, mStop, torn, due, polled,
                     pc>>
  BY DEF CmdDone, IInv, TypeOK, CallRecord, CbKinds
<1>2. Calling /\ Calling'
  BY <1>1 DEF Calling
<1>3. CASE mStop
  <2>1. UNCHANGED <<mFlag, mFly, reqVars, loopFly>>
    BY <1>3 DEF CmdDone
  <2>2. TypeOK' /\ DoneOK'
    BY <1>1, <2>1 DEF IInv, TypeOK, DoneOK, reqVars
  <2> QED BY <1>1, <1>2, <2>1, <2>2, QuietStep DEF reqVars
<1>4. CASE ~mStop
  <2>1. "READABLE" \in mFlag[CMD] /\ Post(CMD, ReadCMD, "read", where)
    BY <1>4 DEF CmdDone
  <2>2. where[ReadCMD] = "free" /\ CMD \in Handles /\ ReadCMD \in Requests
    BY <1>1, ConstantsOK DEF IInv, CmdOwned
  <2>3. "read" \in ReqTypes \ {"connect"} /\ Ready("read") = "READABLE"
    BY DEF ReqTypes, Ready
  <2> QED BY <1>1, <1>2, <2>1, <2>2, <2>3, PostStep
<1> QED BY <1>3, <1>4

\* updateClosed().
LEMMA ClosedKeeps ==
    ASSUME IInv,
           BeginClosed \/ (\E h \in Handles : CloseCall(h)) \/ CloseReturn
    PROVE  IInv'
<1> USE DEF IInv, reqVars
<1>1. NoCall \in CallRecord /\ NoCall.kind = "none"
  BY ConstantsOK DEF NoCall, CallRecord, CbKinds, ReqTypes
<1>2. CASE BeginClosed
  <2>1. /\ node' = [h \in Handles |-> IF node[h] = "close" THEN "list" ELSE node[h]]
        /\ UNCHANGED <<mFlag, mGrab, mFly, timeHub, reqVars, loopGrab, loopFly,
                       mStop, torn, due, polled, cb>>
        /\ pc' = "closed" /\ cb.kind = "none"
    BY <1>1, <1>2 DEF BeginClosed
  <2>2. TypeOK' /\ DoneOK'
    BY <2>1 DEF TypeOK, Nodes, Phases, DoneOK
  <2>3. \A h \in Handles : /\ node'[h] = "none" <=> node[h] = "none"
                           /\ node'[h] = "active" <=> node[h] = "active"
    BY <2>1 DEF TypeOK
  <2> HIDE DEF IInv
  <2> QED BY <2>1, <2>2, <2>3, QuietStep DEF Calling
<1>3. ASSUME NEW h \in Handles, CloseCall(h)
      PROVE  IInv'
  <2>1. /\ node[h] = "list" /\ cb.kind = "none"
        /\ node' = [node EXCEPT ![h] = "none"]
        /\ mFlag' = [mFlag EXCEPT ![h] = @ \cup {"CLOSE"}]
        /\ UNCHANGED <<mGrab, mFly, timeHub, reqVars, loopGrab, loopFly, mStop,
                       torn, due, polled, pc>>
        /\ cb' = [kind |-> "close", h |-> h, type |-> "read", more |-> FALSE,
                  err |-> FALSE]
        /\ pc = "closed"
    BY <1>1, <1>3 DEF CloseCall, Call
  <2>2. TypeOK' /\ DoneOK' /\ CmdOwned'
    BY <2>1 DEF TypeOK, Nodes, Flags, CallRecord, CbKinds, ReqTypes, DoneOK, CmdOwned
  <2>3. FlyCounted'
    BY <2>1, FlyKept DEF Calling
  <2>4. Linked' = Linked \ {h} /\ h \in Linked
    BY <2>1 DEF Linked, TypeOK
  <2>5. Cardinality(Linked') = Cardinality(Linked) - 1
    BY <2>4, Finite, OneFewer
  <2>6. LoopCountsHandles'
    BY <2>1, <2>5, Finite DEF LoopCountsHandles
  <2>7. \A x \in Handles : HandleOK(x)'
    <3>1. HandleOK(h)'
      BY <2>1 DEF HandleOK, Alive, TypeOK
    <3>2. \A x \in Handles \ {h} : HandleOK(x)'
      BY <2>1 DEF HandleOK, Alive, TypeOK
    <3> QED BY <3>1, <3>2
  <2> QED BY <2>2, <2>3, <2>6, <2>7
<1>4. CASE CloseReturn
  <2>1. /\ cb.kind = "close" /\ cb' = NoCall
        /\ loopGrab' = loopGrab - 1
        /\ UNCHANGED <<handleVars, reqVars, loopFly, mStop, torn, due, polled,
                       pc>>
    BY <1>4 DEF CloseReturn
  <2>2. /\ loopGrab = Cardinality(Linked) + 1 + (IF torn THEN 1 ELSE 0)
        /\ Linked' = Linked
    BY <2>1 DEF LoopCountsHandles, Linked, handleVars
  <2>3. LoopCountsHandles' /\ loopGrab' \in Nat
    BY <1>1, <2>1, <2>2, Finite DEF LoopCountsHandles
  <2>4. TypeOK' /\ DoneOK' /\ CmdOwned'
    BY <1>1, <2>1, <2>3 DEF TypeOK, DoneOK, CmdOwned, handleVars
  <2>5. FlyCounted'
    BY <1>1, <2>1, FlyKept DEF Calling, handleVars
  <2>6. \A x \in Handles : HandleOK(x)'
    BY <2>1 DEF HandleOK, Alive, handleVars
  <2> QED BY <2>3, <2>4, <2>5, <2>6
<1> QED BY <1>2, <1>3, <1>4

\* epoll_wait reports a handle.
LEMMA EventKeeps ==
    ASSUME IInv, NEW h \in Handles, NEW q \in Directions, Event(h, q)
    PROVE  IInv'
<1>1. /\ mFlag' = mFlag \/ mFlag' = [mFlag EXCEPT ![h] = @ \cup {Sync(q)}]
      /\ polled' = polled \cup {<<h, q>>}
      /\ due' = due \cup {<<h, q>>}
      /\ UNCHANGED <<mGrab, mFly, node, timeHub, mHandle, mType, loopGrab,
                     loopFly, mStop, torn, pc, cb>>
      /\ pc = "poll"
  BY DEF Event, Remember
<1>2. /\ where' \in [Requests -> Places]
      /\ \A x \in Requests : where'[x] = "free" <=> where[x] = "free"
  <2>1. where' = where \/ \E r \in Queue(h, q) : where' = [where EXCEPT ![r] = "pend"]
    BY DEF Event
  <2>2. \A r \in Queue(h, q) : r \in Requests /\ where[r] # "free"
    BY DEF Directions, Queue
  <2> QED BY <2>1, <2>2 DEF IInv, TypeOK, Places
<1>3. TypeOK'
  <2>1. mFlag' \in [Handles -> SUBSET Flags]
    BY <1>1 DEF IInv, TypeOK, Sync, Flags
  <2> QED BY <1>1, <1>2, <2>1 DEF IInv, TypeOK, Directions
<1>4. DoneOK'
  BY <1>1 DEF DoneOK
<1>5. \A x \in Handles : \A g \in Flags \ {"SYNC_READ", "SYNC_WRITE"} :
        g \in mFlag'[x] <=> g \in mFlag[x]
  BY <1>1 DEF IInv, TypeOK, Sync
<1>6. Calling' <=> Calling
  BY <1>1 DEF Calling
<1> QED BY <1>1, <1>2, <1>3, <1>4, <1>5, <1>6, QuietStep

\* The invariant holds at the start ...
LEMMA Starts ==
    ASSUME Init
    PROVE  IInv
<1> USE DEF Init
<1>1. CMD \in Handles /\ ReadCMD \in Requests
  BY ConstantsOK
<1>2. TypeOK
  BY <1>1 DEF TypeOK, OpenFlags, Flags, Nodes, Places, ReqTypes, Phases, CallRecord,
              CbKinds, NoCall
<1>3. Held = {ReadCMD} /\ InFlight(CMD) = {ReadCMD}
      /\ \A h \in Handles \ {CMD} : InFlight(h) = {}
  BY <1>1 DEF Held, InFlight
<1>4. Linked = {CMD}
  BY <1>1 DEF Linked
<1>5. Cardinality({ReadCMD}) = 1 /\ Cardinality({CMD}) = 1
  BY FS_Singleton
<1>6. ~Calling /\ cb.kind = "init"
  BY DEF Calling, NoCall
<1>7. FlyCounted
  BY <1>3, <1>5, <1>6, FS_EmptySet DEF FlyCounted
<1>8. LoopCountsHandles
  BY <1>4, <1>5, <1>6 DEF LoopCountsHandles
<1>9. \A h \in Handles : HandleOK(h)
  BY DEF HandleOK, Alive, OpenFlags
<1>10. CmdOwned /\ DoneOK
  BY <1>1, <1>6 DEF CmdOwned, DoneOK
<1> QED BY <1>2, <1>7, <1>8, <1>9, <1>10 DEF IInv

\* ... and every step keeps it.
LEMMA Inductive ==
    ASSUME IInv, [Next]_vars
    PROVE  IInv'
<1>1. CASE ~torn /\ UserStep
  BY <1>1, UserKeeps
<1>2. CASE LoopStep
  <2>1. ASSUME NEW r \in Requests, RequestStep(r)
        PROVE  IInv'
    BY <2>1, RequestKeeps, LoopKeeps
  <2>2. CASE \/ InitReturn \/ TimerAgain \/ EndTimers \/ BeginPending
             \/ StopEnd \/ EndTick
    BY <2>2, LoopKeeps
  <2>3. CASE TimerClose
    <3>1. /\ CloseHandle(cb.h, mFlag, where, mFly[cb.h])
          /\ cb.kind = "time" /\ cb' = NoCall
          /\ UNCHANGED <<mFly, mHandle, mType, loopGrab, loopFly, mStop, torn,
                         polled, pc>>
          /\ cb.h \in Handles
      BY <2>3 DEF TimerClose, IInv, TypeOK, CallRecord
    <3> QED BY <3>1, CloseStep
  <2>4. ASSUME NEW h \in Handles, StopClose(h)
        PROVE  IInv'
    <3>1. /\ CloseHandle(h, mFlag, where, mFly[h])
          /\ cb.kind = "stop" /\ cb' = cb
          /\ UNCHANGED <<mFly, mHandle, mType, loopGrab, loopFly, mStop, torn,
                         polled, pc>>
      BY <2>4 DEF StopClose
    <3> QED BY <3>1, CloseStep
  <2>5. CASE RequestReturn
    BY <2>5, ReturnKeeps
  <2>6. CASE CmdDone
    BY <2>6, CmdKeeps
  <2>7. CASE BeginClosed \/ (\E h \in Handles : CloseCall(h)) \/ CloseReturn
    BY <2>7, ClosedKeeps
  <2> QED BY <1>2, <2>1, <2>2, <2>3, <2>4, <2>5, <2>6, <2>7 DEF LoopStep
<1>3. CASE CmdStop \/ \E h \in Handles : TimerFire(h)
  BY <1>3, LoopKeeps
<1>4. CASE \E h \in Handles, q \in Directions : Event(h, q)
  BY <1>4, EventKeeps DEF Directions
<1>5. CASE UNCHANGED vars
  <2>1. TypeOK' /\ DoneOK'
    BY <1>5 DEF IInv, TypeOK, DoneOK, vars, handleVars, reqVars
  <2> QED BY <1>5, <2>1, QuietStep DEF vars, handleVars, reqVars, Calling
<1> QED BY <1>1, <1>2, <1>3, <1>4, <1>5 DEF Next, Finished

-----------------------------------------------------------------------------
(* Requests that wait for an event.                                        *)

\* A request that waits belongs to a handle that still gets events, and not
\* beside an edge that is remembered.
WaitersAlive ==
    \A r \in Requests : where[r] \in {"read", "write"} => Alive(mHandle[r])
NotBeside ==
    \A h \in Handles : Alive(h) /\ ~Connecting(h) =>
        \A q \in {"read", "write"} : Sync(q) \in mFlag[h] => Queue(h, q) = {}

\* While a connection is being made nothing else is in flight for its handle
\* (the application waits for the callback), and its callback does not make
\* the loop go on with a queue.
ConnectAlone ==
    \A r, x \in Requests :
        mType[r] = "connect" /\ where[r] # "free"
            /\ where[x] # "free" /\ mHandle[x] = mHandle[r] => x = r
ConnectGoesNotOn == cb.type = "connect" => ~cb.more

EdgeInv == WaitersAlive /\ NotBeside /\ ConnectAlone /\ ConnectGoesNotOn

\* In the callback of a failed connect the handle is closing and nothing is in
\* flight for it, until the application opens it again.
ErrorAlone ==
    ~torn /\ cb.kind = "req" /\ cb.type = "connect" /\ cb.err =>
        /\ ~Alive(cb.h)
        /\ \A r \in Requests : mHandle[r] = cb.h => where[r] = "free"

\* It survives a step that opens nothing and takes no request.
LEMMA ErrorAloneKept ==
    ASSUME ErrorAlone, cb' = cb, torn' = torn, mHandle' = mHandle,
           cb.h \in Handles,
           \A r \in Requests : where[r] = "free" => where'[r] = "free",
           \A x \in Handles : Alive(x)' => Alive(x)
    PROVE  ErrorAlone'
BY DEF ErrorAlone

\* closeHandle() frees no request and makes no handle alive.
LEMMA CloseTakesNone ==
    ASSUME TypeOK, NEW h \in Handles,
           NEW f \in [Handles -> SUBSET Flags],
           NEW w \in [Requests -> Places],
           \A x \in Handles \ {h} : f[x] = mFlag[x],
           \A g \in {"OPEN", "CLOSING", "CLOSE"} : g \in f[h] <=> g \in mFlag[h],
           CloseHandle(h, f, w, mFly[h])
    PROVE  /\ ~Alive(h)'
           /\ \A x \in Handles : Alive(x)' => Alive(x)
           /\ \A r \in Requests : w[r] = "free" => where'[r] = "free"
BY DEF CloseHandle, Ended, ClosingFlags, Alive, TypeOK, PendAll

\* The application opens a handle for which nothing is in flight, and whose
\* callback, if one is running, will not go on with a queue.
LEMMA OpensAlone ==
    ASSUME IInv, EdgeInv, ErrorAlone, ~torn, NEW h \in Handles, MayOpen(h)
    PROVE  /\ ~Alive(h) /\ h # CMD
           /\ \A r \in Requests : mHandle[r] = h => where[r] = "free"
           /\ Calling /\ cb.h = h => ~cb.more /\ node[h] # "none"
<1> USE DEF IInv
<1>1. Calling /\ cb.h = h => node[h] = "active"
  BY Finite DEF FlyCounted, HandleOK, TypeOK
<1>2. CASE node[h] = "none"
  BY <1>1, <1>2, InFlightActive DEF MayOpen, HandleOK
<1>3. CASE ConnectFailed(h)
  BY <1>1, <1>3 DEF ConnectFailed, ErrorAlone, EdgeInv, ConnectGoesNotOn, MayOpen
<1> QED BY <1>2, <1>3 DEF MayOpen

\* Every step keeps it.
LEMMA ErrorAloneInductive ==
    ASSUME IInv, EdgeInv, ErrorAlone, [Next]_vars
    PROVE  ErrorAlone'
<1> USE DEF IInv, handleVars, reqVars
<1>0. cb.h \in Handles /\ cb \in CallRecord
  BY DEF TypeOK, CallRecord
<1>1. ASSUME NEW h \in Handles, Close(h) \/ StopClose(h)
      PROVE  ErrorAlone'
  <2>1. /\ CloseHandle(h, mFlag, where, mFly[h])
        /\ UNCHANGED <<mHandle, torn, cb>>
    BY <1>1 DEF Close, StopClose
  <2>2. /\ \A x \in Handles : Alive(x)' => Alive(x)
        /\ \A r \in Requests : where[r] = "free" => where'[r] = "free"
    BY <2>1, CloseTakesNone DEF TypeOK
  <2> QED BY <1>0, <2>1, <2>2, ErrorAloneKept
<1>2. ASSUME NEW h \in Handles, ~torn, OpenRefused(h) \/ OpenFails(h)
      PROVE  ErrorAlone'
  <2>1. MayOpen(h) /\ UNCHANGED <<mHandle, torn, cb, where>>
    BY <1>2 DEF OpenRefused, OpenFails, CanOpen
  <2>2. \A x \in Handles : Alive(x)' => Alive(x)
    BY <1>2, <2>1 DEF OpenRefused, OpenFails, Alive, TypeOK
  <2> QED BY <1>0, <2>1, <2>2, ErrorAloneKept
<1>3. ASSUME NEW h \in Handles, ~torn,
             \/ Open(h)
             \/ \E r \in Requests : OpenConnect(h, r) \/ OpenConnectFails(h, r)
      PROVE  ErrorAlone'
  <2>1. /\ MayOpen(h) /\ cb' = cb /\ (torn' <=> node[h] # "none")
        /\ \A x \in Handles \ {h} : mFlag'[x] = mFlag[x]
        /\ \A x \in Requests :
              mHandle'[x] = h \/ (where'[x] = where[x] /\ mHandle'[x] = mHandle[x])
    <3>1. CASE Open(h)
      BY <1>3, <3>1 DEF Open, CanOpen, Link, TypeOK
    <3>2. ASSUME NEW r \in Requests, OpenConnect(h, r) \/ OpenConnectFails(h, r)
          PROVE  <2>1!:
      <4>1. /\ MayOpen(h) /\ cb' = cb /\ Link(h)
            /\ mHandle' = [mHandle EXCEPT ![r] = h]
        BY <3>2 DEF OpenConnect, OpenConnectFails, CanOpen, Issue
      <4>2. torn' <=> node[h] # "none"
        BY <1>3, <4>1 DEF Link
      <4>3. \A x \in Handles \ {h} : mFlag'[x] = mFlag[x]
        BY <3>2 DEF OpenConnect, OpenConnectFails, TypeOK
      <4>4. \A x \in Requests \ {r} : where'[x] = where[x] /\ mHandle'[x] = mHandle[x]
        BY <3>2, <4>1 DEF OpenConnect, OpenConnectFails, TypeOK
      <4>5. mHandle'[r] = h
        BY <4>1 DEF TypeOK
      <4> QED BY <4>1, <4>2, <4>3, <4>4, <4>5
    <3> QED BY <1>3, <3>1, <3>2
  <2>2. SUFFICES ASSUME ~torn', cb.kind = "req", cb.type = "connect", cb.err
                 PROVE  /\ ~Alive(cb.h)'
                        /\ \A r \in Requests :
                              mHandle'[r] = cb.h => where'[r] = "free"
    BY <2>1 DEF ErrorAlone
  <2>3. cb.h # h
    BY <1>3, <2>1, <2>2, OpensAlone DEF Calling
  <2> QED BY <1>0, <1>3, <2>1, <2>2, <2>3 DEF ErrorAlone, Alive
<1>4. ASSUME NEW h \in Handles, NEW r \in Requests, NEW t \in ReqTypes,
             Request(h, r, t)
      PROVE  ErrorAlone'
  <2>1. /\ where[r] = "free" /\ Ready(t) \in mFlag[h]
        /\ Post(h, r, t, where) /\ UNCHANGED <<torn, cb>>
    BY <1>4 DEF Request
  <2>2. /\ Alive(h) /\ mHandle'[r] = h
        /\ \A x \in Requests \ {r} : mHandle'[x] = mHandle[x]
    BY <2>1 DEF HandleOK, Ready, Post, Issue, TypeOK
  <2>3. \A x \in Requests \ {r} : where[x] = "free" => where'[x] = "free"
    <3>1. CASE Sync(t) \in mFlag[h]
      <4>1. PICK q \in {r} \cup Queue(h, QueueOf(t)) :
              where' = [where EXCEPT ![r] = QueueOf(t), ![q] = "pend"]
        BY <2>1, <3>1 DEF Post
      <4>2. q \in Requests /\ (q # r => where[q] # "free")
        BY <4>1 DEF Queue, QueueOf
      <4> QED BY <4>1, <4>2 DEF TypeOK
    <3>2. CASE Sync(t) \notin mFlag[h]
      BY <2>1, <3>2 DEF Post, TypeOK
    <3> QED BY <3>1, <3>2
  <2>4. \A x \in Handles : Alive(x)' <=> Alive(x)
    BY <2>1 DEF Post, Alive, Sync, TypeOK
  <2> QED BY <1>0, <2>1, <2>2, <2>3, <2>4 DEF ErrorAlone
<1>5. ASSUME NEW r \in Requests, ConnectError(r)
      PROVE  ErrorAlone'
  <2> DEFINE h == mHandle[r]
  <2>1. /\ CloseHandle(h, mFlag, Given(r), mFly[h])
        /\ cb'.h = h /\ UNCHANGED mHandle
        /\ where[r] = "cur" /\ mType[r] = "connect" /\ h \in Handles
    BY <1>5 DEF ConnectError, Call, Current, TypeOK
  <2>2. /\ Given(r) \in [Requests -> Places] /\ Given(r)[r] = "free"
        /\ \A x \in Requests : where[x] = "free" => Given(r)[x] = "free"
    BY DEF Given, TypeOK, Places
  <2>3. /\ ~Alive(h)'
        /\ \A x \in Requests : Given(r)[x] = "free" => where'[x] = "free"
    BY <2>1, <2>2, CloseTakesNone DEF TypeOK
  <2>4. \A x \in Requests : mHandle[x] = h => Given(r)[x] = "free"
    BY <2>1, <2>2 DEF EdgeInv, ConnectAlone
  <2> QED BY <2>1, <2>3, <2>4 DEF ErrorAlone
<1>6. ASSUME NEW r \in Requests,
             Connected(r) \/ Complete(r) \/ ShortRead(r) \/ Fail(r) \/ Refuse(r)
      PROVE  ErrorAlone'
  <2>1. \/ cb'.type # "connect" \/ cb'.err = FALSE
    BY <1>6 DEF Connected, Complete, ShortRead, Fail, Refuse, Call
  <2> QED BY <2>1 DEF ErrorAlone
<1>7. CASE \/ InitReturn \/ TimerAgain \/ TimerClose \/ RequestReturn
           \/ CmdStop \/ CmdDone \/ CloseReturn
           \/ (\E h \in Handles : CloseCall(h) \/ TimerFire(h))
  <2>1. cb'.kind # "req"
    <3>1. CASE InitReturn \/ TimerAgain \/ TimerClose \/ RequestReturn \/ CloseReturn
      BY <3>1 DEF InitReturn, TimerAgain, TimerClose, RequestReturn, CloseReturn,
         NoCall
    <3>2. CASE CmdStop \/ CmdDone
      BY <3>2, <1>0 DEF CmdStop, CmdDone, CallRecord
    <3>3. ASSUME NEW h \in Handles, CloseCall(h) \/ TimerFire(h)
          PROVE  cb'.kind # "req"
      BY <3>3 DEF CloseCall, TimerFire, Call
    <3> QED BY <1>7, <3>1, <3>2, <3>3
  <2> QED BY <2>1 DEF ErrorAlone
<1>8. CASE StopEnd
  <2>1. cb'.kind = "req" => ~cb'.err
    BY <1>8, <1>0 DEF StopEnd, CallRecord
  <2> QED BY <2>1 DEF ErrorAlone
<1>9. CASE \/ EndTimers \/ BeginPending \/ BeginClosed \/ EndTick
           \/ (\E r \in Requests : NextRequest(r) \/ Again(r))
           \/ (\E h \in Handles, q \in Directions : Event(h, q))
           \/ UNCHANGED vars
  <2>1. UNCHANGED <<cb, torn, mHandle>>
    BY <1>9 DEF EndTimers, BeginPending, BeginClosed, EndTick, NextRequest, Again,
       Event, vars
  <2>2. \A r \in Requests : where[r] = "free" => where'[r] = "free"
    <3>1. CASE EndTimers \/ BeginPending \/ BeginClosed \/ EndTick \/ UNCHANGED vars
      BY <3>1 DEF EndTimers, BeginPending, BeginClosed, EndTick, vars
    <3>2. ASSUME NEW r \in Requests, NextRequest(r) \/ Again(r)
          PROVE  <2>2!:
      BY <3>2 DEF NextRequest, Again, Current, TypeOK
    <3>3. ASSUME NEW h \in Handles, NEW q \in Directions, Event(h, q)
          PROVE  <2>2!:
      BY <3>3 DEF Event, Queue, Directions, TypeOK
    <3> QED BY <1>9, <3>1, <3>2, <3>3
  <2>3. \A x \in Handles : Alive(x)' => Alive(x)
    <3>1. CASE EndTimers \/ BeginPending \/ BeginClosed \/ EndTick \/ UNCHANGED vars
      BY <3>1 DEF EndTimers, BeginPending, BeginClosed, EndTick, vars, Alive
    <3>2. ASSUME NEW r \in Requests, NextRequest(r) \/ Again(r)
          PROVE  <2>3!:
      BY <3>2 DEF NextRequest, Again, Alive, Sync, TypeOK
    <3>3. ASSUME NEW h \in Handles, NEW q \in Directions, Event(h, q)
          PROVE  <2>3!:
      BY <3>3 DEF Event, Remember, Alive, Sync, TypeOK
    <3> QED BY <1>9, <3>1, <3>2, <3>3
  <2> QED BY <1>0, <2>1, <2>2, <2>3, ErrorAloneKept
<1> QED
  BY <1>1, <1>2, <1>3, <1>4, <1>5, <1>6, <1>7, <1>8, <1>9
  DEF Next, UserStep, LoopStep, RequestStep, Read, Write, Accept, ReqTypes,
      Finished

\* A step after which no request waits that did not before, and in which no
\* edge is remembered beside one that waits.
LEMMA EdgesKept ==
    ASSUME IInv, EdgeInv, mHandle' = mHandle, mType' = mType,
           \A r \in Requests : where'[r] \in {"read", "write"} =>
               where[r] = where'[r] /\ Alive(mHandle[r])',
           \A r \in Requests : where[r] = "free" => where'[r] = "free",
           \A h \in Handles, q \in {"read", "write"} :
               Alive(h)' /\ Sync(q) \in mFlag'[h] =>
                   \/ Queue(h, q)' = {}
                   \/ Alive(h) /\ Sync(q) \in mFlag[h],
           ConnectGoesNotOn'
    PROVE  EdgeInv'
<1> USE DEF EdgeInv
<1>1. WaitersAlive'
  BY DEF WaitersAlive
<1>2. ConnectAlone'
  BY DEF ConnectAlone
<1>3. ASSUME NEW h \in Handles, Alive(h)', ~Connecting(h)',
             NEW q \in {"read", "write"}, Sync(q) \in mFlag'[h]
      PROVE  Queue(h, q)' = {}
  <2>1. CASE Connecting(h)
    <3>1. PICK r \in Requests :
            mHandle[r] = h /\ mType[r] = "connect" /\ where[r] # "free"
      BY <2>1 DEF Connecting
    <3>2. where'[r] = "free"
      BY <1>3, <3>1 DEF Connecting
    <3>3. \A x \in Requests : mHandle[x] = h => where'[x] = "free"
      BY <3>1, <3>2 DEF ConnectAlone
    <3> QED BY <3>3 DEF Queue
  <2>2. CASE Alive(h) /\ Sync(q) \in mFlag[h] /\ ~Connecting(h)
    <3>1. Queue(h, q) = {}
      BY <2>2 DEF NotBeside
    <3> QED BY <3>1 DEF Queue
  <2> QED BY <1>3, <2>1, <2>2
<1>4. NotBeside'
  BY <1>3 DEF NotBeside
<1> QED BY <1>1, <1>2, <1>4

\* closeHandle(): what waited is pending, and the handle gets no more edges.
LEMMA EdgesClosed ==
    ASSUME IInv, EdgeInv, NEW h \in Handles,
           NEW f \in [Handles -> SUBSET Flags],
           NEW w \in [Requests -> Places],
           \A x \in Handles \ {h} : f[x] = mFlag[x],
           f[h] \subseteq mFlag[h],
           \A g \in {"OPEN", "CLOSING", "CLOSE"} : g \in f[h] <=> g \in mFlag[h],
           \A r \in Requests : w[r] = where[r] \/ w[r] = "free",
           CloseHandle(h, f, w, mFly[h]),
           mHandle' = mHandle, mType' = mType,
           ConnectGoesNotOn'
    PROVE  EdgeInv'
<1>1. ~Alive(h)' /\ \A x \in Handles \ {h} : mFlag'[x] = mFlag[x]
  BY DEF CloseHandle, Ended, ClosingFlags, Alive, IInv, TypeOK
<1>2. \A r \in Requests : where'[r] \in {"read", "write"} => where'[r] = w[r]
  BY DEF CloseHandle, PendAll
<1>3. ASSUME NEW r \in Requests, where'[r] \in {"read", "write"}
      PROVE  where[r] = where'[r] /\ Alive(mHandle[r])'
  <2>1. where[r] = where'[r] /\ Alive(mHandle[r])
    BY <1>2, <1>3 DEF EdgeInv, WaitersAlive
  <2>2. mHandle[r] # h
    BY <1>3, <2>1 DEF CloseHandle, PendAll, Ended, Alive
  <2> QED BY <1>1, <2>1, <2>2 DEF Alive, IInv, TypeOK
<1>4. \A r \in Requests : where[r] = "free" => where'[r] = "free"
  BY DEF CloseHandle, PendAll
<1>5. \A x \in Handles, q \in {"read", "write"} :
        Alive(x)' /\ Sync(q) \in mFlag'[x] => Alive(x) /\ Sync(q) \in mFlag[x]
  BY <1>1 DEF Alive
<1> QED BY <1>3, <1>4, <1>5, EdgesKept

\* read(), write(), accept(): a request waits for an edge only when none is
\* remembered.
LEMMA EdgesPosted ==
    ASSUME IInv, EdgeInv, NEW h \in Handles, NEW r \in Requests,
           NEW t \in ReqTypes \ {"connect"},
           where[r] = "free", Ready(t) \in mFlag[h], ~Connecting(h),
           Post(h, r, t, where),
           ConnectGoesNotOn'
    PROVE  EdgeInv'
<1> USE DEF EdgeInv, IInv
<1>1. /\ mHandle' = [mHandle EXCEPT ![r] = h]
      /\ mType' = [mType EXCEPT ![r] = t]
      /\ mHandle'[r] = h /\ mType'[r] = t
      /\ \A x \in Requests \ {r} : mHandle'[x] = mHandle[x] /\ mType'[x] = mType[x]
  BY DEF Post, Issue, TypeOK
<1>2. Alive(h) /\ (QueueOf(t) = IF t = "write" THEN "write" ELSE "read")
  BY DEF HandleOK, Ready, QueueOf
<1>3. /\ \A x \in Handles \ {h} : mFlag'[x] = mFlag[x]
      /\ mFlag'[h] = mFlag[h] \ {Sync(t)}
  BY DEF Post, TypeOK
<1>4. \A x \in Handles : Alive(x)' <=> Alive(x)
  BY <1>3 DEF Alive, Sync
<1>5. /\ \A x \in Requests \ {r} : where'[x] = where[x] \/ (where[x] # "free" /\ where'[x] = "pend")
      /\ where'[r] \in {"pend", QueueOf(t)}
  <2>1. CASE Sync(t) \in mFlag[h]
    <3>1. PICK q \in {r} \cup Queue(h, QueueOf(t)) :
            where' = [where EXCEPT ![r] = QueueOf(t), ![q] = "pend"]
      BY <2>1 DEF Post
    <3>2. q \in Requests /\ (q # r => where[q] # "free")
      BY <3>1 DEF Queue, QueueOf
    <3> QED BY <3>1, <3>2 DEF TypeOK
  <2>2. CASE Sync(t) \notin mFlag[h]
    BY <2>2 DEF Post, TypeOK
  <2> QED BY <2>1, <2>2
<1>6. WaitersAlive'
  BY <1>1, <1>2, <1>4, <1>5 DEF WaitersAlive, TypeOK
<1>7. ConnectAlone'
  BY <1>1, <1>5 DEF ConnectAlone, Connecting, TypeOK
<1>8. ASSUME NEW x \in Handles, Alive(x)', ~Connecting(x)',
             NEW q \in {"read", "write"}, Sync(q) \in mFlag'[x]
      PROVE  Queue(x, q)' = {}
  <2>1. ~Connecting(x)
    BY <1>1, <1>5, <1>8 DEF Connecting
  <2>2. Queue(x, q) = {}
    BY <1>3, <1>4, <1>8, <2>1 DEF NotBeside
  <2>3. r \notin Queue(x, q)'
    BY <1>1, <1>2, <1>3, <1>5, <1>8 DEF Queue, Sync, TypeOK
  <2> QED BY <1>1, <1>5, <2>2, <2>3 DEF Queue
<1>9. NotBeside'
  BY <1>8 DEF NotBeside
<1> QED BY <1>6, <1>7, <1>9

\* The application opens, closes and posts.
LEMMA EdgesUser ==
    ASSUME IInv, EdgeInv, ErrorAlone, ~torn, UserStep
    PROVE  EdgeInv'
<1> USE DEF IInv
<1>0. PICK h \in Handles :
        \/ Close(h) \/ OpenRefused(h) \/ OpenFails(h) \/ Open(h)
        \/ \E r \in Requests :
              Read(h, r) \/ Write(h, r) \/ Accept(h, r)
                         \/ OpenConnect(h, r) \/ OpenConnectFails(h, r)
  BY DEF UserStep
<1>a. MayOpen(h) => \A r \in Requests : mHandle[r] = h => where[r] = "free"
  BY OpensAlone
<1>1. CASE Close(h)
  <2>1. /\ CloseHandle(h, mFlag, where, mFly[h])
        /\ UNCHANGED <<mHandle, mType, cb>>
    BY <1>1 DEF Close
  <2>2. ConnectGoesNotOn'
    BY <2>1 DEF EdgeInv, ConnectGoesNotOn
  <2> QED BY <2>1, <2>2, EdgesClosed DEF TypeOK
<1>2. CASE OpenRefused(h) \/ OpenFails(h) \/ Open(h)
  <2>1. /\ MayOpen(h)
        /\ UNCHANGED <<where, mHandle, mType, cb>>
        /\ \A x \in Handles \ {h} : mFlag'[x] = mFlag[x]
    BY <1>2 DEF OpenRefused, OpenFails, Open, CanOpen, reqVars, TypeOK
  <2>2. \A r \in Requests : mHandle[r] = h => where[r] = "free"
    BY <1>a, <2>1
  <2>3. \A x \in Handles \ {h} : Alive(x)' <=> Alive(x)
    BY <2>1 DEF Alive
  <2>4. \A r \in Requests : where'[r] \in {"read", "write"} =>
          where[r] = where'[r] /\ Alive(mHandle[r])'
    BY <2>1, <2>2, <2>3 DEF EdgeInv, WaitersAlive, TypeOK
  <2>5. \A x \in Handles, q \in {"read", "write"} :
          Alive(x)' /\ Sync(q) \in mFlag'[x] =>
              Queue(x, q)' = {} \/ (Alive(x) /\ Sync(q) \in mFlag[x])
    <3>1. \A q \in {"read", "write"} : Queue(h, q)' = {}
      BY <2>1, <2>2 DEF Queue
    <3> QED BY <2>1, <2>3, <3>1
  <2>6. ConnectGoesNotOn'
    BY <2>1 DEF EdgeInv, ConnectGoesNotOn
  <2> QED BY <2>1, <2>4, <2>5, <2>6, EdgesKept
<1>3. ASSUME NEW r \in Requests, Read(h, r) \/ Write(h, r) \/ Accept(h, r)
      PROVE  EdgeInv'
  <2>1. PICK t \in {"read", "write", "accept"} : Request(h, r, t)
    BY <1>3 DEF Read, Write, Accept
  <2>2. /\ where[r] = "free" /\ Ready(t) \in mFlag[h] /\ ~Connecting(h)
        /\ Post(h, r, t, where) /\ cb' = cb
    BY <2>1 DEF Request
  <2>3. ConnectGoesNotOn'
    BY <2>2 DEF EdgeInv, ConnectGoesNotOn
  <2>4. t \in ReqTypes \ {"connect"}
    BY DEF ReqTypes
  <2> QED BY <2>2, <2>3, <2>4, EdgesPosted
<1>4. ASSUME NEW r \in Requests, OpenConnect(h, r) \/ OpenConnectFails(h, r)
      PROVE  EdgeInv'
  <2>1. /\ MayOpen(h) /\ where[r] = "free"
        /\ mHandle'[r] = h /\ mType'[r] = "connect"
        /\ \A x \in Requests \ {r} :
              /\ where'[x] = where[x]
              /\ mHandle'[x] = mHandle[x] /\ mType'[x] = mType[x]
        /\ \A x \in Handles \ {h} : mFlag'[x] = mFlag[x]
        /\ cb' = cb
    BY <1>4 DEF OpenConnect, OpenConnectFails, CanOpen, Issue, TypeOK
  <2>2. \/ where'[r] \in {"pend", "write"} /\ Alive(h)'
        \/ where'[r] = "lost" /\ ~Alive(h)'
    BY <1>4 DEF OpenConnect, OpenConnectFails, NewFlags, OpenFlags, ClosingFlags,
                Alive, TypeOK
  <2>3. \A x \in Requests : mHandle[x] = h => where[x] = "free"
    BY <1>a, <2>1
  <2>4. \A x \in Handles \ {h} : Alive(x)' <=> Alive(x)
    BY <2>1 DEF Alive
  <2>5. WaitersAlive'
    BY <2>1, <2>2, <2>3, <2>4 DEF EdgeInv, WaitersAlive, TypeOK
  <2>6. ConnectAlone'
    BY <2>1, <2>3 DEF EdgeInv, ConnectAlone
  <2>7. ASSUME NEW x \in Handles, Alive(x)', ~Connecting(x)',
               NEW q \in {"read", "write"}, Sync(q) \in mFlag'[x]
        PROVE  Queue(x, q)' = {}
    <3>1. x # h
      BY <2>1, <2>2, <2>7 DEF Connecting
    <3>2. ~Connecting(x)
      BY <2>1, <2>7, <3>1 DEF Connecting
    <3>3. Queue(x, q) = {}
      BY <2>1, <2>4, <2>7, <3>1, <3>2 DEF EdgeInv, NotBeside
    <3> QED BY <2>1, <3>1, <3>3 DEF Queue
  <2>8. NotBeside' /\ ConnectGoesNotOn'
    BY <2>1, <2>7 DEF NotBeside, EdgeInv, ConnectGoesNotOn
  <2> QED BY <2>5, <2>6, <2>8 DEF EdgeInv
<1> QED BY <1>0, <1>1, <1>2, <1>3, <1>4

\* updatePending() works on a request.
LEMMA EdgesRequest ==
    ASSUME IInv, EdgeInv, NEW r \in Requests, RequestStep(r)
    PROVE  EdgeInv'
<1> DEFINE h == mHandle[r]
           t == mType[r]
<1> USE DEF IInv
<1>1. h \in Handles /\ t \in ReqTypes /\ mHandle' = mHandle /\ mType' = mType
  BY DEF TypeOK, RequestStep, NextRequest, Connected, ConnectError, Complete,
         ShortRead, Again, Fail, Refuse, reqVars
<1>2. /\ Given(r) \in [Requests -> Places]
      /\ \A x \in Requests : Given(r)[x] = where[x] \/ Given(r)[x] = "free"
      /\ Given(r)[r] = "free"
  BY DEF Given, TypeOK, Places
<1>3. \A x \in Requests : where[x] \in {"read", "write"} => Alive(mHandle[x])
  BY DEF EdgeInv, WaitersAlive
<1>4. CASE NextRequest(r)
  <2>1. where' = [where EXCEPT ![r] = "cur"] /\ where[r] = "batch"
        /\ mFlag' = mFlag /\ cb' = cb
    BY <1>4 DEF NextRequest, handleVars
  <2>2. ConnectGoesNotOn'
    BY <2>1 DEF EdgeInv, ConnectGoesNotOn
  <2>3. \A x \in Handles : Alive(x)' <=> Alive(x)
    BY <2>1 DEF Alive
  <2> QED BY <1>1, <1>3, <2>1, <2>2, <2>3, EdgesKept DEF TypeOK
<1>5. CASE Connected(r)
  <2>1. /\ t = "connect" /\ where[r] = "cur" /\ "CLOSING" \notin mFlag[h]
        /\ mFlag' = [mFlag EXCEPT ![h] = @ \cup
                        {"READABLE", "WRITEABLE", "SYNC_WRITE"}]
        /\ where' = Given(r)
        /\ cb' = [kind |-> "req", h |-> h, type |-> "connect", more |-> FALSE,
                  err |-> FALSE]
    BY <1>5 DEF Connected, Current, Call
  <2>2. ConnectGoesNotOn'
    BY <2>1 DEF ConnectGoesNotOn
  <2>3. \A x \in Requests : mHandle[x] = h => where'[x] = "free"
    BY <1>2, <2>1 DEF EdgeInv, ConnectAlone
  <2>4. \A x \in Handles : Alive(x)' <=> Alive(x)
    BY <2>1 DEF Alive, TypeOK
  <2>5. \A x \in Handles, q \in {"read", "write"} :
          Alive(x)' /\ Sync(q) \in mFlag'[x] =>
              Queue(x, q)' = {} \/ (Alive(x) /\ Sync(q) \in mFlag[x])
    <3>1. \A x \in Handles, q \in {"read", "write"} : x = h => Queue(x, q)' = {}
      BY <1>1, <2>3 DEF Queue
    <3>2. \A x \in Handles \ {h} : mFlag'[x] = mFlag[x]
      BY <2>1
    <3>3. ASSUME NEW x \in Handles, x # h, NEW q \in {"read", "write"},
                 Alive(x)', Sync(q) \in mFlag'[x]
          PROVE  Alive(x) /\ Sync(q) \in mFlag[x]
      BY <2>4, <3>2, <3>3
    <3> QED
      <4> SUFFICES ASSUME NEW x \in Handles, NEW q \in {"read", "write"},
                          Alive(x)' /\ Sync(q) \in mFlag'[x],
                          Queue(x, q)' # {}
                   PROVE  Alive(x) /\ Sync(q) \in mFlag[x]
        OBVIOUS
      <4>1. x # h
        BY <3>1
      <4> QED BY <3>3, <4>1
  <2>6. \A x \in Requests : where'[x] \in {"read", "write"} =>
          where[x] = where'[x] /\ Alive(mHandle[x])'
    <3>1. ASSUME NEW x \in Requests, where'[x] \in {"read", "write"}
          PROVE  where[x] = where'[x] /\ Alive(mHandle[x])'
      <4>1. where'[x] = where[x]
        BY <1>2, <2>1, <3>1
      <4>2. Alive(mHandle[x]) /\ mHandle[x] \in Handles
        BY <1>3, <3>1, <4>1 DEF TypeOK
      <4>3. Alive(mHandle[x])'
        BY <1>1, <2>1, <4>2 DEF Alive, TypeOK
      <4> QED BY <4>1, <4>3
    <3> QED BY <3>1
  <2> QED BY <1>1, <1>2, <2>1, <2>2, <2>5, <2>6, EdgesKept
<1>6. CASE ConnectError(r)
  <2>1. CloseHandle(h, mFlag, Given(r), mFly[h]) /\ ConnectGoesNotOn'
    BY <1>6 DEF ConnectError, Call, ConnectGoesNotOn
  <2> QED BY <1>1, <1>2, <2>1, EdgesClosed DEF TypeOK
<1>7. CASE Fail(r)
  <2> DEFINE f == [mFlag EXCEPT ![h] = @ \ {Ready(t), Sync(t)}]
  <2>1. CloseHandle(h, f, Given(r), mFly[h]) /\ ConnectGoesNotOn'
    BY <1>7 DEF Fail, Call, ConnectGoesNotOn
  <2>2. /\ f \in [Handles -> SUBSET Flags]
        /\ f[h] \subseteq mFlag[h]
        /\ \A x \in Handles \ {h} : f[x] = mFlag[x]
    BY DEF TypeOK
  <2>3. \A g \in {"OPEN", "CLOSING", "CLOSE"} : g \in f[h] <=> g \in mFlag[h]
    BY <1>1 DEF Ready, Sync, TypeOK
  <2> HIDE DEF f
  <2> QED BY <1>1, <1>2, <2>1, <2>2, <2>3, EdgesClosed
<1>8. CASE Complete(r) \/ ShortRead(r) \/ Refuse(r)
  <2>1. /\ where' = Given(r)
        /\ \A x \in Handles : mFlag'[x] \subseteq mFlag[x] /\ (Alive(x)' <=> Alive(x))
    <3>1. CASE Complete(r)
      BY <3>1 DEF Complete, handleVars, Alive
    <3>2. CASE ShortRead(r)
      BY <3>2 DEF ShortRead, Alive, TypeOK
    <3>3. CASE Refuse(r)
      BY <3>3 DEF Refuse, handleVars, Alive
    <3> QED BY <1>8, <3>1, <3>2, <3>3
  <2>2. ConnectGoesNotOn'
    BY <1>8 DEF Complete, ShortRead, Refuse, Call, ConnectGoesNotOn
  <2> QED BY <1>1, <1>2, <1>3, <2>1, <2>2, EdgesKept DEF TypeOK
<1>9. CASE Again(r)
  <2>1. /\ where[r] = "cur" /\ t # "connect" /\ Ready(t) \in mFlag[h]
        /\ mFlag' = [mFlag EXCEPT ![h] = @ \ {Sync(t)}]
        /\ where' = [where EXCEPT ![r] = QueueOf(t)]
        /\ cb' = cb
    BY <1>9 DEF Again, Current
  <2>2. Alive(h) /\ QueueOf(t) \in {"read", "write"}
    BY <1>1, <2>1 DEF HandleOK, Ready, QueueOf
  <2>3. \A x \in Handles : (Alive(x)' <=> Alive(x)) /\ mFlag'[x] \subseteq mFlag[x]
    BY <2>1 DEF Alive, Sync, TypeOK
  <2>4. WaitersAlive'
    BY <1>1, <1>3, <2>1, <2>2, <2>3 DEF WaitersAlive, TypeOK
  <2>5. ConnectAlone' /\ ConnectGoesNotOn'
    BY <1>1, <2>1, <2>2 DEF EdgeInv, ConnectAlone, ConnectGoesNotOn, TypeOK
  <2>6. ASSUME NEW x \in Handles, Alive(x)', ~Connecting(x)',
               NEW q \in {"read", "write"}, Sync(q) \in mFlag'[x]
        PROVE  Queue(x, q)' = {}
    <3>1. ~Connecting(x)
      BY <1>1, <2>1, <2>2, <2>6 DEF Connecting, TypeOK
    <3>2. Queue(x, q) = {}
      BY <2>3, <2>6, <3>1 DEF EdgeInv, NotBeside
    <3>3. x = h => q # QueueOf(t)
      BY <1>1, <2>1, <2>6 DEF QueueOf, Sync, TypeOK
    <3> QED BY <1>1, <2>1, <3>2, <3>3 DEF Queue, TypeOK
  <2>7. NotBeside'
    BY <2>6 DEF NotBeside
  <2> QED BY <2>4, <2>5, <2>7 DEF EdgeInv
<1> QED BY <1>4, <1>5, <1>6, <1>7, <1>8, <1>9 DEF RequestStep

\* A request's callback returns: an edge is remembered only when no request
\* waits for it.
LEMMA EdgesReturn ==
    ASSUME IInv, EdgeInv, RequestReturn
    PROVE  EdgeInv'
<1> DEFINE t == cb.type
<1> USE DEF IInv
<1>1. PICK h \in Handles : h = cb.h
  BY DEF TypeOK, CallRecord
<1>2. cb' = NoCall /\ mHandle' = mHandle /\ mType' = mType
  BY DEF RequestReturn
<1>3. ConnectGoesNotOn'
  BY <1>2 DEF ConnectGoesNotOn, NoCall
<1>4. /\ \A x \in Requests : where'[x] \in {"read", "write"} => where'[x] = where[x]
      /\ \A x \in Requests : where[x] = "free" => where'[x] = "free"
  <2>1. where' = where \/ \E r \in Queue(h, QueueOf(t)) : where' = [where EXCEPT ![r] = "cur"]
    BY <1>1 DEF RequestReturn
  <2>2. \A r \in Queue(h, QueueOf(t)) : where[r] # "free"
    BY DEF Queue, QueueOf
  <2> QED BY <2>1, <2>2 DEF TypeOK
<1>5. \A x \in Handles : Alive(x)' <=> Alive(x)
  BY DEF RequestReturn, Alive, Sync, TypeOK
<1>6. ASSUME NEW x \in Handles, NEW q \in {"read", "write"},
             Sync(q) \in mFlag'[x], Sync(q) \notin mFlag[x]
      PROVE  Queue(x, q)' = {}
  <2>1. /\ x = h /\ cb.more /\ Sync(q) = Sync(t)
        /\ Queue(h, QueueOf(t)) = {} /\ where' = where
    BY <1>1, <1>6 DEF RequestReturn, TypeOK
  <2>2. t # "connect" /\ t \in ReqTypes
    BY <2>1 DEF EdgeInv, ConnectGoesNotOn, TypeOK, CallRecord
  <2>3. q = QueueOf(t)
    BY <2>1, <2>2 DEF Sync, QueueOf, ReqTypes
  <2> QED BY <1>2, <2>1, <2>3 DEF Queue
<1>7. \A x \in Requests : where'[x] \in {"read", "write"} =>
        where[x] = where'[x] /\ Alive(mHandle[x])'
  BY <1>2, <1>4, <1>5 DEF EdgeInv, WaitersAlive, TypeOK
<1>8. \A x \in Handles, q \in {"read", "write"} :
        Alive(x)' /\ Sync(q) \in mFlag'[x] =>
            Queue(x, q)' = {} \/ (Alive(x) /\ Sync(q) \in mFlag[x])
  BY <1>5, <1>6
<1> QED BY <1>2, <1>3, <1>4, <1>7, <1>8, EdgesKept

\* Every step keeps it.
LEMMA EdgesInductive ==
    ASSUME IInv, EdgeInv, ErrorAlone, [Next]_vars
    PROVE  EdgeInv'
<1> USE DEF IInv, handleVars, reqVars
<1>1. CASE ~torn /\ UserStep
  BY <1>1, EdgesUser
<1>2. CASE \E r \in Requests : RequestStep(r)
  BY <1>2, EdgesRequest
<1>3. CASE RequestReturn
  BY <1>3, EdgesReturn
<1>4. CASE TimerClose
  <2>1. /\ cb.h \in Handles
        /\ CloseHandle(cb.h, mFlag, where, mFly[cb.h])
        /\ UNCHANGED <<mHandle, mType>> /\ ConnectGoesNotOn'
    BY <1>4 DEF TimerClose, TypeOK, CallRecord, ConnectGoesNotOn, NoCall
  <2> QED BY <2>1, EdgesClosed DEF TypeOK
<1>5. ASSUME NEW h \in Handles, StopClose(h)
      PROVE  EdgeInv'
  <2>1. /\ CloseHandle(h, mFlag, where, mFly[h])
        /\ UNCHANGED <<mHandle, mType>> /\ ConnectGoesNotOn'
    BY <1>5 DEF StopClose, EdgeInv, ConnectGoesNotOn
  <2> QED BY <2>1, EdgesClosed DEF TypeOK
<1>6. CASE CmdDone
  <2>1. cb' = [cb EXCEPT !.kind = "ret"] /\ ConnectGoesNotOn'
    BY <1>6 DEF CmdDone, EdgeInv, ConnectGoesNotOn, TypeOK, CallRecord
  <2>2. CASE mStop
    <3>1. UNCHANGED <<mFlag, reqVars>>
      BY <1>6, <2>2 DEF CmdDone
    <3> QED BY <2>1, <3>1, EdgesKept DEF EdgeInv, WaitersAlive, Alive
  <2>3. CASE ~mStop
    <3>1. "READABLE" \in mFlag[CMD] /\ Post(CMD, ReadCMD, "read", where)
      BY <1>6, <2>3 DEF CmdDone
    <3>2. where[ReadCMD] = "free" /\ CMD \in Handles /\ ReadCMD \in Requests
      BY <1>6, ConstantsOK DEF CmdDone, CmdOwned
    <3>3. ~Connecting(CMD)
      BY <3>2 DEF CmdOwned, Connecting
    <3>4. "read" \in ReqTypes \ {"connect"} /\ Ready("read") = "READABLE"
      BY DEF ReqTypes, Ready
    <3> QED BY <2>1, <3>1, <3>2, <3>3, <3>4, EdgesPosted
  <2> QED BY <2>2, <2>3
<1>7. ASSUME NEW h \in Handles, NEW q \in {"read", "write"}, Event(h, q)
      PROVE  EdgeInv'
  <2>1. /\ UNCHANGED <<mHandle, mType, cb>>
        /\ \/ mFlag' = mFlag
           \/ mFlag' = [mFlag EXCEPT ![h] = @ \cup {Sync(q)}]
                /\ Queue(h, q) = {} /\ where' = where
        /\ \/ where' = where
           \/ \E r \in Queue(h, q) : where' = [where EXCEPT ![r] = "pend"]
    BY <1>7 DEF Event, Remember
  <2>2. \A x \in Handles : Alive(x)' <=> Alive(x)
    BY <2>1 DEF Alive, Sync, TypeOK
  <2>3. \A x \in Handles, p \in {"read", "write"} :
          Sync(p) \in mFlag'[x] => Queue(x, p)' = {} \/ Sync(p) \in mFlag[x]
    BY <2>1 DEF Sync, Queue, TypeOK
  <2>4. \A x \in Requests : /\ where'[x] \in {"read", "write"} => where'[x] = where[x]
                            /\ where[x] = "free" => where'[x] = "free"
    BY <2>1 DEF Queue, TypeOK
  <2>5. ConnectGoesNotOn'
    BY <2>1 DEF EdgeInv, ConnectGoesNotOn
  <2>6. \A x \in Requests : where'[x] \in {"read", "write"} =>
          where[x] = where'[x] /\ Alive(mHandle[x])'
    BY <2>1, <2>2, <2>4 DEF EdgeInv, WaitersAlive, TypeOK
  <2> QED BY <2>1, <2>2, <2>3, <2>4, <2>5, <2>6, EdgesKept
<1>8. CASE \/ InitReturn \/ TimerAgain \/ EndTimers \/ BeginPending \/ StopEnd
           \/ BeginClosed \/ (\E h \in Handles : CloseCall(h)) \/ CloseReturn
           \/ EndTick \/ CmdStop \/ (\E h \in Handles : TimerFire(h))
           \/ UNCHANGED vars
  <2>1. UNCHANGED <<mHandle, mType>>
    BY <1>8 DEF InitReturn, TimerAgain, EndTimers, BeginPending, StopEnd,
        BeginClosed, CloseCall, CloseReturn, EndTick, CmdStop, TimerFire, vars
  <2>2. \A x \in Handles : \A g \in Flags \ {"CLOSE"} : g \in mFlag'[x] <=> g \in mFlag[x]
    <3>1. CASE \E h \in Handles : CloseCall(h)
      BY <3>1 DEF CloseCall, TypeOK
    <3>2. CASE ~ \E h \in Handles : CloseCall(h)
      BY <1>8, <3>2 DEF InitReturn, TimerAgain, EndTimers, BeginPending, StopEnd,
          BeginClosed, CloseReturn, EndTick, CmdStop, TimerFire, vars
    <3> QED BY <3>1, <3>2
  <2>3. /\ \A x \in Requests : where'[x] \in {"read", "write"} => where'[x] = where[x]
        /\ \A x \in Requests : where[x] = "free" => where'[x] = "free"
    BY <1>8 DEF InitReturn, TimerAgain, EndTimers, BeginPending, StopEnd,
        BeginClosed, CloseCall, CloseReturn, EndTick, CmdStop, TimerFire, vars
  <2>4. ConnectGoesNotOn'
    <3>1. CASE InitReturn \/ TimerAgain \/ CloseReturn
      BY <3>1 DEF InitReturn, TimerAgain, CloseReturn, ConnectGoesNotOn, NoCall
    <3>2. CASE CmdStop \/ StopEnd
      <4>1. PICK k \in CbKinds : cb' = [cb EXCEPT !.kind = k]
        <5>1. CASE CmdStop
          BY <5>1 DEF CmdStop, CbKinds
        <5>2. CASE StopEnd
          <6>1. cb' = [cb EXCEPT !.kind = "ret"] \/ cb' = [cb EXCEPT !.kind = "req"]
            BY <5>2 DEF StopEnd
          <6> QED BY <6>1 DEF CbKinds
        <5> QED BY <3>2, <5>1, <5>2
      <4>2. cb \in CallRecord
        BY DEF TypeOK
      <4>3. cb'.type = cb.type /\ cb'.more = cb.more
        BY <4>1, <4>2 DEF CallRecord
      <4> QED BY <4>3 DEF EdgeInv, ConnectGoesNotOn
    <3>3. CASE (\E h \in Handles : CloseCall(h)) \/ (\E h \in Handles : TimerFire(h))
      <4>1. cb'.type = "read"
        <5>1. CASE \E h \in Handles : CloseCall(h)
          <6>1. PICK h \in Handles : Call("close", h, "read", FALSE, FALSE)
            BY <5>1 DEF CloseCall
          <6> QED BY <6>1 DEF Call
        <5>2. CASE \E h \in Handles : TimerFire(h)
          <6>1. PICK h \in Handles : Call("time", h, "read", FALSE, FALSE)
            BY <5>2 DEF TimerFire
          <6> QED BY <6>1 DEF Call
        <5> QED BY <3>3, <5>1, <5>2
      <4> QED BY <4>1 DEF ConnectGoesNotOn
    <3>4. CASE cb' = cb
      BY <3>4 DEF EdgeInv, ConnectGoesNotOn
    <3> QED
      BY <1>8, <3>1, <3>2, <3>3, <3>4
      DEF EndTimers, BeginPending, BeginClosed, EndTick, vars
  <2>5. \A x \in Handles : Alive(x)' <=> Alive(x)
    BY <2>2 DEF Alive, Flags
  <2>6. \A x \in Handles, q \in {"read", "write"} :
          Sync(q) \in mFlag'[x] => Sync(q) \in mFlag[x]
    BY <2>2 DEF Sync, Flags
  <2>7. \A x \in Requests : where'[x] \in {"read", "write"} =>
          where[x] = where'[x] /\ Alive(mHandle[x])'
    BY <2>1, <2>3, <2>5 DEF EdgeInv, WaitersAlive, TypeOK
  <2> QED BY <2>1, <2>3, <2>4, <2>5, <2>6, <2>7, EdgesKept
<1> QED
  BY <1>1, <1>2, <1>3, <1>4, <1>5, <1>6, <1>7, <1>8
  DEF Next, LoopStep, Finished, Directions

-----------------------------------------------------------------------------
(* What epoll has reported is remembered or under way.                     *)

\* Requests wait in the queue of their type; the direction a request or a
\* callback works with stays open while its handle does; what is due belongs
\* to an open handle and is remembered or carried; a connect request waits for
\* room only as long as none was reported.
QueuesTyped ==
    \A r \in Requests :
        where[r] \in {"read", "write"} => where[r] = QueueOf(mType[r])
ReadyKept ==
    /\ \A r \in Requests :
          where[r] # "free" /\ mType[r] # "connect" /\ Alive(mHandle[r])
              => Ready(mType[r]) \in mFlag[mHandle[r]]
    /\ Calling /\ cb.more /\ Alive(cb.h) => Ready(cb.type) \in mFlag[cb.h]
DueHeld ==
    \A h \in Handles, q \in {"read", "write"} :
        <<h, q>> \in due => Alive(h) /\ (Sync(q) \in mFlag[h] \/ Carried(h, q))
ConnectWaits ==
    \A r \in Requests :
        mType[r] = "connect" /\ where[r] = "write" => <<mHandle[r], "write">> \notin due

DueInv == QueuesTyped /\ ReadyKept /\ DueHeld /\ ConnectWaits

OnWay == {"pend", "batch", "cur"}

\* What carries an edge still does after a step that leaves it where it is.
LEMMA CarriedKept ==
    ASSUME NEW h \in Handles, NEW q \in {"read", "write"}, Carried(h, q),
           \A r \in Requests : where[r] \in OnWay /\ mHandle[r] = h =>
               where'[r] \in OnWay /\ mHandle'[r] = h /\ mType'[r] = mType[r],
           Calling /\ cb.h = h /\ cb.more =>
               Calling' /\ cb'.h = h /\ cb'.more /\ cb'.type = cb.type
    PROVE  Carried(h, q)'
BY DEF Carried, OnWay

\* A step that takes nothing from the way and reports nothing.
LEMMA DueKept ==
    ASSUME IInv, DueInv, UNCHANGED <<mHandle, mType>>, due' = due,
           \A x \in Handles : Alive(x)' <=> Alive(x),
           \A x \in Handles : Alive(x) =>
               \A g \in {"READABLE", "WRITEABLE", "SYNC_READ", "SYNC_WRITE"} :
                   g \in mFlag[x] => g \in mFlag'[x],
           \A r \in Requests : where[r] \in OnWay => where'[r] \in OnWay,
           \A r \in Requests : where'[r] \in {"read", "write"} => where'[r] = where[r],
           \A r \in Requests : where[r] = "free" => where'[r] = "free",
           Calling /\ cb.more =>
               Calling' /\ cb'.h = cb.h /\ cb'.more /\ cb'.type = cb.type,
           Calling' /\ cb'.more =>
               Calling /\ cb'.h = cb.h /\ cb.more /\ cb'.type = cb.type
    PROVE  DueInv'
<1> USE DEF DueInv
<1>1. QueuesTyped'
  BY DEF QueuesTyped
<1>2. \A r \in Requests : mHandle[r] \in Handles
  BY DEF IInv, TypeOK
<1>3. Calling => cb.h \in Handles
  BY DEF IInv, TypeOK, CallRecord
<1>4. ReadyKept'
  BY <1>2, <1>3 DEF ReadyKept, Ready
<1>5. ASSUME NEW h \in Handles, NEW q \in {"read", "write"}, <<h, q>> \in due'
      PROVE  Alive(h)' /\ (Sync(q) \in mFlag'[h] \/ Carried(h, q)')
  <2>1. Alive(h) /\ (Sync(q) \in mFlag[h] \/ Carried(h, q))
    BY <1>5 DEF DueHeld
  <2>2. CASE Sync(q) \in mFlag[h]
    BY <2>1, <2>2 DEF Sync
  <2>3. CASE Carried(h, q)
    BY <2>1, <2>3, CarriedKept
  <2> QED BY <2>1, <2>2, <2>3
<1>6. DueHeld'
  BY <1>5 DEF DueHeld
<1>7. ConnectWaits'
  BY DEF ConnectWaits
<1> QED BY <1>1, <1>4, <1>6, <1>7

\* closeHandle(): nothing is due of a handle that is closing.
LEMMA DueClosed ==
    ASSUME IInv, DueInv, NEW h \in Handles,
           NEW f \in [Handles -> SUBSET Flags],
           NEW w \in [Requests -> Places],
           \A x \in Handles \ {h} : f[x] = mFlag[x],
           \A g \in {"OPEN", "CLOSING", "CLOSE"} : g \in f[h] <=> g \in mFlag[h],
           \A r \in Requests : w[r] = where[r] \/ (w[r] = "free" /\ mHandle[r] = h),
           CloseHandle(h, f, w, mFly[h]),
           mHandle' = mHandle, mType' = mType,
           Calling /\ cb.more => cb' = cb,
           Calling' /\ cb'.more => cb' = cb \/ cb'.h = h
    PROVE  DueInv'
<1> USE DEF DueInv, IInv
<1>1. ~Alive(h)' /\ \A x \in Handles \ {h} : mFlag'[x] = mFlag[x]
  BY DEF CloseHandle, Ended, ClosingFlags, Alive, TypeOK
<1>2. /\ \A r \in Requests : mHandle[r] # h => where'[r] = where[r]
      /\ \A r \in Requests : where'[r] \in {"read", "write"} => where'[r] = where[r]
  BY DEF CloseHandle, PendAll
<1>3. /\ due' \subseteq due
      /\ \A q \in {"read", "write"} : <<h, q>> \notin due'
  <2>1. CASE Ended(h, f)
    <3>1. due' = due /\ ~Alive(h)
      BY <2>1 DEF CloseHandle, Ended, Alive
    <3> QED BY <3>1 DEF DueHeld
  <2>2. CASE ~Ended(h, f)
    BY <2>2 DEF CloseHandle, Directions
  <2> QED BY <2>1, <2>2
<1>4. \A r \in Requests : mHandle[r] \in Handles
  BY DEF TypeOK
<1>5. QueuesTyped'
  BY <1>2 DEF QueuesTyped
<1>6. \A x \in Handles \ {h} : Alive(x)' <=> Alive(x)
  BY <1>1 DEF Alive
<1>7. ReadyKept'
  <2>1. ASSUME NEW r \in Requests, where'[r] # "free", mType'[r] # "connect",
               Alive(mHandle[r])'
        PROVE  Ready(mType'[r]) \in mFlag'[mHandle'[r]]
    <3>1. mHandle[r] \in Handles \ {h} /\ where'[r] = where[r]
      BY <1>1, <1>2, <1>4, <2>1
    <3> QED BY <1>1, <1>6, <2>1, <3>1 DEF ReadyKept
  <2>2. ASSUME Calling', cb'.more, Alive(cb.h)'
        PROVE  Ready(cb'.type) \in mFlag'[cb'.h]
    <3>1. cb' = cb /\ cb.h # h
      BY <1>1, <2>2
    <3>2. cb.h \in Handles /\ Calling
      BY <2>2, <3>1 DEF TypeOK, CallRecord, Calling
    <3> QED BY <1>1, <1>6, <2>2, <3>1, <3>2 DEF ReadyKept
  <2> QED BY <2>1, <2>2 DEF ReadyKept
<1>8. ASSUME NEW x \in Handles, NEW q \in {"read", "write"}, <<x, q>> \in due'
      PROVE  Alive(x)' /\ (Sync(q) \in mFlag'[x] \/ Carried(x, q)')
  <2>1. x # h /\ <<x, q>> \in due
    BY <1>3, <1>8
  <2>2. Alive(x) /\ (Sync(q) \in mFlag[x] \/ Carried(x, q))
    BY <2>1 DEF DueHeld
  <2>3. CASE Carried(x, q)
    <3>1. Calling /\ cb.more => Calling' /\ cb' = cb
      BY DEF Calling
    <3>2. \A r \in Requests : where[r] \in OnWay /\ mHandle[r] = x =>
             where'[r] \in OnWay /\ mHandle'[r] = x /\ mType'[r] = mType[r]
      BY <1>2, <2>1
    <3> QED BY <1>6, <2>1, <2>2, <2>3, <3>1, <3>2, CarriedKept
  <2> QED BY <1>1, <1>6, <2>1, <2>2, <2>3
<1>9. DueHeld'
  BY <1>8 DEF DueHeld
<1>10. ConnectWaits'
  BY <1>2, <1>3 DEF ConnectWaits
<1> QED BY <1>5, <1>7, <1>9, <1>10

\* openHandle() and connect(): of a new socket nothing has been reported.
LEMMA DueOpened ==
    ASSUME IInv, EdgeInv, ErrorAlone, DueInv, ~torn, NEW h \in Handles, MayOpen(h),
           cb' = cb, due' = due,
           \A x \in Handles \ {h} : mFlag'[x] = mFlag[x],
           \A x \in Requests :
              \/ /\ where'[x] = where[x]
                 /\ mHandle'[x] = mHandle[x] /\ mType'[x] = mType[x]
              \/ /\ where[x] = "free" /\ where'[x] \in {"pend", "write", "lost"}
                 /\ mHandle'[x] = h /\ mType'[x] = "connect"
    PROVE  DueInv'
<1> USE DEF DueInv, IInv
<1>1. /\ ~Alive(h)
      /\ \A r \in Requests : mHandle[r] = h => where[r] = "free"
      /\ Calling /\ cb.h = h => ~cb.more
  BY OpensAlone
<1>2. \A q \in {"read", "write"} : <<h, q>> \notin due
  BY <1>1 DEF DueHeld
<1>3. \A x \in Handles \ {h} : Alive(x)' <=> Alive(x)
  BY DEF Alive
<1>4. QueuesTyped'
  BY DEF QueuesTyped, QueueOf
<1>5. ReadyKept'
  <2>1. ASSUME NEW r \in Requests, where'[r] # "free", mType'[r] # "connect",
               Alive(mHandle[r])'
        PROVE  Ready(mType'[r]) \in mFlag'[mHandle'[r]]
    <3>1. /\ where'[r] = where[r] /\ mType'[r] = mType[r]
          /\ mHandle'[r] = mHandle[r] /\ mHandle[r] \in Handles \ {h}
      BY <1>1, <2>1 DEF TypeOK
    <3> QED BY <1>3, <2>1, <3>1 DEF ReadyKept
  <2>2. ASSUME Calling', cb'.more, Alive(cb.h)'
        PROVE  Ready(cb'.type) \in mFlag'[cb'.h]
    <3>1. cb.h \in Handles \ {h} /\ Calling
      BY <1>1, <2>2 DEF TypeOK, CallRecord, Calling
    <3> QED BY <1>3, <2>2, <3>1 DEF ReadyKept
  <2> QED BY <2>1, <2>2 DEF ReadyKept
<1>6. ASSUME NEW x \in Handles, NEW q \in {"read", "write"}, <<x, q>> \in due'
      PROVE  Alive(x)' /\ (Sync(q) \in mFlag'[x] \/ Carried(x, q)')
  <2>1. x # h /\ Alive(x) /\ (Sync(q) \in mFlag[x] \/ Carried(x, q))
    BY <1>2, <1>6 DEF DueHeld
  <2>2. CASE Carried(x, q)
    <3>1. \A r \in Requests : where[r] \in OnWay /\ mHandle[r] = x =>
             where'[r] \in OnWay /\ mHandle'[r] = x /\ mType'[r] = mType[r]
      BY DEF OnWay
    <3>2. Calling' <=> Calling
      BY DEF Calling
    <3> QED BY <1>3, <2>1, <2>2, <3>1, <3>2, CarriedKept
  <2> QED BY <1>3, <2>1, <2>2
<1>7. DueHeld'
  BY <1>6 DEF DueHeld
<1>8. ConnectWaits'
  BY <1>2 DEF ConnectWaits
<1> QED BY <1>4, <1>5, <1>7, <1>8

\* read(), write(), accept(): a remembered edge is handed to a request.
LEMMA DuePosted ==
    ASSUME IInv, EdgeInv, DueInv, NEW h \in Handles, NEW r \in Requests,
           NEW t \in ReqTypes \ {"connect"},
           where[r] = "free", Ready(t) \in mFlag[h],
           Post(h, r, t, where), due' = due,
           Calling' <=> Calling,
           cb'.h = cb.h /\ cb'.more = cb.more /\ cb'.type = cb.type
    PROVE  DueInv'
<1> USE DEF DueInv, IInv
<1>1. /\ mHandle'[r] = h /\ mType'[r] = t
      /\ \A x \in Requests \ {r} : mHandle'[x] = mHandle[x] /\ mType'[x] = mType[x]
  BY DEF Post, Issue, TypeOK
<1>2. /\ \A x \in Handles \ {h} : mFlag'[x] = mFlag[x]
      /\ mFlag'[h] = mFlag[h] \ {Sync(t)}
  BY DEF Post, TypeOK
<1>3. \A x \in Handles : Alive(x)' <=> Alive(x)
  BY <1>2 DEF Alive, Sync
<1>4. QueueOf(t) \in {"read", "write"}
  BY DEF QueueOf
<1>5. PICK p \in {r} \cup Queue(h, QueueOf(t)) :
        \/ /\ Sync(t) \in mFlag[h]
           /\ where' = [where EXCEPT ![r] = QueueOf(t), ![p] = "pend"]
        \/ /\ Sync(t) \notin mFlag[h]
           /\ where' = [where EXCEPT ![r] = QueueOf(t)]
  BY DEF Post
<1>6. p \in Requests /\ (p # r => where[p] = QueueOf(t) /\ mHandle[p] = h)
  BY <1>5 DEF Queue
<1>7. /\ \A x \in Requests \ {r} : where'[x] = where[x] \/ (x = p /\ where'[x] = "pend")
      /\ where'[r] \in {"pend", QueueOf(t)}
  BY <1>5, <1>6 DEF TypeOK
<1>8. QueuesTyped'
  BY <1>1, <1>7 DEF QueuesTyped
<1>9. ReadyKept'
  <2>1. ASSUME NEW x \in Requests, where'[x] # "free", mType'[x] # "connect",
               Alive(mHandle[x])'
        PROVE  Ready(mType'[x]) \in mFlag'[mHandle'[x]]
    <3>1. CASE x = r
      BY <1>1, <1>2, <3>1 DEF Ready, Sync
    <3>2. CASE x # r
      <4>1. where[x] # "free" /\ mHandle[x] \in Handles
        BY <1>4, <1>6, <1>7, <2>1, <3>2 DEF TypeOK
      <4>2. Ready(mType[x]) \in mFlag[mHandle[x]]
        BY <1>1, <1>3, <2>1, <3>2, <4>1 DEF ReadyKept
      <4> QED BY <1>1, <1>2, <3>2, <4>1, <4>2 DEF Ready, Sync
    <3> QED BY <3>1, <3>2
  <2>2. ASSUME Calling', cb'.more, Alive(cb.h)'
        PROVE  Ready(cb'.type) \in mFlag'[cb'.h]
    <3>1. cb.h \in Handles
      BY DEF TypeOK, CallRecord
    <3>2. Ready(cb.type) \in mFlag[cb.h]
      BY <1>3, <2>2, <3>1 DEF ReadyKept
    <3> QED BY <1>2, <3>1, <3>2 DEF Ready, Sync
  <2> QED BY <2>1, <2>2 DEF ReadyKept
<1>10. ASSUME NEW x \in Handles, NEW q \in {"read", "write"}, <<x, q>> \in due'
       PROVE  Alive(x)' /\ (Sync(q) \in mFlag'[x] \/ Carried(x, q)')
  <2>1. Alive(x) /\ (Sync(q) \in mFlag[x] \/ Carried(x, q))
    BY <1>10 DEF DueHeld
  <2>2. CASE Carried(x, q)
    <3>1. \A y \in Requests : where[y] \in OnWay /\ mHandle[y] = x =>
             where'[y] \in OnWay /\ mHandle'[y] = x /\ mType'[y] = mType[y]
      BY <1>1, <1>7 DEF OnWay
    <3> QED BY <1>3, <2>1, <2>2, <3>1, CarriedKept
  <2>3. CASE Sync(q) \in mFlag[x] /\ Sync(q) \in mFlag'[x]
    BY <1>3, <2>1, <2>3
  <2>4. CASE Sync(q) \in mFlag[x] /\ Sync(q) \notin mFlag'[x]
    <3>1. x = h /\ Sync(q) = Sync(t) /\ Sync(t) \in mFlag[h]
      BY <1>2, <2>4
    <3>2. q = QueueOf(t)
      BY <3>1 DEF Sync, QueueOf, ReqTypes
    <3>3. where'[p] = "pend" /\ mHandle'[p] = h /\ QueueOf(mType'[p]) = q
      BY <1>1, <1>5, <1>6, <3>1, <3>2 DEF TypeOK, QueuesTyped, QueueOf
    <3>4. Carried(x, q)'
      BY <1>6, <3>1, <3>3 DEF Carried
    <3> QED BY <1>3, <2>1, <3>4
  <2> QED BY <2>1, <2>2, <2>3, <2>4
<1>11. DueHeld'
  BY <1>10 DEF DueHeld
<1>12. ConnectWaits'
  BY <1>1, <1>7 DEF ConnectWaits
<1> QED BY <1>8, <1>9, <1>11, <1>12

\* The application opens, closes and posts.
LEMMA DueUser ==
    ASSUME IInv, EdgeInv, ErrorAlone, DueInv, ~torn, UserStep
    PROVE  DueInv'
<1> USE DEF IInv
<1>0. PICK h \in Handles :
        \/ Close(h) \/ OpenRefused(h) \/ OpenFails(h) \/ Open(h)
        \/ \E r \in Requests :
              Read(h, r) \/ Write(h, r) \/ Accept(h, r)
                         \/ OpenConnect(h, r) \/ OpenConnectFails(h, r)
  BY DEF UserStep
<1>1. CASE Close(h)
  <2>1. /\ CloseHandle(h, mFlag, where, mFly[h])
        /\ UNCHANGED <<mHandle, mType, cb>>
    BY <1>1 DEF Close
  <2> QED BY <2>1, DueClosed DEF TypeOK
<1>2. CASE OpenRefused(h) \/ OpenFails(h) \/ Open(h)
  <2>1. /\ MayOpen(h)
        /\ UNCHANGED <<where, mHandle, mType, cb, due>>
        /\ \A x \in Handles \ {h} : mFlag'[x] = mFlag[x]
    BY <1>2 DEF OpenRefused, OpenFails, Open, CanOpen, reqVars, TypeOK
  <2> QED BY <2>1, DueOpened
<1>3. ASSUME NEW r \in Requests, Read(h, r) \/ Write(h, r) \/ Accept(h, r)
      PROVE  DueInv'
  <2>1. PICK t \in {"read", "write", "accept"} : Request(h, r, t)
    BY <1>3 DEF Read, Write, Accept
  <2>2. /\ where[r] = "free" /\ Ready(t) \in mFlag[h]
        /\ Post(h, r, t, where) /\ cb' = cb /\ due' = due
    BY <2>1 DEF Request
  <2>3. t \in ReqTypes \ {"connect"} /\ (Calling' <=> Calling)
    BY <2>2 DEF ReqTypes, Calling
  <2> QED BY <2>2, <2>3, DuePosted
<1>4. ASSUME NEW r \in Requests, OpenConnect(h, r) \/ OpenConnectFails(h, r)
      PROVE  DueInv'
  <2>1. /\ MayOpen(h) /\ where[r] = "free"
        /\ mHandle'[r] = h /\ mType'[r] = "connect"
        /\ where'[r] \in {"pend", "write", "lost"}
        /\ \A x \in Requests \ {r} :
              /\ where'[x] = where[x]
              /\ mHandle'[x] = mHandle[x] /\ mType'[x] = mType[x]
        /\ \A x \in Handles \ {h} : mFlag'[x] = mFlag[x]
        /\ cb' = cb /\ due' = due
    BY <1>4 DEF OpenConnect, OpenConnectFails, CanOpen, Issue, TypeOK
  <2> QED BY <2>1, DueOpened
<1> QED BY <1>0, <1>1, <1>2, <1>3, <1>4

\* epoll_wait reports an edge.
LEMMA DueEvent ==
    ASSUME IInv, EdgeInv, DueInv, NEW h \in Handles, NEW q \in {"read", "write"},
           Event(h, q)
    PROVE  DueInv'
<1> USE DEF DueInv, IInv
<1>1. /\ UNCHANGED <<mHandle, mType, cb>> /\ Alive(h)
      /\ due' = due \cup {<<h, q>>}
      /\ \/ mFlag' = [mFlag EXCEPT ![h] = @ \cup {Sync(q)}]
              /\ Queue(h, q) = {} /\ where' = where
         \/ mFlag' = mFlag
              /\ \E r \in Queue(h, q) : where' = [where EXCEPT ![r] = "pend"]
  BY DEF Event, Remember
<1>2. /\ \A x \in Handles : Alive(x)' <=> Alive(x)
      /\ \A x \in Handles : mFlag[x] \subseteq mFlag'[x]
  BY <1>1 DEF Alive, Sync, TypeOK
<1>3. \A x \in Requests : \/ where'[x] = where[x]
                          \/ /\ where'[x] = "pend" /\ where[x] = q
                             /\ mHandle[x] = h
  BY <1>1 DEF Queue, TypeOK
<1>4. QueuesTyped'
  BY <1>1, <1>3 DEF QueuesTyped
<1>5. Calling' <=> Calling
  BY <1>1 DEF Calling
<1>6. /\ \A r \in Requests : mHandle[r] \in Handles
      /\ cb.h \in Handles
  BY DEF TypeOK, CallRecord
<1>7. ReadyKept'
  BY <1>1, <1>2, <1>3, <1>5, <1>6 DEF ReadyKept
<1>8. ASSUME NEW x \in Handles, NEW p \in {"read", "write"}, <<x, p>> \in due
      PROVE  Alive(x)' /\ (Sync(p) \in mFlag'[x] \/ Carried(x, p)')
  <2>1. Alive(x) /\ (Sync(p) \in mFlag[x] \/ Carried(x, p))
    BY <1>8 DEF DueHeld
  <2>2. CASE Carried(x, p)
    <3>1. \A r \in Requests : where[r] \in OnWay /\ mHandle[r] = x =>
             where'[r] \in OnWay /\ mHandle'[r] = x /\ mType'[r] = mType[r]
      BY <1>1, <1>3 DEF OnWay
    <3> QED BY <1>1, <1>2, <1>5, <2>1, <2>2, <3>1, CarriedKept
  <2> QED BY <1>2, <2>1, <2>2
<1>9. Alive(h)' /\ (Sync(q) \in mFlag'[h] \/ Carried(h, q)')
  <2>1. CASE Sync(q) \in mFlag'[h]
    BY <1>1, <1>2, <2>1
  <2>2. CASE Sync(q) \notin mFlag'[h]
    <3>1. PICK r \in Queue(h, q) : where' = [where EXCEPT ![r] = "pend"]
      BY <1>1, <2>2 DEF TypeOK
    <3>2. r \in Requests /\ mHandle[r] = h /\ QueueOf(mType[r]) = q
      BY DEF Queue, QueuesTyped
    <3>3. where'[r] = "pend"
      BY <3>1, <3>2 DEF TypeOK
    <3> QED BY <1>1, <1>2, <3>2, <3>3 DEF Carried
  <2> QED BY <2>1, <2>2
<1>10. DueHeld'
  BY <1>1, <1>8, <1>9 DEF DueHeld
<1>11. ASSUME NEW r \in Requests, mType'[r] = "connect", where'[r] = "write"
       PROVE  <<mHandle'[r], "write">> \notin due'
  <2>1. where[r] = "write" /\ mType[r] = "connect" /\ mHandle'[r] = mHandle[r]
    BY <1>1, <1>3, <1>11
  <2>2. <<mHandle[r], "write">> \notin due
    BY <2>1 DEF ConnectWaits
  <2>3. CASE mHandle[r] = h /\ q = "write"
    <3>1. r \in Queue(h, q)
      BY <2>1, <2>3 DEF Queue
    <3>2. \A x \in Queue(h, q) : x = r
      BY <2>1, <2>3 DEF Queue, EdgeInv, ConnectAlone
    <3>3. where'[r] = "pend"
      BY <1>1, <3>1, <3>2 DEF TypeOK
    <3> QED BY <1>11, <3>3
  <2> QED BY <1>1, <2>1, <2>2, <2>3
<1>12. ConnectWaits'
  BY <1>11 DEF ConnectWaits
<1> QED BY <1>4, <1>7, <1>10, <1>12

\* updatePending() has asked the socket: one request leaves the way, with what
\* the socket answered.
LEMMA DueAnswered ==
    ASSUME IInv, EdgeInv, DueInv, NEW r \in Requests,
           Connected(r) \/ Complete(r) \/ ShortRead(r) \/ Refuse(r)
    PROVE  DueInv'
<1> DEFINE h == mHandle[r]
           t == mType[r]
<1> USE DEF DueInv, IInv
<1>a. /\ UNCHANGED <<mHandle, mType>>
      /\ where[r] = "cur" /\ where' = [where EXCEPT ![r] = "free"]
      /\ cb = NoCall
  BY DEF Connected, Complete, ShortRead, Refuse, Current, Given
<1>b. ~Calling /\ h \in Handles /\ t \in ReqTypes
      /\ \A x \in Requests : mHandle[x] \in Handles
  BY <1>a DEF TypeOK, Calling, NoCall
<1>1. /\ h \in Handles /\ t \in ReqTypes
      /\ UNCHANGED <<mHandle, mType>>
      /\ where[r] = "cur" /\ where' = [where EXCEPT ![r] = "free"]
      /\ cb = NoCall /\ ~Calling
      /\ \A x \in Requests : mHandle[x] \in Handles
  BY <1>a, <1>b
<1>2. \A x \in Requests : \/ where'[x] = where[x] /\ x # r
                          \/ where'[x] = "free" /\ x = r
  BY <1>1 DEF TypeOK
<1>3. QueuesTyped'
  BY <1>1, <1>2 DEF QueuesTyped
<1>4. CASE Connected(r)
  <2>1. /\ t = "connect" /\ "CLOSING" \notin mFlag[h]
        /\ mFlag' = [mFlag EXCEPT ![h] = @ \cup
                        {"READABLE", "WRITEABLE", "SYNC_WRITE"}]
        /\ due' = due \cup {<<h, "write">>}
        /\ ~cb'.more
    BY <1>4 DEF Connected, Call
  <2>2. /\ \A x \in Handles : mFlag[x] \subseteq mFlag'[x]
        /\ \A x \in Handles : Alive(x)' <=> Alive(x)
        /\ "SYNC_WRITE" \in mFlag'[h]
    BY <1>1, <2>1 DEF TypeOK, Alive
  <2>3. \A x \in Requests : mHandle[x] = h => where'[x] = "free"
    BY <1>1, <1>2, <2>1 DEF EdgeInv, ConnectAlone
  <2>4. ReadyKept'
    BY <1>1, <1>2, <2>1, <2>2 DEF ReadyKept
  <2>5. Alive(h)
    BY <1>1, <2>1, InFlightActive DEF Alive
  <2>6. ASSUME NEW x \in Handles, NEW q \in {"read", "write"}, <<x, q>> \in due
        PROVE  Alive(x)' /\ (Sync(q) \in mFlag'[x] \/ Carried(x, q)')
    <3>1. Alive(x) /\ (Sync(q) \in mFlag[x] \/ Carried(x, q))
      BY <2>6 DEF DueHeld
    <3>2. CASE Carried(x, q) /\ x # h
      <4>1. \A y \in Requests : where[y] \in OnWay /\ mHandle[y] = x =>
              where'[y] \in OnWay /\ mHandle'[y] = x /\ mType'[y] = mType[y]
        BY <1>1, <1>2, <3>2
      <4> QED BY <1>1, <2>2, <3>1, <3>2, <4>1, CarriedKept
    <3>3. CASE Carried(x, q) /\ x = h /\ Sync(q) \notin mFlag[x]
      <4>1. q = "write"
        BY <1>1, <2>1, <3>3 DEF Carried, EdgeInv, ConnectAlone, QueueOf
      <4> QED BY <2>2, <3>1, <3>3, <4>1 DEF Sync
    <3> QED BY <2>2, <3>1, <3>2, <3>3
  <2>7. DueHeld'
    BY <2>1, <2>2, <2>5, <2>6 DEF DueHeld, Sync
  <2>8. ConnectWaits'
    BY <1>1, <1>2, <2>1, <2>3 DEF ConnectWaits
  <2> QED BY <1>3, <2>4, <2>7, <2>8
<1>5. ASSUME t # "connect",
             cb' = [kind |-> "req", h |-> h, type |-> t, more |-> cb'.more,
                    err |-> cb'.err],
             \A x \in Handles : Alive(x)' <=> Alive(x),
             \A x \in Handles, g \in Flags \ {Sync(t)} :
                 g \in mFlag[x] => g \in mFlag'[x],
             \A x \in Handles \ {h} : mFlag'[x] = mFlag[x],
             \/ /\ cb'.more /\ mFlag' = mFlag
                /\ due' \in {due, due \cup {<<h, QueueOf(t)>>}}
                /\ Ready(t) \notin mFlag[h] => due' = due
             \/ ~cb'.more /\ due' = due \ {<<h, QueueOf(t)>>}
      PROVE  DueInv'
  <2>1. cb'.kind = "req" /\ cb'.h = h /\ cb'.type = t /\ Calling'
    BY <1>5 DEF Calling
  <2>2. Ready(t) # Sync(t) /\ \A y \in ReqTypes : Ready(y) \in Flags \ {Sync(t)}
    BY DEF Ready, Sync, Flags
  <2>3. ASSUME NEW x \in Requests, where'[x] # "free", mType'[x] # "connect",
               Alive(mHandle[x])'
        PROVE  Ready(mType'[x]) \in mFlag'[mHandle'[x]]
    <3>1. where[x] # "free" /\ mHandle[x] \in Handles /\ mType[x] \in ReqTypes
      BY <1>1, <1>2, <2>3 DEF TypeOK
    <3>2. Ready(mType[x]) \in mFlag[mHandle[x]]
      BY <1>1, <1>5, <2>3, <3>1 DEF ReadyKept
    <3> QED BY <1>1, <1>5, <2>2, <3>1, <3>2
  <2>4. ASSUME Calling', cb'.more, Alive(cb.h)'
        PROVE  Ready(cb'.type) \in mFlag'[cb'.h]
    BY <1>1, <1>5, <2>1, <2>4 DEF ReadyKept
  <2>5. ReadyKept'
    BY <2>3, <2>4 DEF ReadyKept
  <2>6. Ready(t) \in mFlag[h] => Alive(h)
    BY <1>1 DEF HandleOK, Ready
  <2>7. ASSUME NEW x \in Handles, NEW q \in {"read", "write"}, <<x, q>> \in due'
        PROVE  Alive(x)' /\ (Sync(q) \in mFlag'[x] \/ Carried(x, q)')
    <3>1. CASE x = h /\ q = QueueOf(t)
      <4>1. cb'.more /\ Carried(x, q)'
        BY <1>5, <2>1, <2>7, <3>1 DEF Carried
      <4>2. Alive(x)
        BY <1>5, <2>6, <2>7, <3>1, <4>1 DEF DueHeld
      <4> QED BY <1>5, <4>1, <4>2
    <3>2. CASE ~(x = h /\ q = QueueOf(t))
      <4>1. <<x, q>> \in due
        BY <1>5, <2>7, <3>2
      <4>2. Alive(x) /\ (Sync(q) \in mFlag[x] \/ Carried(x, q))
        BY <4>1 DEF DueHeld
      <4>3. CASE Sync(q) \in mFlag[x]
        <5>1. x = h => Sync(q) \in Flags \ {Sync(t)}
          BY <1>1, <1>5, <3>2 DEF Sync, QueueOf, Flags, ReqTypes
        <5> QED BY <1>5, <4>2, <4>3, <5>1
      <4>4. CASE Carried(x, q)
        <5>1. PICK y \in Requests : /\ mHandle[y] = x /\ QueueOf(mType[y]) = q
                                    /\ where[y] \in {"pend", "batch", "cur"}
          BY <1>1, <4>4 DEF Carried
        <5>2. y # r
          BY <3>2, <5>1
        <5> QED BY <1>1, <1>2, <1>5, <4>2, <5>1, <5>2 DEF Carried
      <4> QED BY <4>2, <4>3, <4>4
    <3> QED BY <3>1, <3>2
  <2>8. DueHeld'
    BY <2>7 DEF DueHeld
  <2>9. ASSUME NEW x \in Requests, mType'[x] = "connect", where'[x] = "write"
        PROVE  <<mHandle'[x], "write">> \notin due'
    <3>1. where[x] = "write" /\ mType[x] = "connect" /\ mHandle'[x] = mHandle[x]
      BY <1>1, <1>2, <2>9
    <3>2. mHandle[x] # h
      BY <1>1, <1>5, <3>1 DEF EdgeInv, ConnectAlone
    <3> QED BY <1>5, <3>1, <3>2 DEF ConnectWaits
  <2>10. ConnectWaits'
    BY <2>9 DEF ConnectWaits
  <2> QED BY <1>3, <2>5, <2>8, <2>10
<1>6. CASE Complete(r)
  <2>1. /\ t # "connect" /\ Ready(t) \in mFlag[h] /\ mFlag' = mFlag
        /\ due' = due \cup {<<h, QueueOf(t)>>}
        /\ cb' = [kind |-> "req", h |-> h, type |-> t, more |-> TRUE, err |-> FALSE]
    BY <1>6 DEF Complete, Call, handleVars
  <2>2. \A x \in Handles : Alive(x)' <=> Alive(x)
    BY <2>1 DEF Alive
  <2> QED BY <1>5, <2>1, <2>2
<1>7. CASE ShortRead(r)
  <2>1. /\ t = "read" /\ mFlag' = [mFlag EXCEPT ![h] = @ \ {"SYNC_READ"}]
        /\ due' = due \ {<<h, "read">>}
        /\ cb' = [kind |-> "req", h |-> h, type |-> "read", more |-> FALSE,
                  err |-> FALSE]
    BY <1>7 DEF ShortRead, Call
  <2>2. Sync(t) = "SYNC_READ" /\ QueueOf(t) = "read"
    BY <2>1 DEF Sync, QueueOf
  <2>3. /\ \A x \in Handles : Alive(x)' <=> Alive(x)
        /\ \A x \in Handles, g \in Flags \ {Sync(t)} :
               g \in mFlag[x] => g \in mFlag'[x]
        /\ \A x \in Handles \ {h} : mFlag'[x] = mFlag[x]
    BY <1>1, <2>1, <2>2 DEF Alive, TypeOK
  <2> QED BY <1>5, <2>1, <2>2, <2>3
<1>8. CASE Refuse(r)
  <2>1. /\ t # "connect" /\ Ready(t) \notin mFlag[h] /\ mFlag' = mFlag
        /\ due' = due
        /\ cb' = [kind |-> "req", h |-> h, type |-> t, more |-> TRUE, err |-> TRUE]
    BY <1>8 DEF Refuse, Call, handleVars
  <2>2. \A x \in Handles : Alive(x)' <=> Alive(x)
    BY <2>1 DEF Alive
  <2> QED BY <1>5, <2>1, <2>2
<1> QED BY <1>4, <1>6, <1>7, <1>8

\* updatePending() works on a request.
LEMMA DueRequest ==
    ASSUME IInv, EdgeInv, DueInv, NEW r \in Requests, RequestStep(r)
    PROVE  DueInv'
<1> DEFINE h == mHandle[r]
           t == mType[r]
<1> USE DEF IInv
<1>1. h \in Handles /\ t \in ReqTypes /\ mHandle' = mHandle /\ mType' = mType
  BY DEF TypeOK, RequestStep, NextRequest, Connected, ConnectError, Complete,
         ShortRead, Again, Fail, Refuse, reqVars
<1>2. /\ Given(r) \in [Requests -> Places]
      /\ \A x \in Requests : \/ Given(r)[x] = where[x]
                             \/ Given(r)[x] = "free" /\ mHandle[x] = h
  BY DEF Given, TypeOK, Places
<1>3. CASE NextRequest(r)
  <2>1. /\ where' = [where EXCEPT ![r] = "cur"] /\ where[r] = "batch"
        /\ mFlag' = mFlag /\ cb' = cb /\ due' = due
    BY <1>3 DEF NextRequest, handleVars
  <2>2. /\ \A x \in Handles : Alive(x)' <=> Alive(x)
        /\ Calling' <=> Calling
    BY <2>1 DEF Alive, Calling
  <2> QED BY <1>1, <2>1, <2>2, DueKept DEF TypeOK, OnWay
<1>4. CASE Connected(r) \/ Complete(r) \/ ShortRead(r) \/ Refuse(r)
  BY <1>4, DueAnswered
<1>5. CASE ConnectError(r)
  <2>1. /\ CloseHandle(h, mFlag, Given(r), mFly[h])
        /\ cb'.h = h /\ ~Calling
    BY <1>5 DEF ConnectError, Current, Call, Calling, NoCall
  <2> QED BY <1>1, <1>2, <2>1, DueClosed DEF TypeOK
<1>6. CASE Fail(r)
  <2> DEFINE f == [mFlag EXCEPT ![h] = @ \ {Ready(t), Sync(t)}]
  <2>1. /\ CloseHandle(h, f, Given(r), mFly[h])
        /\ cb'.h = h /\ ~Calling
    BY <1>6 DEF Fail, Current, Call, Calling, NoCall
  <2>2. /\ f \in [Handles -> SUBSET Flags]
        /\ \A x \in Handles \ {h} : f[x] = mFlag[x]
    BY DEF TypeOK
  <2>3. \A g \in {"OPEN", "CLOSING", "CLOSE"} : g \in f[h] <=> g \in mFlag[h]
    BY <1>1 DEF Ready, Sync, TypeOK
  <2> HIDE DEF f
  <2> QED BY <1>1, <1>2, <2>1, <2>2, <2>3, DueClosed
<1>7. CASE Again(r)
  <2> USE DEF DueInv
  <2>1. /\ where[r] = "cur" /\ t # "connect" /\ Ready(t) \in mFlag[h]
        /\ mFlag' = [mFlag EXCEPT ![h] = @ \ {Sync(t)}]
        /\ where' = [where EXCEPT ![r] = QueueOf(t)]
        /\ due' = due \ {<<h, QueueOf(t)>>}
        /\ cb' = cb
    BY <1>7 DEF Again, Current
  <2>2. /\ \A x \in Handles : Alive(x)' <=> Alive(x)
        /\ \A x \in Handles \ {h} : mFlag'[x] = mFlag[x]
        /\ \A g \in Flags \ {Sync(t)} : g \in mFlag[h] => g \in mFlag'[h]
        /\ Calling' <=> Calling
    BY <1>1, <2>1 DEF Alive, Sync, Calling, TypeOK
  <2>3. \A x \in Requests \ {r} : where'[x] = where[x]
    BY <2>1 DEF TypeOK
  <2>4. where'[r] = QueueOf(t) /\ where'[r] \in {"read", "write"}
    BY <2>1 DEF TypeOK, QueueOf
  <2>5. QueuesTyped'
    BY <1>1, <2>3, <2>4 DEF QueuesTyped
  <2>6. \A y \in ReqTypes : Ready(y) \in Flags \ {Sync(t)}
    BY DEF Ready, Sync, Flags
  <2>7. ReadyKept'
    <3>1. ASSUME NEW x \in Requests, where'[x] # "free", mType'[x] # "connect",
                 Alive(mHandle[x])'
          PROVE  Ready(mType'[x]) \in mFlag'[mHandle'[x]]
      <4>1. where[x] # "free" /\ mHandle[x] \in Handles /\ mType[x] \in ReqTypes
        BY <2>1, <2>3, <3>1 DEF TypeOK
      <4>2. Ready(mType[x]) \in mFlag[mHandle[x]]
        BY <1>1, <2>2, <3>1, <4>1 DEF ReadyKept
      <4> QED BY <1>1, <2>2, <2>6, <4>1, <4>2
    <3>2. ASSUME Calling', cb'.more, Alive(cb.h)'
          PROVE  Ready(cb'.type) \in mFlag'[cb'.h]
      <4>1. cb.h \in Handles /\ cb.type \in ReqTypes
        BY DEF TypeOK, CallRecord
      <4>2. Ready(cb.type) \in mFlag[cb.h]
        BY <2>1, <2>2, <3>2, <4>1 DEF ReadyKept
      <4> QED BY <2>1, <2>2, <2>6, <4>1, <4>2
    <3> QED BY <3>1, <3>2 DEF ReadyKept
  <2>8. ASSUME NEW x \in Handles, NEW q \in {"read", "write"}, <<x, q>> \in due'
        PROVE  Alive(x)' /\ (Sync(q) \in mFlag'[x] \/ Carried(x, q)')
    <3>1. <<x, q>> \in due /\ ~(x = h /\ q = QueueOf(t))
      BY <2>1, <2>8
    <3>2. Alive(x) /\ (Sync(q) \in mFlag[x] \/ Carried(x, q))
      BY <3>1 DEF DueHeld
    <3>3. CASE Sync(q) \in mFlag[x]
      <4>1. x = h => Sync(q) \in Flags \ {Sync(t)}
        BY <1>1, <2>1, <3>1 DEF Sync, QueueOf, Flags, ReqTypes
      <4> QED BY <2>2, <3>2, <3>3, <4>1
    <3>4. CASE Carried(x, q)
      <4>1. CASE Calling /\ cb.h = x /\ cb.more /\ QueueOf(cb.type) = q
        BY <2>1, <2>2, <3>2, <4>1 DEF Carried
      <4>2. CASE \E y \in Requests : /\ mHandle[y] = x /\ QueueOf(mType[y]) = q
                                     /\ where[y] \in {"pend", "batch", "cur"}
        <5>1. PICK y \in Requests : /\ mHandle[y] = x /\ QueueOf(mType[y]) = q
                                    /\ where[y] \in {"pend", "batch", "cur"}
          BY <4>2
        <5>2. y # r
          BY <3>1, <5>1
        <5> QED BY <1>1, <2>2, <2>3, <3>2, <5>1, <5>2 DEF Carried
      <4> QED BY <3>4, <4>1, <4>2 DEF Carried
    <3> QED BY <3>2, <3>3, <3>4
  <2>9. DueHeld'
    BY <2>8 DEF DueHeld
  <2>10. ConnectWaits'
    BY <1>1, <2>1, <2>3 DEF ConnectWaits
  <2> QED BY <2>5, <2>7, <2>9, <2>10
<1> QED BY <1>3, <1>4, <1>5, <1>6, <1>7 DEF RequestStep

\* A request's callback returns: the loop goes on with the queue, or the SYNC
\* flag remembers the edge.
LEMMA DueReturn ==
    ASSUME IInv, EdgeInv, DueInv, RequestReturn
    PROVE  DueInv'
<1> DEFINE t == cb.type
<1> USE DEF IInv, DueInv
<1>1. PICK h \in Handles : h = cb.h
  BY DEF TypeOK, CallRecord
<1>2. /\ cb' = NoCall /\ ~Calling' /\ Calling
      /\ UNCHANGED <<mHandle, mType, due>>
  BY DEF RequestReturn, Calling, NoCall
<1>3. \/ /\ cb.more
         /\ \E p \in Queue(h, QueueOf(t)) : where' = [where EXCEPT ![p] = "cur"]
         /\ mFlag' = mFlag
      \/ /\ where' = where
         /\ mFlag' = IF cb.more /\ Ready(t) \in mFlag[h]
                     THEN [mFlag EXCEPT ![h] = @ \cup {Sync(t)}] ELSE mFlag
  <2> DEFINE waiting == IF cb.more THEN Queue(h, QueueOf(t)) ELSE {}
  <2>1. CASE waiting # {}
    <3>1. cb.more /\ waiting = Queue(h, QueueOf(t))
      BY <2>1
    <3> QED BY <1>1, <2>1, <3>1 DEF RequestReturn
  <2>2. CASE waiting = {}
    BY <1>1, <2>2 DEF RequestReturn
  <2> QED BY <2>1, <2>2
<1>4. \A x \in Requests : \/ where'[x] = where[x]
                          \/ /\ where[x] \in {"read", "write"} /\ where'[x] = "cur"
                             /\ where[x] # "free"
  BY <1>3 DEF Queue, QueueOf, TypeOK
<1>5. /\ \A x \in Handles : mFlag[x] \subseteq mFlag'[x]
      /\ \A x \in Handles : Alive(x)' <=> Alive(x)
  BY <1>3 DEF Alive, Sync, TypeOK
<1>6. QueuesTyped'
  BY <1>2, <1>4 DEF QueuesTyped
<1>7. \A x \in Requests : mHandle[x] \in Handles
  BY DEF TypeOK
<1>8. ReadyKept'
  BY <1>2, <1>4, <1>5, <1>7 DEF ReadyKept
<1>9. ASSUME NEW x \in Handles, NEW q \in {"read", "write"}, <<x, q>> \in due'
      PROVE  Alive(x)' /\ (Sync(q) \in mFlag'[x] \/ Carried(x, q)')
  <2>1. Alive(x) /\ (Sync(q) \in mFlag[x] \/ Carried(x, q))
    BY <1>2, <1>9 DEF DueHeld
  <2>2. CASE Sync(q) \in mFlag[x]
    BY <1>5, <2>1, <2>2
  <2>3. CASE \E y \in Requests : /\ mHandle[y] = x /\ QueueOf(mType[y]) = q
                                 /\ where[y] \in {"pend", "batch", "cur"}
    <3>1. PICK y \in Requests : /\ mHandle[y] = x /\ QueueOf(mType[y]) = q
                                /\ where[y] \in {"pend", "batch", "cur"}
      BY <2>3
    <3>2. where'[y] = where[y]
      BY <1>4, <3>1
    <3> QED BY <1>2, <1>5, <2>1, <3>1, <3>2 DEF Carried
  <2>4. CASE cb.h = x /\ cb.more /\ QueueOf(t) = q
    <3>1. t # "connect" /\ t \in ReqTypes
      BY <2>4 DEF EdgeInv, ConnectGoesNotOn, TypeOK, CallRecord
    <3>2. Ready(t) \in mFlag[h] /\ Sync(t) = Sync(q)
      BY <1>1, <1>2, <2>1, <2>4, <3>1 DEF ReadyKept, Sync, QueueOf, ReqTypes
    <3>3. CASE where' = where
      <4>1. ~ \E p \in Queue(h, QueueOf(t)) : where' = [where EXCEPT ![p] = "cur"]
        <5>1. \A p \in Queue(h, QueueOf(t)) : p \in Requests /\ where[p] # "cur"
          BY DEF Queue, QueueOf
        <5> QED BY <3>3, <5>1 DEF TypeOK
      <4>2. Sync(q) \in mFlag'[x]
        BY <1>1, <1>3, <2>4, <3>2, <4>1 DEF TypeOK
      <4> QED BY <1>5, <2>1, <4>2
    <3>4. CASE where' # where
      <4>1. PICK p \in Queue(h, QueueOf(t)) : where' = [where EXCEPT ![p] = "cur"]
        BY <1>3, <3>4
      <4>2. p \in Requests /\ mHandle[p] = h /\ QueueOf(mType[p]) = q
        BY <2>4, <4>1 DEF Queue, QueuesTyped, QueueOf
      <4>3. where'[p] = "cur"
        BY <4>1, <4>2 DEF TypeOK
      <4> QED BY <1>1, <1>2, <1>5, <2>1, <2>4, <4>2, <4>3 DEF Carried
    <3> QED BY <3>3, <3>4
  <2> QED BY <2>1, <2>2, <2>3, <2>4 DEF Carried
<1>10. DueHeld'
  BY <1>9 DEF DueHeld
<1>11. ConnectWaits'
  BY <1>2, <1>4 DEF ConnectWaits
<1> QED BY <1>6, <1>8, <1>10, <1>11

\* Every step keeps it.
LEMMA DueInductive ==
    ASSUME IInv, EdgeInv, ErrorAlone, DueInv, [Next]_vars
    PROVE  DueInv'
<1> USE DEF IInv, handleVars, reqVars
<1>1. CASE ~torn /\ UserStep
  BY <1>1, DueUser
<1>2. CASE \E r \in Requests : RequestStep(r)
  BY <1>2, DueRequest
<1>3. CASE RequestReturn
  BY <1>3, DueReturn
<1>4. CASE TimerClose
  <2>1. /\ cb.h \in Handles
        /\ CloseHandle(cb.h, mFlag, where, mFly[cb.h])
        /\ UNCHANGED <<mHandle, mType>> /\ ~Calling /\ ~Calling'
    BY <1>4 DEF TimerClose, TypeOK, CallRecord, Calling, NoCall
  <2> QED BY <2>1, DueClosed DEF TypeOK
<1>5. ASSUME NEW h \in Handles, StopClose(h)
      PROVE  DueInv'
  <2>1. /\ CloseHandle(h, mFlag, where, mFly[h])
        /\ UNCHANGED <<mHandle, mType, cb>>
    BY <1>5 DEF StopClose
  <2> QED BY <2>1, DueClosed DEF TypeOK
<1>6. CASE CmdDone
  <2>1. /\ cb' = [cb EXCEPT !.kind = "ret"] /\ due' = due
        /\ Calling /\ Calling'
        /\ cb'.h = cb.h /\ cb'.more = cb.more /\ cb'.type = cb.type
    BY <1>6 DEF CmdDone, Calling, TypeOK, CallRecord
  <2>2. CASE mStop
    <3>1. UNCHANGED <<mFlag, where, mHandle, mType>>
      BY <1>6, <2>2 DEF CmdDone
    <3>2. \A x \in Handles : Alive(x)' <=> Alive(x)
      BY <3>1 DEF Alive
    <3> QED BY <2>1, <3>1, <3>2, DueKept
  <2>3. CASE ~mStop
    <3>1. "READABLE" \in mFlag[CMD] /\ Post(CMD, ReadCMD, "read", where)
      BY <1>6, <2>3 DEF CmdDone
    <3>2. where[ReadCMD] = "free" /\ CMD \in Handles /\ ReadCMD \in Requests
      BY <1>6, ConstantsOK DEF CmdDone, CmdOwned
    <3>3. "read" \in ReqTypes \ {"connect"} /\ Ready("read") = "READABLE"
      BY DEF ReqTypes, Ready
    <3> QED BY <2>1, <3>1, <3>2, <3>3, DuePosted
  <2> QED BY <2>2, <2>3
<1>7. ASSUME NEW h \in Handles, NEW q \in {"read", "write"}, Event(h, q)
      PROVE  DueInv'
  BY <1>7, DueEvent
<1>8. CASE \/ InitReturn \/ TimerAgain \/ EndTimers \/ BeginPending \/ StopEnd
           \/ BeginClosed \/ (\E h \in Handles : CloseCall(h)) \/ CloseReturn
           \/ EndTick \/ CmdStop \/ (\E h \in Handles : TimerFire(h))
           \/ UNCHANGED vars
  <2>1. UNCHANGED <<mHandle, mType, due>>
    BY <1>8 DEF InitReturn, TimerAgain, EndTimers, BeginPending, StopEnd,
        BeginClosed, CloseCall, CloseReturn, EndTick, CmdStop, TimerFire, vars
  <2>2. \A x \in Handles : \A g \in Flags \ {"CLOSE"} : g \in mFlag'[x] <=> g \in mFlag[x]
    <3>1. CASE \E h \in Handles : CloseCall(h)
      BY <3>1 DEF CloseCall, TypeOK
    <3>2. CASE ~ \E h \in Handles : CloseCall(h)
      BY <1>8, <3>2 DEF InitReturn, TimerAgain, EndTimers, BeginPending, StopEnd,
          BeginClosed, CloseReturn, EndTick, CmdStop, TimerFire, vars
    <3> QED BY <3>1, <3>2
  <2>3. /\ \A x \in Requests : where'[x] \in {"read", "write"} => where'[x] = where[x]
        /\ \A x \in Requests : where[x] = "free" => where'[x] = "free"
        /\ \A x \in Requests : where[x] \in OnWay => where'[x] \in OnWay
    <3>1. CASE BeginPending
      BY <3>1 DEF BeginPending, OnWay
    <3>2. CASE where' = where
      BY <3>2
    <3> QED
      BY <1>8, <3>1, <3>2 DEF InitReturn, TimerAgain, EndTimers, StopEnd,
        BeginClosed, CloseCall, CloseReturn, EndTick, CmdStop, TimerFire, vars
  <2>4. /\ Calling' <=> Calling
        /\ Calling => cb'.h = cb.h /\ cb'.more = cb.more /\ cb'.type = cb.type
    <3>1. CASE InitReturn \/ TimerAgain \/ CloseReturn
      BY <3>1 DEF InitReturn, TimerAgain, CloseReturn, Calling, NoCall
    <3>2. CASE CmdStop \/ StopEnd
      <4>1. /\ Calling
            /\ \/ cb' = [cb EXCEPT !.kind = "stop"]
               \/ cb' = [cb EXCEPT !.kind = "ret"]
               \/ cb' = [cb EXCEPT !.kind = "req"]
        BY <3>2 DEF CmdStop, StopEnd, Calling
      <4>2. cb \in CallRecord
        BY DEF TypeOK
      <4> QED BY <4>1, <4>2 DEF CallRecord, Calling
    <3>3. CASE \E h \in Handles : CloseCall(h)
      BY <3>3 DEF CloseCall, Call, Calling, NoCall
    <3>4. CASE \E h \in Handles : TimerFire(h)
      BY <3>4 DEF TimerFire, Call, Calling, NoCall
    <3>5. CASE cb' = cb
      BY <3>5 DEF Calling
    <3> QED
      BY <1>8, <3>1, <3>2, <3>3, <3>4, <3>5
      DEF EndTimers, BeginPending, BeginClosed, EndTick, vars
  <2>5. \A x \in Handles : Alive(x)' <=> Alive(x)
    BY <2>2 DEF Alive, Flags
  <2>6. \A x \in Handles : \A g \in {"READABLE", "WRITEABLE", "SYNC_READ", "SYNC_WRITE"} :
          g \in mFlag[x] => g \in mFlag'[x]
    BY <2>2 DEF Flags
  <2> QED BY <2>1, <2>3, <2>4, <2>5, <2>6, DueKept
<1> QED
  BY <1>1, <1>2, <1>3, <1>4, <1>5, <1>6, <1>7, <1>8
  DEF Next, LoopStep, Finished, Directions

-----------------------------------------------------------------------------
(* The theorems.                                                           *)

\* The inductive invariant holds of every state of the loop.
THEOREM Invariance == Spec => []IInv
<1>1. Init => IInv
  BY Starts
<1>2. IInv /\ [Next]_vars => IInv'
  BY Inductive
<1> QED BY <1>1, <1>2, PTL DEF Spec

\* Every variable keeps its type; no count ever goes below zero.
THEOREM TypeCorrect == Spec => []TypeOK
<1>1. IInv => TypeOK
  BY DEF IInv
<1> QED BY <1>1, Invariance, PTL

\* Handle::mFlyRequest and Loop::mFlyRequest count exactly the requests the
\* loop holds, the one whose callback is running included.
THEOREM FlyCorrect == Spec => []FlyCounted
<1>1. IInv => FlyCounted
  BY DEF IInv
<1> QED BY <1>1, Invariance, PTL

\* Loop::mGrabCount is the number of handles not closed yet, and one more once a
\* handle was opened while it was still linked.
THEOREM LoopGrabCorrect == Spec => []LoopCountsHandles
<1>1. IInv => LoopCountsHandles
  BY DEF IInv
<1> QED BY <1>1, Invariance, PTL

\* No request is in flight for a handle that waits for its close callback or
\* has had it: the callback may delete the handle.
THEOREM CloseCorrect == Spec => []CloseIsLast
<1>1. ASSUME IInv
      PROVE  CloseIsLast
  <2>1. SUFFICES ASSUME NEW h \in Handles, node[h] # "active"
                 PROVE  /\ InFlight(h) = {}
                        /\ ~(Calling /\ cb.h = h)
                        /\ mGrab[h] = 0
    BY DEF CloseIsLast
  <2>2. InFlight(h) = {}
    BY <1>1, <2>1, InFlightActive DEF InFlight
  <2>3. mFly[h] = 0 /\ mGrab[h] = 0
    BY <1>1, <2>1 DEF IInv, HandleOK
  <2>4. ~(Calling /\ cb.h = h)
    BY <1>1, <2>3, Finite DEF IInv, FlyCounted
  <2> QED BY <2>2, <2>3, <2>4
<1> QED BY <1>1, Invariance, PTL

\* run() returns false only when every handle has had its close callback and
\* every request has been handed back.
THEOREM QuitCorrect == Spec => []QuitClean
<1>1. ASSUME IInv
      PROVE  QuitClean
  <2>1. SUFFICES ASSUME pc = "done"
                 PROVE  /\ \A h \in Handles : node[h] = "none"
                        /\ \A r \in Requests : where[r] = "free"
                        /\ loopGrab = 0 /\ loopFly = 0
    BY DEF QuitClean
  <2>2. cb.kind = "none" /\ loopGrab = 0
    BY <1>1, <2>1 DEF IInv, DoneOK
  <2>3. Cardinality(Linked) = 0
    BY <1>1, <2>2, Finite DEF IInv, LoopCountsHandles
  <2>4. \A h \in Handles : node[h] = "none"
    BY <2>3, Finite, FS_EmptySet DEF Linked
  <2>5. \A r \in Requests : where[r] = "free"
    BY <1>1, <2>4, InFlightActive
  <2>6. Held = {} /\ ~Calling
    BY <2>2, <2>5 DEF Held, Calling
  <2>7. loopFly = 0
    BY <1>1, <2>6, FS_EmptySet DEF IInv, FlyCounted
  <2> QED BY <2>2, <2>4, <2>5, <2>7
<1> QED BY <1>1, Invariance, PTL

\* A handle that is closing gets no new request before its close callback, but
\* for one opened again in the callback of its failed connect.
THEOREM DrainCorrect == Spec => ClosingDrains
<1>1. ASSUME IInv, [Next]_vars, NEW h \in Handles,
             "CLOSING" \in mFlag[h], node[h] # "none"
      PROVE  mFly'[h] <= mFly[h] \/ torn'
  <2>1. mFly \in [Handles -> Nat] /\ ~Alive(h)
    BY <1>1 DEF IInv, TypeOK, Alive
  <2>2. "READABLE" \notin mFlag[h] /\ "WRITEABLE" \notin mFlag[h]
    BY <1>1, <2>1 DEF IInv, HandleOK
  <2>3. CASE mFly' = mFly
    BY <2>1, <2>3
  <2>4. CASE RequestReturn
    <3>1. mFly' = [mFly EXCEPT ![cb.h] = @ - 1]
      BY <2>4 DEF RequestReturn
    <3> QED BY <2>1, <3>1
  <2>5. ASSUME NEW x \in Handles \ {h}, mFly' = [mFly EXCEPT ![x] = @ + 1]
        PROVE  mFly'[h] <= mFly[h]
    BY <2>1, <2>5
  <2>6. ASSUME NEW x \in Handles, NEW r \in Requests,
               NEW t \in ReqTypes, Request(x, r, t)
        PROVE  mFly'[h] <= mFly[h]
    <3>1. x # h /\ mFly' = [mFly EXCEPT ![x] = @ + 1]
      BY <2>2, <2>6 DEF Request, Post, BindFly, Ready
    <3> QED BY <3>1, <2>5
  <2>7. ASSUME NEW x \in Handles, NEW r \in Requests,
               OpenConnect(x, r) \/ OpenConnectFails(x, r)
        PROVE  mFly'[h] <= mFly[h] \/ torn'
    <3>1. mFly' = [mFly EXCEPT ![x] = @ + 1] /\ Link(x)
      BY <2>7 DEF OpenConnect, OpenConnectFails, BindFly
    <3>2. x = h => torn'
      BY <1>1, <3>1 DEF Link
    <3> QED BY <3>1, <3>2, <2>5
  <2>8. CASE CmdDone
    <3>1. mFly' = mFly \/ (h # CMD /\ mFly' = [mFly EXCEPT ![CMD] = @ + 1])
      BY <2>2, <2>8 DEF CmdDone, Post, BindFly
    <3> QED BY <3>1, <2>3, <2>5, ConstantsOK
  <2>9. CASE UserStep
    <3>1. PICK x \in Handles :
            \/ mFly' = mFly
            \/ \E r \in Requests : Read(x, r) \/ Write(x, r) \/ Accept(x, r)
                   \/ OpenConnect(x, r) \/ OpenConnectFails(x, r)
      BY <2>9 DEF UserStep, Close, OpenRefused, OpenFails, Open
    <3> QED BY <3>1, <2>3, <2>6, <2>7 DEF Read, Write, Accept, ReqTypes
  <2>10. CASE \E r \in Requests : RequestStep(r)
    <3>1. mFly' = mFly
      BY <2>10 DEF RequestStep, NextRequest, Connected, ConnectError, Complete,
                   ShortRead, Again, Fail, Refuse, handleVars
    <3> QED BY <3>1, <2>3
  <2>11. CASE LoopStep
    BY <2>11, <2>3, <2>4, <2>8, <2>10
    DEF LoopStep, InitReturn, TimerAgain, TimerClose, EndTimers, BeginPending,
        StopClose, StopEnd, BeginClosed, CloseCall, CloseReturn, EndTick,
        handleVars
  <2>12. mFly' = mFly \/ UserStep \/ LoopStep
    BY <1>1 DEF Next, CmdStop, TimerFire, Event, Finished, vars, handleVars
  <2> QED BY <2>3, <2>9, <2>11, <2>12
<1>2. IInv /\ [Next]_vars =>
        [\A h \in Handles :
           ("CLOSING" \in mFlag[h] /\ node[h] # "none") =>
               mFly'[h] <= mFly[h] \/ torn']_vars
  BY <1>1
<1> QED BY <1>2, Invariance, PTL DEF Spec, ClosingDrains

\* The edges' invariants hold of every state, for they do at the start and every
\* step that starts from IInv keeps them.
LEMMA EdgesInvariant == Spec => [](EdgeInv /\ ErrorAlone /\ DueInv)
<1>1. Init => EdgeInv
  BY ConstantsOK DEF Init, EdgeInv, WaitersAlive, NotBeside, ConnectAlone,
     ConnectGoesNotOn, NoCall, Alive, OpenFlags, Sync, Queue
<1>2. Init => ErrorAlone
  BY DEF Init, ErrorAlone, NoCall
<1>3. Init => DueInv
  BY ConstantsOK DEF Init, DueInv, QueuesTyped, ReadyKept, DueHeld, ConnectWaits,
     NoCall, Calling, OpenFlags, Ready, QueueOf
<1>4. IInv /\ (EdgeInv /\ ErrorAlone /\ DueInv) /\ [Next]_vars
        => (EdgeInv /\ ErrorAlone /\ DueInv)'
  BY EdgesInductive, ErrorAloneInductive, DueInductive
<1> QED BY <1>1, <1>2, <1>3, <1>4, Invariance, PTL DEF Spec

\* A request that waits belongs to a handle epoll still watches, and it waits
\* for an edge that epoll has yet to report: of one already reported, another
\* request of the handle or its callback is in the loop's hands, and the loop
\* goes on to the queue after it.
THEOREM StrandedCorrect == Spec => []NoStrandedRequest
<1>1. ASSUME IInv, EdgeInv, DueInv
      PROVE  NoStrandedRequest
  <2>1. SUFFICES ASSUME NEW r \in Requests, where[r] \in {"read", "write"}
                 PROVE  /\ Alive(mHandle[r])
                        /\ <<mHandle[r], where[r]>> \in due =>
                               Carried(mHandle[r], where[r])
    BY DEF NoStrandedRequest, Directions
  <2>2. Alive(mHandle[r]) /\ mHandle[r] \in Handles
    BY <1>1, <2>1 DEF EdgeInv, WaitersAlive, IInv, TypeOK
  <2>3. SUFFICES ASSUME <<mHandle[r], where[r]>> \in due,
                        ~Carried(mHandle[r], where[r])
                 PROVE  FALSE
    BY <2>2
  <2>4. Sync(where[r]) \in mFlag[mHandle[r]]
    BY <1>1, <2>1, <2>2, <2>3 DEF DueInv, DueHeld
  <2>5. r \in Queue(mHandle[r], where[r])
    BY DEF Queue
  <2>6. Connecting(mHandle[r])
    BY <1>1, <2>1, <2>2, <2>4, <2>5 DEF EdgeInv, NotBeside
  <2>7. mType[r] = "connect"
    BY <1>1, <2>1, <2>6 DEF EdgeInv, ConnectAlone, Connecting
  <2>8. where[r] = "write"
    BY <1>1, <2>1, <2>7 DEF DueInv, QueuesTyped, QueueOf
  <2> QED BY <1>1, <2>3, <2>7, <2>8 DEF DueInv, ConnectWaits
<1> QED BY <1>1, Invariance, EdgesInvariant, PTL

\* No edge is lost: what epoll has reported and no call has found drained is in
\* the SYNC flag of the handle or in the hands of the loop, whatever callbacks
\* post, close and reopen between the event and updatePending(); and the flag
\* never stands beside a request that waits.
THEOREM EdgeCorrect == Spec => []NoMissedEdge
<1>1. ASSUME EdgeInv, DueInv
      PROVE  NoMissedEdge
  <2>1. SUFFICES ASSUME NEW h \in Handles, NEW q \in {"read", "write"}
                 PROVE  /\ <<h, q>> \in due => Sync(q) \in mFlag[h] \/ Carried(h, q)
                        /\ Alive(h) /\ ~Connecting(h) /\ Sync(q) \in mFlag[h]
                               => Queue(h, q) = {}
    BY DEF NoMissedEdge, Directions
  <2>2. <<h, q>> \in due => Sync(q) \in mFlag[h] \/ Carried(h, q)
    BY <1>1 DEF DueInv, DueHeld
  <2>3. Alive(h) /\ ~Connecting(h) /\ Sync(q) \in mFlag[h] => Queue(h, q) = {}
    BY <1>1 DEF EdgeInv, NotBeside
  <2> QED BY <2>2, <2>3
<1> QED BY <1>1, EdgesInvariant, PTL
=============================================================================
