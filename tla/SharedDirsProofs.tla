------------------------- MODULE SharedDirsProofs -------------------------
(***************************************************************************)
(* Proofs about SharedDirs, for every tree of directories, every set of    *)
(* callers and every bound.                                                *)
(***************************************************************************)
EXTENDS SharedDirs, TLAPS

\* A call that shares, unshares or loads is where such calls get to, and one that
\* walks has created its watcher.
CallShape ==
  \A c \in Caller :
    /\ call[c].at \in {"watch", "walk", "unmark", "invalidate", "stop", "row"} <=>
         call[c].kind \in {"share", "unshare", "load"}
    /\ call[c].at = "walk" => call[c].gen # 0

TypeInv == TypeOK /\ CallShape

LEMMA RecordTypes ==
  /\ Unborn \in Watcher /\ Closed \in Watcher /\ NoCall \in Call /\ Nothing \in Tree
  BY SharedDirsAssumption DEF Unborn, Closed, Watcher, NoCall, Call, Nothing, Tree

LEMMA VisitsType ==
  ASSUME NEW w \in Watcher, NEW d \in Dir
  PROVE  /\ Visits(w, d) \in Watcher
         /\ Visits(w, d).at = w.at /\ Visits(w, d).done = w.done
         /\ Visits(w, d).gap = w.gap /\ Visits(w, d).pending = w.pending
         /\ Visits(w, d).watches = w.watches \cup {d}
         /\ Visits(w, d).todo = (w.todo \ {d}) \cup {e \in Below(d) : Exists(e)}
  <1>1. {e \in Below(d) : Exists(e)} \subseteq Dir
    BY DEF Below
  <1> QED
    BY <1>1 DEF Visits, Watcher

LEMMA BuildsFlawedType ==
  ASSUME TypeOK
  PROVE  /\ BuildsFlawed \in [Caller -> Call]
         /\ \A c \in Caller : /\ BuildsFlawed[c].kind = call[c].kind
                              /\ BuildsFlawed[c].at = call[c].at
                              /\ BuildsFlawed[c].gen = call[c].gen
                              /\ BuildsFlawed[c].todo = call[c].todo
                              /\ BuildsFlawed[c].seen = call[c].seen
  <1>1. ASSUME NEW c \in Caller
        PROVE  [call[c] EXCEPT !.flawed = @ \/ call[c].kind = "tree"] \in Call
    <2>1. call[c] \in Call
      BY DEF TypeOK
    <2>2. (call[c].flawed \/ call[c].kind = "tree") \in BOOLEAN
      OBVIOUS
    <2> QED
      BY <2>1, <2>2 DEF Call
  <1> QED
    BY <1>1 DEF BuildsFlawed, TypeOK, Call

\* What the files do to watchers and calls.
LEMMA NotifyKeeps ==
  ASSUME TypeOK, NEW d \in Dir, NEW child \in Event, Notify(d, child)
  PROVE  /\ watcher' \in [Gen -> Watcher]
         /\ \A g \in Gen : /\ watcher'[g].at = watcher[g].at
                           /\ watcher'[g].done = watcher[g].done
                           /\ watcher'[g].watches = watcher[g].watches
                           /\ watcher'[g].todo = watcher[g].todo
                           /\ watcher'[g].gap = watcher[g].gap
                           /\ watcher[g].pending \subseteq watcher'[g].pending
                           /\ d \in watcher[g].watches => child \in watcher'[g].pending
         /\ flawed' \in BOOLEAN
         /\ call' = call \/ call' = BuildsFlawed
  <1>1. \A g \in Gen : watcher[g] \in Watcher
    BY DEF TypeOK
  <1>2. ASSUME NEW g \in Gen
        PROVE  [watcher[g] EXCEPT !.pending = @ \cup {child}] \in Watcher
    BY <1>1 DEF Watcher
  <1> QED
    BY <1>1, <1>2 DEF Notify, TypeOK, Watcher
-----------------------------------------------------------------------------
(* The steps of the files and of the watchers. *)

LEMMA FilesType ==
  ASSUME TypeInv, NEW d \in Dir, FileChanges(d) \/ DirectoryCreated(d)
  PROVE  TypeInv'
  <1> USE DEF TypeInv
  <1>1. Notify(d, NoDir) \/ (d # Root /\ Parent[d] \in Dir /\ Notify(Parent[d], d))
    BY SharedDirsAssumption DEF FileChanges, DirectoryCreated
  <1>2. /\ watcher' \in [Gen -> Watcher] /\ flawed' \in BOOLEAN
        /\ \A g \in Gen : watcher'[g].at = watcher[g].at /\ watcher'[g].done = watcher[g].done
        /\ call' = call \/ call' = BuildsFlawed
    BY <1>1, NotifyKeeps DEF Event
  <1>3. disk' \in Tree
    <2>1. CASE FileChanges(d)
      BY <2>1 DEF FileChanges, TypeOK, Tree
    <2>2. CASE DirectoryCreated(d)
      <3>1. Parent[d] \in Dir
        BY <2>2, SharedDirsAssumption DEF DirectoryCreated
      <3> QED
        BY <2>2, <3>1 DEF DirectoryCreated, TypeOK, Tree
    <2> QED
      BY <2>1, <2>2
  <1>4. call' \in [Caller -> Call] /\ CallShape'
    BY <1>2, BuildsFlawedType DEF TypeOK, CallShape
  <1>5. /\ UNCHANGED <<shared, row, current, created, cache, raced, adrift, calls, starts>>
        /\ changes' \in 0 .. MaxChanges
    BY SharedDirsAssumption DEF FileChanges, DirectoryCreated, Changes, TypeOK
  <1>6. current # 0 => current \in Gen
    BY SharedDirsAssumption DEF TypeOK, Gen
  <1> QED
    BY <1>2, <1>3, <1>4, <1>5, <1>6 DEF TypeOK

\* A watcher that changes and stays what the map needs.
LEMMA BecomesType ==
  ASSUME TypeOK, NEW g \in Gen, NEW w \in Watcher, Becomes(g, w),
         current' = current, created' = created,
         g = current => w.at \in Alive /\ ~w.done
  PROVE  /\ watcher' \in [Gen -> Watcher]
         /\ (current # 0 => watcher[current].at \in Alive /\ ~watcher[current].done)'
  BY SharedDirsAssumption DEF Becomes, TypeOK, Gen

LEMMA InvalidateType ==
  ASSUME TypeInv, Invalidate
  PROVE  /\ cache' \in Tree \cup {NoTree} /\ flawed' \in BOOLEAN
         /\ call' \in [Caller -> Call] /\ CallShape'
  BY BuildsFlawedType DEF Invalidate, TypeInv, CallShape

LEMMA HandleEventType ==
  ASSUME TypeInv, NEW g \in Gen, NEW e \in Event, HandleEvent(g, e)
  PROVE  TypeInv'
  <1> DEFINE w == [watcher[g] EXCEPT !.pending = @ \ {e}, !.todo = {e} \ {NoDir}]
  <1>1. watcher[g] \in Watcher
    BY DEF TypeInv, TypeOK
  <1>2. w \in Watcher /\ w.at = watcher[g].at /\ w.done = watcher[g].done
    BY <1>1, SharedDirsAssumption DEF Watcher, Event
  <1>3. Becomes(g, w) /\ Invalidate
    BY DEF HandleEvent
  <1>4. UNCHANGED <<disk, row, raced, adrift, calls, changes, starts, shared, current, created>>
    BY DEF HandleEvent, files, counts
  <1>5. g = current => w.at \in Alive /\ ~w.done
    BY <1>2, SharedDirsAssumption DEF TypeInv, TypeOK, Gen
  <1> HIDE DEF w
  <1>6. /\ watcher' \in [Gen -> Watcher]
        /\ (current # 0 => watcher[current].at \in Alive /\ ~watcher[current].done)'
    BY <1>2, <1>3, <1>4, <1>5, BecomesType DEF TypeInv
  <1> QED
    BY <1>3, <1>4, <1>6, InvalidateType DEF TypeInv, TypeOK

LEMMA WalkNewType ==
  ASSUME TypeInv, NEW g \in Gen, WalkNew(g)
  PROVE  TypeInv'
  <1>1. watcher[g] \in Watcher
    BY DEF TypeInv, TypeOK
  <1>2. PICK w \in Watcher : Becomes(g, w) /\ w.at = watcher[g].at /\ w.done = watcher[g].done
    <2>1. CASE \E d \in watcher[g].todo : Becomes(g, Visits(watcher[g], d))
      <3>1. PICK d \in watcher[g].todo : Becomes(g, Visits(watcher[g], d))
        BY <2>1
      <3>2. d \in Dir
        BY <1>1 DEF Watcher
      <3> QED
        BY <1>1, <3>1, <3>2, VisitsType
    <2>2. CASE Becomes(g, [watcher[g] EXCEPT !.todo = {}, !.gap = TRUE])
      <3>1. [watcher[g] EXCEPT !.todo = {}, !.gap = TRUE] \in Watcher
        BY <1>1 DEF Watcher
      <3>2. /\ [watcher[g] EXCEPT !.todo = {}, !.gap = TRUE].at = watcher[g].at
            /\ [watcher[g] EXCEPT !.todo = {}, !.gap = TRUE].done = watcher[g].done
        BY <1>1 DEF Watcher
      <3> QED
        BY <2>2, <3>1, <3>2
    <2> QED
      BY <2>1, <2>2 DEF WalkNew
  <1>3. UNCHANGED <<disk, row, raced, adrift, calls, changes, starts, shared, current, created,
                    cache, flawed, call>>
    BY DEF WalkNew, files, counts
  <1>4. g = current => w.at \in Alive /\ ~w.done
    BY <1>2, SharedDirsAssumption DEF TypeInv, TypeOK, Gen
  <1>5. /\ watcher' \in [Gen -> Watcher]
        /\ (current # 0 => watcher[current].at \in Alive /\ ~watcher[current].done)'
    BY <1>2, <1>3, <1>4, BecomesType DEF TypeInv
  <1> QED
    BY <1>3, <1>5 DEF TypeInv, TypeOK, CallShape

LEMMA OverflowType ==
  ASSUME TypeInv, NEW g \in Gen, Overflow(g)
  PROVE  TypeInv'
  <1> DEFINE w == [watcher[g] EXCEPT !.pending = {}, !.gap = TRUE]
  <1>1. watcher[g] \in Watcher
    BY DEF TypeInv, TypeOK
  <1>2. w \in Watcher /\ w.at = watcher[g].at /\ w.done = watcher[g].done
    BY <1>1 DEF Watcher
  <1>3. Becomes(g, w) /\ call' = BuildsFlawed /\ flawed' \in BOOLEAN
    BY DEF Overflow
  <1>4. UNCHANGED <<disk, row, raced, adrift, calls, changes, starts, shared, current, created,
                    cache>>
    BY DEF Overflow, files, counts
  <1>5. g = current => w.at \in Alive /\ ~w.done
    BY <1>2, SharedDirsAssumption DEF TypeInv, TypeOK, Gen
  <1> HIDE DEF w
  <1>6. /\ watcher' \in [Gen -> Watcher]
        /\ (current # 0 => watcher[current].at \in Alive /\ ~watcher[current].done)'
    BY <1>2, <1>3, <1>4, <1>5, BecomesType DEF TypeInv
  <1> QED
    BY <1>3, <1>4, <1>6, BuildsFlawedType DEF TypeInv, TypeOK, CallShape

LEMMA WatcherEndsType ==
  ASSUME TypeInv, NEW g \in Gen, WatcherEnds(g)
  PROVE  TypeInv'
  <1>1. g # current
    BY SharedDirsAssumption DEF WatcherEnds, TypeInv, TypeOK, Gen
  <1>2. UNCHANGED <<disk, row, raced, adrift, calls, changes, starts, shared, current, created,
                    cache, flawed, call>>
    BY DEF WatcherEnds, files, counts
  <1>3. /\ watcher' \in [Gen -> Watcher]
        /\ (current # 0 => watcher[current].at \in Alive /\ ~watcher[current].done)'
    BY <1>1, <1>2, RecordTypes, BecomesType DEF WatcherEnds, TypeInv
  <1> QED
    BY <1>2, <1>3 DEF TypeInv, TypeOK, CallShape
-----------------------------------------------------------------------------
(* The steps of the calls. *)

\* A record of a call fits where it is.
Fits(r) ==
  /\ r \in Call
  /\ r.at \in {"watch", "walk", "unmark", "invalidate", "stop", "row"} <=>
       r.kind \in {"share", "unshare", "load"}
  /\ r.at = "walk" => r.gen # 0

LEMMA CallsFit ==
  TypeInv => \A c \in Caller : Fits(call[c]) /\ Fits(BuildsFlawed[c])
  BY BuildsFlawedType DEF TypeInv, TypeOK, CallShape, Fits

LEMMA CallBecomes ==
  ASSUME NEW B, B \in [Caller -> Call], \A x \in Caller : Fits(B[x]),
         NEW c \in Caller, NEW r, Fits(r), call' = [B EXCEPT ![c] = r]
  PROVE  call' \in [Caller -> Call] /\ CallShape'
  BY DEF Fits, CallShape

LEMMA GoesType ==
  ASSUME TypeInv, NEW c \in Caller,
         NEW at \in {"watch", "walk", "unmark", "invalidate", "stop", "row"},
         call[c].kind \in {"share", "unshare", "load"}, at = "walk" => call[c].gen # 0,
         Goes(c, at)
  PROVE  call' \in [Caller -> Call] /\ CallShape'
  <1> DEFINE r == [call[c] EXCEPT !.at = at]
  <1>1. call[c] \in Call /\ call \in [Caller -> Call]
    BY DEF TypeInv, TypeOK
  <1>2. r \in Call /\ r.at = at /\ r.kind = call[c].kind /\ r.gen = call[c].gen
    BY <1>1 DEF Call
  <1>3. call' = [call EXCEPT ![c] = r]
    BY <1>1 DEF Goes
  <1>4. Fits(r)
    BY <1>2 DEF Fits
  <1> QED
    BY ONLY <1>1, <1>3, <1>4, CallsFit, CallBecomes, TypeInv

LEMMA ReturnsType ==
  ASSUME TypeInv, NEW c \in Caller, Returns(c)
  PROVE  call' \in [Caller -> Call] /\ CallShape'
  <1>1. Fits(NoCall)
    BY RecordTypes DEF Fits, NoCall
  <1> QED
    BY <1>1, CallsFit, CallBecomes DEF Returns, TypeInv, TypeOK

LEMMA BeginsType ==
  ASSUME TypeInv, NEW c \in Caller, NEW kind, NEW at, Begins(c, kind, at),
         <<kind, at>> \in {<<"share", "watch">>, <<"unshare", "invalidate">>, <<"tree", "build">>},
         shared' \in BOOLEAN, raced' \in BOOLEAN
  PROVE  TypeInv'
  <1> DEFINE start == IF kind = "tree" THEN {Root} ELSE {}
             r == [NoCall EXCEPT !.kind = kind, !.at = at, !.todo = start]
  <1>1. start \subseteq Dir
    BY SharedDirsAssumption
  <1> HIDE DEF start
  <1>2. r \in Call
    BY <1>1, RecordTypes DEF Call, NoCall
  <1>3. Fits(r)
    BY <1>2 DEF Fits, NoCall
  <1>4. call' = [call EXCEPT ![c] = r]
    BY DEF Begins, start
  <1> HIDE DEF r
  <1>5. call' \in [Caller -> Call] /\ CallShape'
    BY <1>3, <1>4, CallsFit, CallBecomes DEF TypeInv, TypeOK
  <1>6. /\ UNCHANGED <<disk, row, current, watcher, created, cache, flawed, adrift, changes, starts>>
        /\ calls' \in 0 .. MaxCalls
    BY SharedDirsAssumption DEF Begins, TypeInv, TypeOK
  <1> QED
    BY <1>5, <1>6 DEF TypeInv, TypeOK

LEMMA CallsType ==
  ASSUME TypeInv, NEW c \in Caller,
         ShareDirectory(c) \/ UnshareDirectory(c) \/ GetLocalTree(c)
  PROVE  TypeInv'
  <1>1. CASE ShareDirectory(c)
    <2>1. shared' \in BOOLEAN /\ raced' \in BOOLEAN
      BY <1>1 DEF ShareDirectory, TypeInv, TypeOK
    <2> QED
      BY <1>1, <2>1, BeginsType DEF ShareDirectory
  <1>2. CASE UnshareDirectory(c)
    BY <1>2, BeginsType DEF UnshareDirectory, TypeInv, TypeOK
  <1>3. CASE GetLocalTree(c)
    <2>1. shared' \in BOOLEAN /\ raced' \in BOOLEAN
      BY <1>3 DEF GetLocalTree, TypeInv, TypeOK
    <2> QED
      BY <1>3, <2>1, BeginsType DEF GetLocalTree
  <1> QED
    BY <1>1, <1>2, <1>3

\* Every variable but those of the calls and of the watchers has its type.
Rest ==
  /\ disk \in Tree /\ shared \in BOOLEAN /\ row \in BOOLEAN /\ raced \in BOOLEAN
  /\ adrift \in BOOLEAN /\ cache \in Tree \cup {NoTree} /\ flawed \in BOOLEAN
  /\ calls \in 0 .. MaxCalls /\ changes \in 0 .. MaxChanges /\ starts \in 0 .. MaxStarts

Watchers ==
  /\ current # 0 => watcher[current].at \in Alive /\ ~watcher[current].done
  /\ current \in 0 .. created /\ created \in 0 .. MaxCalls
  /\ watcher \in [Gen -> Watcher]

LEMMA EnsureRootWatcherType ==
  ASSUME TypeInv, NEW c \in Caller, EnsureRootWatcher(c)
  PROVE  TypeInv'
  <1>1. Rest'
    BY DEF EnsureRootWatcher, files, counts, TypeInv, TypeOK, Rest
  <1>2. call[c].kind \in {"share", "unshare", "load"}
    BY DEF EnsureRootWatcher, TypeInv, CallShape
  <1>3. CASE /\ Goes(c, "invalidate") \/ Goes(c, "unmark")
             /\ UNCHANGED <<current, watcher, created>>
    <2>1. call' \in [Caller -> Call] /\ CallShape'
      BY <1>2, <1>3, GoesType
    <2> QED
      BY <1>1, <1>3, <2>1 DEF TypeInv, TypeOK, CallShape, Rest, Watchers
  <1>4. CASE /\ current = 0 /\ created < MaxCalls
             /\ created' = created + 1 /\ current' = created + 1
             /\ Becomes(created + 1, [Unborn EXCEPT !.at = "walk", !.todo = {Root}])
             /\ call' = [call EXCEPT ![c].at = "walk", ![c].gen = created + 1]
    <2> DEFINE w == [Unborn EXCEPT !.at = "walk", !.todo = {Root}]
               r == [call[c] EXCEPT !.at = "walk", !.gen = created + 1]
    <2>1. created + 1 \in Gen /\ created \in Nat /\ created + 1 # 0
      BY <1>4, SharedDirsAssumption DEF TypeInv, TypeOK, Gen
    <2>2. w \in Watcher /\ w.at = "walk" /\ w.done = FALSE
      BY RecordTypes, SharedDirsAssumption DEF Watcher, Unborn
    <2>3. Watchers'
      BY <1>4, <2>1, <2>2, SharedDirsAssumption
         DEF Becomes, Watchers, TypeInv, TypeOK, Alive, Gen
    <2>4. call[c] \in Call /\ call \in [Caller -> Call]
      BY DEF TypeInv, TypeOK
    <2>5. r \in Call /\ r.at = "walk" /\ r.kind = call[c].kind /\ r.gen = created + 1
      BY <2>1, <2>4 DEF Call
    <2>6. Fits(r)
      BY <1>2, <2>1, <2>5 DEF Fits
    <2>7. call' = [call EXCEPT ![c] = r]
      BY <1>4, <2>4
    <2>8. call' \in [Caller -> Call] /\ CallShape'
      BY ONLY <2>4, <2>6, <2>7, CallsFit, CallBecomes, TypeInv
    <2> QED
      BY <1>1, <2>3, <2>8 DEF TypeInv, TypeOK, Rest, Watchers
  <1> QED
    BY <1>3, <1>4 DEF EnsureRootWatcher

LEMMA WalkRootType ==
  ASSUME TypeInv, NEW c \in Caller, WalkRoot(c)
  PROVE  TypeInv'
  <1> DEFINE g == call[c].gen
  <1>1. Rest'
    BY DEF WalkRoot, files, counts, TypeInv, TypeOK, Rest
  <1>2. call[c].kind \in {"share", "unshare", "load"} /\ g \in Gen
    <2>1. call[c] \in Call
      BY DEF TypeInv, TypeOK
    <2> QED
      BY <2>1 DEF WalkRoot, TypeInv, CallShape, Call
  <1>3. watcher[g] \in Watcher /\ created' = created
    BY <1>2 DEF TypeInv, TypeOK, WalkRoot
  <1>4. g = current => watcher[g].at \in Alive /\ ~watcher[g].done
    BY <1>2, SharedDirsAssumption DEF TypeInv, TypeOK, Gen
  <1>5. CASE /\ \E d \in watcher[g].todo : Becomes(g, Visits(watcher[g], d))
             /\ UNCHANGED <<current, call>>
    <2>1. PICK d \in watcher[g].todo : Becomes(g, Visits(watcher[g], d))
      BY <1>5
    <2>2. d \in Dir
      BY <1>3 DEF Watcher
    <2>3. Watchers'
      BY <1>2, <1>3, <1>4, <1>5, <2>1, <2>2, VisitsType, BecomesType DEF TypeInv, TypeOK, Watchers
    <2> QED
      BY <1>1, <1>5, <2>3 DEF TypeInv, TypeOK, CallShape, Rest, Watchers
  <1>6. CASE Becomes(g, Closed) /\ current' = 0 /\ Goes(c, "unmark")
    <2>1. Watchers'
      BY <1>2, <1>3, <1>6, RecordTypes, SharedDirsAssumption DEF Becomes, TypeInv, TypeOK, Watchers
    <2>2. call' \in [Caller -> Call] /\ CallShape'
      BY <1>2, <1>6, GoesType
    <2> QED
      BY <1>1, <2>1, <2>2 DEF TypeInv, TypeOK, Rest, Watchers
  <1>7. CASE /\ Becomes(g, [watcher[g] EXCEPT !.at = "run"])
             /\ Goes(c, "invalidate") /\ UNCHANGED current
    <2>1. [watcher[g] EXCEPT !.at = "run"] \in Watcher
      BY <1>3 DEF Watcher
    <2>2. /\ [watcher[g] EXCEPT !.at = "run"].at = "run"
          /\ [watcher[g] EXCEPT !.at = "run"].done = watcher[g].done
      BY <1>3 DEF Watcher
    <2>3. Watchers'
      BY <1>2, <1>3, <1>4, <1>7, <2>1, <2>2, BecomesType DEF TypeInv, TypeOK, Watchers, Alive
    <2>4. call' \in [Caller -> Call] /\ CallShape'
      BY <1>2, <1>7, GoesType
    <2> QED
      BY <1>1, <2>3, <2>4 DEF TypeInv, TypeOK, Rest, Watchers
  <1> QED
    BY <1>5, <1>6, <1>7 DEF WalkRoot

LEMMA UnmarkType ==
  ASSUME TypeInv, NEW c \in Caller, Unmark(c)
  PROVE  TypeInv'
  <1>1. call' \in [Caller -> Call] /\ CallShape'
    BY ReturnsType DEF Unmark
  <1> QED
    BY <1>1 DEF Unmark, counts, TypeInv, TypeOK

LEMMA InvalidateTreeCacheType ==
  ASSUME TypeInv, NEW c \in Caller, InvalidateTreeCache(c)
  PROVE  TypeInv'
  <1> DEFINE r == IF call[c].kind = "load" THEN NoCall
                  ELSE [call[c] EXCEPT !.at = IF call[c].kind = "share" THEN "row" ELSE "stop"]
  <1>1. call[c] \in Call /\ call[c].kind \in {"share", "unshare", "load"}
    BY DEF InvalidateTreeCache, TypeInv, TypeOK, CallShape
  <1>2. r = NoCall \/ (r \in Call /\ r.at \in {"row", "stop"} /\ r.kind = call[c].kind)
    BY <1>1 DEF Call
  <1>3. Fits(NoCall)
    BY RecordTypes DEF Fits, NoCall
  <1>4. Fits(r)
    BY <1>1, <1>2, <1>3 DEF Fits
  <1>5. call' = [BuildsFlawed EXCEPT ![c] = r]
    BY DEF InvalidateTreeCache
  <1>6. BuildsFlawed \in [Caller -> Call]
    BY BuildsFlawedType DEF TypeInv
  <1>7. call' \in [Caller -> Call] /\ CallShape'
    BY ONLY <1>4, <1>5, <1>6, CallsFit, CallBecomes, TypeInv
  <1> QED
    BY <1>7 DEF InvalidateTreeCache, files, counts, TypeInv, TypeOK

LEMMA StopRootWatcherType ==
  ASSUME TypeInv, NEW c \in Caller, StopRootWatcher(c)
  PROVE  TypeInv'
  <1>1. call[c].kind \in {"share", "unshare", "load"}
    BY DEF StopRootWatcher, TypeInv, CallShape
  <1>2. call' \in [Caller -> Call] /\ CallShape'
    BY <1>1, GoesType DEF StopRootWatcher
  <1>3. watcher' \in [Gen -> Watcher]
    <2>1. CASE current = 0
      BY <2>1 DEF StopRootWatcher, TypeInv, TypeOK
    <2>2. CASE current # 0
      <3>1. watcher[current] \in Watcher
        BY <2>2, SharedDirsAssumption DEF TypeInv, TypeOK, Gen
      <3>2. [watcher[current] EXCEPT !.done = TRUE] \in Watcher
        BY <3>1 DEF Watcher
      <3> QED
        BY <2>2, <3>2 DEF StopRootWatcher, TypeInv, TypeOK
    <2> QED
      BY <2>1, <2>2
  <1>4. current' = 0 /\ created' = created /\ created \in Nat
    BY SharedDirsAssumption DEF StopRootWatcher, TypeInv, TypeOK
  <1> QED
    BY <1>2, <1>3, <1>4 DEF StopRootWatcher, files, counts, TypeInv, TypeOK

LEMMA WriteRowType ==
  ASSUME TypeInv, NEW c \in Caller, WriteRow(c)
  PROVE  TypeInv'
  <1>1. call' \in [Caller -> Call] /\ CallShape'
    BY ReturnsType DEF WriteRow
  <1>2. row' \in BOOLEAN /\ adrift' \in BOOLEAN
    BY DEF WriteRow, TypeInv, TypeOK
  <1> QED
    BY <1>1, <1>2 DEF WriteRow, counts, TypeInv, TypeOK

LEMMA ReadDirectoryType ==
  ASSUME TypeInv, NEW c \in Caller, NEW d \in Dir, ReadDirectory(c, d)
  PROVE  TypeInv'
  <1> DEFINE next == (call[c].todo \ {d}) \cup {e \in Below(d) : Exists(e)}
             seen == [call[c].seen EXCEPT ![d] = disk[d]]
             r == [call[c] EXCEPT !.seen = seen, !.todo = next]
  <1>1. call[c] \in Call /\ call \in [Caller -> Call] /\ disk[d] \in Nat
    BY DEF TypeInv, TypeOK, Tree
  <1>2. next \subseteq Dir /\ seen \in Tree
    BY <1>1 DEF Call, Tree, Below
  <1>3. call' = [call EXCEPT ![c] = r]
    BY <1>1 DEF ReadDirectory
  <1> HIDE DEF next, seen
  <1>4. r \in Call /\ r.at = call[c].at /\ r.kind = call[c].kind /\ r.gen = call[c].gen
    BY <1>1, <1>2 DEF Call
  <1>5. Fits(r)
    BY <1>4, CallsFit DEF Fits
  <1> HIDE DEF r
  <1>6. call' \in [Caller -> Call] /\ CallShape'
    BY ONLY <1>1, <1>3, <1>5, CallsFit, CallBecomes, TypeInv
  <1> QED
    BY <1>6 DEF ReadDirectory, files, counts, TypeInv, TypeOK

LEMMA StoreTreeType ==
  ASSUME TypeInv, NEW c \in Caller, StoreTree(c)
  PROVE  TypeInv'
  <1>1. call' \in [Caller -> Call] /\ CallShape'
    BY ReturnsType DEF StoreTree
  <1>2. cache' \in Tree /\ flawed' \in BOOLEAN
    BY DEF StoreTree, TypeInv, TypeOK, Call
  <1> QED
    BY <1>1, <1>2 DEF StoreTree, files, counts, TypeInv, TypeOK

LEMMA RestartType ==
  ASSUME TypeInv, NEW c \in Caller, Restart(c)
  PROVE  TypeInv'
  <1> DEFINE load == [NoCall EXCEPT !.kind = "load", !.at = "watch"]
  <1>1. Fits(load) /\ Fits(NoCall)
    BY RecordTypes DEF Fits, NoCall, Call
  <1> HIDE DEF load
  <1>2. \/ call' = [x \in Caller |-> IF x = c THEN load ELSE NoCall]
        \/ call' = [x \in Caller |-> NoCall]
    BY DEF Restart, load
  <1>3. call' \in [Caller -> Call] /\ CallShape'
    BY <1>1, <1>2 DEF Fits, CallShape
  <1>4. current' = 0 /\ created' = 0 /\ watcher' \in [Gen -> Watcher]
    BY RecordTypes DEF Restart
  <1>5. shared' \in BOOLEAN /\ adrift' \in BOOLEAN
    BY DEF Restart, TypeInv, TypeOK
  <1>6. starts' \in 0 .. MaxStarts /\ cache' = NoTree /\ flawed' = FALSE /\ raced' = FALSE
    BY SharedDirsAssumption DEF Restart, TypeInv, TypeOK
  <1>7. Watchers'
    BY <1>4, SharedDirsAssumption DEF Watchers
  <1>8. Rest'
    BY <1>5, <1>6 DEF Restart, TypeInv, TypeOK, Rest
  <1> QED
    BY <1>3, <1>7, <1>8 DEF TypeInv, TypeOK, Rest, Watchers

LEMMA TypeInitially == Init => TypeInv
  <1> SUFFICES ASSUME Init PROVE TypeInv
    OBVIOUS
  <1>1. Watchers
    BY RecordTypes, SharedDirsAssumption DEF Init, Watchers
  <1>2. Rest
    <2>1. disk \in Tree
      BY DEF Init, Tree
    <2>2. calls \in 0 .. MaxCalls /\ changes \in 0 .. MaxChanges /\ starts \in 0 .. MaxStarts
      BY SharedDirsAssumption DEF Init
    <2> QED
      BY <2>1, <2>2 DEF Init, Rest
  <1>3. call \in [Caller -> Call] /\ CallShape
    BY RecordTypes DEF Init, CallShape, NoCall
  <1> QED
    BY <1>1, <1>2, <1>3 DEF TypeInv, TypeOK, Rest, Watchers

LEMMA TypeStep == TypeInv /\ [Next]_vars => TypeInv'
  <1> SUFFICES ASSUME TypeInv, [Next]_vars PROVE TypeInv'
    OBVIOUS
  <1>1. ASSUME NEW c \in Caller, CallStep(c) PROVE TypeInv'
    BY <1>1, EnsureRootWatcherType, WalkRootType, UnmarkType, InvalidateTreeCacheType,
       StopRootWatcherType, WriteRowType, ReadDirectoryType, StoreTreeType DEF CallStep
  <1>2. ASSUME NEW g \in Gen, WatcherStep(g) \/ Overflow(g) PROVE TypeInv'
    BY <1>2, HandleEventType, WalkNewType, WatcherEndsType, OverflowType DEF WatcherStep
  <1>3. CASE UNCHANGED vars
    BY <1>3 DEF vars, TypeInv, TypeOK, CallShape
  <1> QED
    BY <1>1, <1>2, <1>3, FilesType, CallsType, RestartType DEF Next

\* The types of all variables; the map never names a watcher that has ended or been
\* told to end (stopRootWatcher, and the failed walk of ensureRootWatcher).
THEOREM TypeCorrect == Spec => []TypeOK
  <1>1. TypeInv => TypeOK
    BY DEF TypeInv
  <1> QED
    BY <1>1, TypeInitially, TypeStep, PTL DEF Spec
-----------------------------------------------------------------------------
(* No directory is forgotten.  A creation under a watched directory is an event, an  *)
(* event becomes a walk, and a walk watches a directory before it lists it.          *)

\* What DirsWatched says of one watcher.
Covers(w) ==
  w.at \in Alive /\ ~w.gap =>
    /\ Root \in w.watches \cup w.todo
    /\ \A d \in Dir \ {Root} :
         Exists(d) /\ Parent[d] \in w.watches => d \in w.watches \cup w.todo \cup w.pending

LEMMA CoversIs == DirsWatched <=> \A g \in Gen : Covers(watcher[g])
  BY DEF DirsWatched, Covers

\* Neither a listing nor a change of a file makes a gap.
LEMMA VisitsCovers ==
  ASSUME NEW w \in Watcher, NEW d \in w.todo, Covers(w)
  PROVE  Covers(Visits(w, d))
  <1>1. d \in Dir
    BY DEF Watcher
  <1> DEFINE v == Visits(w, d)
  <1>2. /\ v.at = w.at /\ v.gap = w.gap /\ v.pending = w.pending
        /\ v.watches = w.watches \cup {d}
        /\ v.todo = (w.todo \ {d}) \cup {e \in Below(d) : Exists(e)}
    BY <1>1, VisitsType
  <1> HIDE DEF v
  <1>3. Covers(v)
    BY <1>1, <1>2 DEF Covers, Below
  <1> QED
    BY <1>3 DEF v

\* A step that changes no file and one watcher at most.
LEMMA OneWatcher ==
  ASSUME TypeInv, DirsWatched, NEW g \in Gen, NEW w, Becomes(g, w), Covers(w),
         UNCHANGED disk
  PROVE  DirsWatched'
  BY DEF TypeInv, TypeOK, Becomes, DirsWatched, Covers, Exists

LEMMA FilesWatched ==
  ASSUME TypeInv, DirsWatched, NEW d \in Dir, FileChanges(d) \/ DirectoryCreated(d)
  PROVE  DirsWatched'
  <1>1. CASE FileChanges(d)
    <2>1. \A e \in Dir : Exists(e)' => Exists(e)
      BY <1>1 DEF FileChanges, Exists, TypeInv, TypeOK, Tree
    <2>2. Notify(d, NoDir) /\ NoDir \in Event
      BY <1>1 DEF FileChanges, Event
    <2>3. \A g \in Gen : /\ watcher'[g].at = watcher[g].at
                         /\ watcher'[g].watches = watcher[g].watches
                         /\ watcher'[g].todo = watcher[g].todo
                         /\ watcher'[g].gap = watcher[g].gap
                         /\ watcher[g].pending \subseteq watcher'[g].pending
      BY <2>2, NotifyKeeps DEF TypeInv
    <2> QED
      BY <2>1, <2>3 DEF DirsWatched
  <1>2. CASE DirectoryCreated(d)
    <2>1. d # Root /\ Parent[d] \in Dir /\ Exists(Parent[d]) /\ Notify(Parent[d], d) /\ d \in Event
      BY <1>2, SharedDirsAssumption DEF DirectoryCreated, Event
    <2>2. \A e \in Dir : Exists(e)' => Exists(e) \/ e = d
      BY <1>2, <2>1 DEF DirectoryCreated, Exists, TypeInv, TypeOK, Tree
    <2>3. \A g \in Gen : /\ watcher'[g].at = watcher[g].at
                         /\ watcher'[g].watches = watcher[g].watches
                         /\ watcher'[g].todo = watcher[g].todo
                         /\ watcher'[g].gap = watcher[g].gap
                         /\ watcher[g].pending \subseteq watcher'[g].pending
                         /\ Parent[d] \in watcher[g].watches => d \in watcher'[g].pending
      BY <2>1, NotifyKeeps DEF TypeInv
    <2> QED
      BY <2>2, <2>3 DEF DirsWatched
  <1> QED
    BY <1>1, <1>2

LEMMA WatcherWatched ==
  ASSUME TypeInv, DirsWatched, NEW g \in Gen, WatcherStep(g) \/ Overflow(g)
  PROVE  DirsWatched'
  <1>1. watcher[g] \in Watcher /\ Covers(watcher[g])
    BY DEF TypeInv, TypeOK, DirsWatched, Covers
  <1>2. ASSUME NEW e \in Event, HandleEvent(g, e) PROVE DirsWatched'
    <2> DEFINE w == [watcher[g] EXCEPT !.pending = @ \ {e}, !.todo = {e} \ {NoDir}]
    <2>1. /\ w.at = watcher[g].at /\ w.gap = watcher[g].gap /\ w.watches = watcher[g].watches
          /\ w.pending = watcher[g].pending \ {e} /\ w.todo = {e} \ {NoDir}
      BY <1>1 DEF Watcher
    <2>2. Becomes(g, w) /\ UNCHANGED disk /\ watcher[g].todo = {}
      BY <1>2 DEF HandleEvent, Selects, files
    <2> HIDE DEF w
    <2>3. Covers(w)
      BY <1>1, <2>1, <2>2, SharedDirsAssumption DEF Covers
    <2> QED
      BY <2>2, <2>3, OneWatcher
  <1>3. CASE WalkNew(g)
    <2>1. UNCHANGED disk
      BY <1>3 DEF WalkNew, files
    <2>2. ASSUME NEW d \in watcher[g].todo, Becomes(g, Visits(watcher[g], d)) PROVE DirsWatched'
      BY <1>1, <2>1, <2>2, VisitsCovers, OneWatcher
    <2>3. CASE Becomes(g, [watcher[g] EXCEPT !.todo = {}, !.gap = TRUE])
      <3>1. [watcher[g] EXCEPT !.todo = {}, !.gap = TRUE].gap
        BY <1>1 DEF Watcher
      <3>2. Covers([watcher[g] EXCEPT !.todo = {}, !.gap = TRUE])
        BY <3>1 DEF Covers
      <3> QED
        BY <2>1, <2>3, <3>2, OneWatcher
    <2> QED
      BY <1>3, <2>2, <2>3 DEF WalkNew
  <1>4. CASE WatcherEnds(g)
    <2>1. Covers(Closed)
      BY DEF Covers, Closed, Unborn, Alive
    <2> QED
      BY <1>4, <2>1, OneWatcher DEF WatcherEnds, files
  <1>5. CASE Overflow(g)
    <2>1. [watcher[g] EXCEPT !.pending = {}, !.gap = TRUE].gap
      BY <1>1 DEF Watcher
    <2>2. Covers([watcher[g] EXCEPT !.pending = {}, !.gap = TRUE])
      BY <2>1 DEF Covers
    <2>3. UNCHANGED disk /\ Becomes(g, [watcher[g] EXCEPT !.pending = {}, !.gap = TRUE])
      BY <1>5 DEF Overflow, files
    <2> QED
      BY <2>2, <2>3, OneWatcher
  <1> QED
    BY <1>2, <1>3, <1>4, <1>5 DEF WatcherStep

\* A call that walks has a watcher of its own, which nobody else runs.
Walking ==
  \A c \in Caller :
    call[c].at = "walk" =>
      /\ call[c].gen \in 1 .. created /\ watcher[call[c].gen].at = "walk"
      /\ \A x \in Caller : call[x].at = "walk" /\ call[x].gen = call[c].gen => x = c

LEMMA CallWatched ==
  ASSUME TypeInv, Walking, DirsWatched, NEW c \in Caller, CallStep(c)
  PROVE  DirsWatched'
  <1>1. UNCHANGED disk
    BY DEF CallStep, EnsureRootWatcher, WalkRoot, Unmark, InvalidateTreeCache, StopRootWatcher,
           WriteRow, ReadDirectory, StoreTree, files
  <1>2. CASE UNCHANGED watcher
    BY <1>1, <1>2 DEF DirsWatched, Exists
  <1>3. CASE EnsureRootWatcher(c) /\ ~UNCHANGED watcher
    <2> DEFINE w == [Unborn EXCEPT !.at = "walk", !.todo = {Root}]
    <2>1. Becomes(created + 1, w) /\ created + 1 \in Gen
      BY <1>3, SharedDirsAssumption DEF EnsureRootWatcher, TypeInv, TypeOK, Gen
    <2>2. Covers(w)
      BY DEF Covers, Unborn
    <2> QED
      BY <1>1, <2>1, <2>2, OneWatcher
  <1>4. CASE WalkRoot(c)
    <2> DEFINE g == call[c].gen
    <2>1. g \in Gen
      <3>1. call[c] \in Call
        BY DEF TypeInv, TypeOK
      <3> QED
        BY <1>4, <3>1 DEF WalkRoot, TypeInv, CallShape, Call
    <2>2. watcher[g] \in Watcher /\ Covers(watcher[g])
      BY <2>1 DEF TypeInv, TypeOK, DirsWatched, Covers
    <2>3. ASSUME NEW d \in watcher[g].todo, Becomes(g, Visits(watcher[g], d)) PROVE DirsWatched'
      BY <1>1, <2>1, <2>2, <2>3, VisitsCovers, OneWatcher
    <2>4. CASE Becomes(g, Closed)
      <3>1. Covers(Closed)
        BY DEF Covers, Closed, Unborn, Alive
      <3> QED
        BY <1>1, <2>1, <2>4, <3>1, OneWatcher
    <2>5. CASE watcher[g].todo = {} /\ Becomes(g, [watcher[g] EXCEPT !.at = "run"])
      <3> DEFINE w == [watcher[g] EXCEPT !.at = "run"]
      <3>1. /\ w.gap = watcher[g].gap /\ w.watches = watcher[g].watches
            /\ w.todo = watcher[g].todo /\ w.pending = watcher[g].pending
        BY <2>2 DEF Watcher
      <3>2. Becomes(g, w)
        BY <2>5
      <3> HIDE DEF w
      <3>3. watcher[g].at \in Alive
        BY <1>4 DEF WalkRoot, Walking, Alive
      <3>4. Covers(w)
        BY <2>2, <3>1, <3>3 DEF Covers
      <3> QED
        BY <1>1, <2>1, <3>2, <3>4, OneWatcher
    <2> QED
      BY <1>4, <2>3, <2>4, <2>5 DEF WalkRoot
  <1>5. CASE StopRootWatcher(c) /\ ~UNCHANGED watcher
    <2> DEFINE w == [watcher[current] EXCEPT !.done = TRUE]
    <2>1. Becomes(current, w) /\ current \in Gen
      BY <1>5, SharedDirsAssumption DEF StopRootWatcher, Becomes, TypeInv, TypeOK, Gen
    <2>2. watcher[current] \in Watcher /\ Covers(watcher[current])
      BY <2>1 DEF TypeInv, TypeOK, DirsWatched, Covers
    <2>3. /\ w.at = watcher[current].at /\ w.gap = watcher[current].gap
          /\ w.watches = watcher[current].watches /\ w.todo = watcher[current].todo
          /\ w.pending = watcher[current].pending
      BY <2>2 DEF Watcher
    <2> HIDE DEF w
    <2>4. Covers(w)
      BY <2>2, <2>3 DEF Covers
    <2> QED
      BY <1>1, <2>1, <2>4, OneWatcher
  <1> QED
    BY <1>2, <1>3, <1>4, <1>5 DEF CallStep, Unmark, InvalidateTreeCache, WriteRow, ReadDirectory,
                                  StoreTree

\* A step after which fewer calls walk, with their watchers untouched.
LEMMA WalkingKeeps ==
  ASSUME Walking, created' = created,
         \A c \in Caller : call'[c].at = "walk" => /\ call[c].at = "walk"
                                                   /\ call'[c].gen = call[c].gen
                                                   /\ watcher'[call[c].gen].at = "walk"
  PROVE  Walking'
  BY DEF Walking

LEMMA WalkingStep ==
  ASSUME TypeInv, Walking, [Next]_vars
  PROVE  Walking'
  <1>1. /\ call \in [Caller -> Call] /\ watcher \in [Gen -> Watcher]
        /\ \A c \in Caller : call[c].at = "walk" => call[c].gen \in Gen
    BY SharedDirsAssumption DEF TypeInv, TypeOK, Walking, Gen
  <1>2. ASSUME NEW d \in Dir, FileChanges(d) \/ DirectoryCreated(d) PROVE Walking'
    <2>1. Notify(d, NoDir) \/ (Parent[d] \in Dir /\ Notify(Parent[d], d))
      BY <1>2, SharedDirsAssumption DEF FileChanges, DirectoryCreated
    <2>2. /\ \A g \in Gen : watcher'[g].at = watcher[g].at
          /\ call' = call \/ call' = BuildsFlawed
      BY <2>1, NotifyKeeps DEF Event, TypeInv
    <2>3. created' = created
      BY <1>2 DEF FileChanges, DirectoryCreated
    <2> QED
      BY <1>1, <2>2, <2>3, BuildsFlawedType, WalkingKeeps DEF TypeInv, Walking
  <1>3. ASSUME NEW g \in Gen, NEW w \in Watcher, Becomes(g, w), w.at = watcher[g].at,
               call' = call \/ call' = BuildsFlawed, created' = created
        PROVE  Walking'
    <2>1. \A x \in Gen : watcher'[x].at = watcher[x].at
      BY <1>1, <1>3 DEF Becomes
    <2> QED
      BY <1>1, <1>3, <2>1, BuildsFlawedType, WalkingKeeps DEF TypeInv, Walking
  <1>4. ASSUME NEW g \in Gen, WatcherStep(g) \/ Overflow(g) PROVE Walking'
    <2>1. watcher[g] \in Watcher
      BY <1>1
    <2>2. ASSUME NEW e \in Event, HandleEvent(g, e) PROVE Walking'
      <3>1. [watcher[g] EXCEPT !.pending = @ \ {e}, !.todo = {e} \ {NoDir}] \in Watcher
        BY <2>1 DEF Watcher, Event
      <3>2. [watcher[g] EXCEPT !.pending = @ \ {e}, !.todo = {e} \ {NoDir}].at = watcher[g].at
        BY <2>1 DEF Watcher
      <3> QED
        BY <1>3, <2>2, <3>1, <3>2 DEF HandleEvent, Invalidate
    <2>3. CASE WalkNew(g)
      <3>1. call' = call /\ created' = created
        BY <2>3 DEF WalkNew
      <3>2. ASSUME NEW d \in watcher[g].todo, Becomes(g, Visits(watcher[g], d)) PROVE Walking'
        <4>1. d \in Dir
          BY <2>1 DEF Watcher
        <4> QED
          BY <1>3, <2>1, <3>1, <3>2, <4>1, VisitsType
      <3>3. CASE Becomes(g, [watcher[g] EXCEPT !.todo = {}, !.gap = TRUE])
        <4>1. [watcher[g] EXCEPT !.todo = {}, !.gap = TRUE] \in Watcher
          BY <2>1 DEF Watcher
        <4>2. [watcher[g] EXCEPT !.todo = {}, !.gap = TRUE].at = watcher[g].at
          BY <2>1 DEF Watcher
        <4> QED
          BY <1>3, <3>1, <3>3, <4>1, <4>2
      <3> QED
        BY <2>3, <3>2, <3>3 DEF WalkNew
    <2>4. CASE WatcherEnds(g)
      <3>1. watcher[g].at = "run" /\ Becomes(g, Closed) /\ call' = call /\ created' = created
        BY <2>4 DEF WatcherEnds, Selects
      <3>2. \A x \in Gen : watcher[x].at = "walk" => watcher'[x].at = "walk"
        BY <1>1, <3>1 DEF Becomes
      <3> QED
        BY <1>1, <3>1, <3>2, WalkingKeeps DEF Walking
    <2>5. CASE Overflow(g)
      <3>1. [watcher[g] EXCEPT !.pending = {}, !.gap = TRUE] \in Watcher
        BY <2>1 DEF Watcher
      <3>2. [watcher[g] EXCEPT !.pending = {}, !.gap = TRUE].at = watcher[g].at
        BY <2>1 DEF Watcher
      <3> QED
        BY <1>3, <2>5, <3>1, <3>2 DEF Overflow
    <2> QED
      BY <1>4, <2>2, <2>3, <2>4, <2>5 DEF WatcherStep
  <1>5. ASSUME NEW c \in Caller, ShareDirectory(c) \/ UnshareDirectory(c) \/ GetLocalTree(c)
        PROVE  Walking'
    <2>1. created' = created /\ watcher' = watcher
      BY <1>5 DEF ShareDirectory, UnshareDirectory, GetLocalTree, Begins
    <2>2. \A x \in Caller : call'[x] = call[x] \/ call'[x].at # "walk"
      BY <1>1, <1>5 DEF ShareDirectory, UnshareDirectory, GetLocalTree, Begins, NoCall
    <2> QED
      BY <2>1, <2>2, WalkingKeeps DEF Walking
  <1>6. ASSUME NEW c \in Caller, Restart(c) PROVE Walking'
    <2>1. \A x \in Caller : call'[x].at # "walk"
      <3>1. NoCall.at # "walk" /\ [NoCall EXCEPT !.kind = "load", !.at = "watch"].at # "walk"
        BY DEF NoCall
      <3> QED
        BY <1>6, <3>1 DEF Restart
    <2> QED
      BY <2>1 DEF Walking
  <1>7. ASSUME NEW c \in Caller, NEW at, at # "walk", created' = created,
               Goes(c, at) \/ Returns(c),
               \A x \in Gen :
                 watcher[x].at = "walk" =>
                   watcher'[x].at = "walk" \/ (call[c].at = "walk" /\ x = call[c].gen)
        PROVE  Walking'
    <2>1. /\ call'[c].at # "walk"
          /\ \A x \in Caller : x # c => call'[x] = call[x]
      BY <1>1, <1>7 DEF Goes, Returns, NoCall, Call
    <2> QED
      BY <1>1, <1>7, <2>1 DEF Walking
  <1>8. ASSUME NEW c \in Caller, CallStep(c) PROVE Walking'
    <2>1. CASE EnsureRootWatcher(c)
      <3>1. CASE (Goes(c, "invalidate") \/ Goes(c, "unmark")) /\ UNCHANGED <<watcher, created>>
        BY <1>7, <3>1
      <3>2. CASE /\ created < MaxCalls /\ created' = created + 1
                 /\ Becomes(created + 1, [Unborn EXCEPT !.at = "walk", !.todo = {Root}])
                 /\ call' = [call EXCEPT ![c].at = "walk", ![c].gen = created + 1]
        <4>1. created \in Nat /\ created + 1 \in Gen
          BY <3>2, SharedDirsAssumption DEF TypeInv, TypeOK, Gen
        <4>2. [Unborn EXCEPT !.at = "walk", !.todo = {Root}].at = "walk"
          BY DEF Unborn
        <4>3. /\ watcher'[created + 1].at = "walk"
              /\ \A x \in Gen : x # created + 1 => watcher'[x] = watcher[x]
          BY <1>1, <3>2, <4>1, <4>2 DEF Becomes
        <4>4. call'[c].gen = created + 1 /\ \A x \in Caller : x # c => call'[x] = call[x]
          BY <1>1, <3>2 DEF Call
        <4> QED
          BY <1>1, <3>2, <4>1, <4>3, <4>4 DEF Walking
      <3> QED
        BY <2>1, <3>1, <3>2 DEF EnsureRootWatcher
    <2>2. CASE WalkRoot(c)
      <3>1. created' = created /\ call[c].gen \in Gen /\ call[c].at = "walk"
        BY <1>1, <2>2 DEF WalkRoot
      <3>2. watcher[call[c].gen] \in Watcher
        BY <1>1, <3>1
      <3>3. ASSUME NEW d \in watcher[call[c].gen].todo,
                   Becomes(call[c].gen, Visits(watcher[call[c].gen], d)), call' = call
            PROVE  Walking'
        <4>1. d \in Dir
          BY <3>2 DEF Watcher
        <4> QED
          BY <1>3, <3>1, <3>2, <3>3, <4>1, VisitsType
      <3>4. ASSUME NEW w, Becomes(call[c].gen, w), Goes(c, "unmark") \/ Goes(c, "invalidate")
            PROVE  Walking'
        <4>1. \A x \in Gen : x # call[c].gen => watcher'[x] = watcher[x]
          BY <3>4 DEF Becomes
        <4> QED
          BY <1>7, <3>1, <3>4, <4>1
      <3> QED
        BY <2>2, <3>3, <3>4 DEF WalkRoot
    <2>3. CASE Unmark(c) \/ WriteRow(c) \/ StoreTree(c)
      <3>1. Returns(c) /\ UNCHANGED <<created, watcher>>
        BY <2>3 DEF Unmark, WriteRow, StoreTree
      <3> QED
        BY <1>7, <3>1
    <2>4. CASE InvalidateTreeCache(c)
      <3>1. BuildsFlawed \in [Caller -> Call] /\ UNCHANGED <<created, watcher>>
        BY <2>4, BuildsFlawedType DEF InvalidateTreeCache, TypeInv
      <3>2. call'[c].at # "walk" /\ \A x \in Caller : x # c => call'[x] = BuildsFlawed[x]
        BY <1>1, <2>4, <3>1 DEF InvalidateTreeCache, NoCall, Call
      <3> QED
        BY <1>1, <3>1, <3>2, BuildsFlawedType, WalkingKeeps DEF TypeInv, Walking
    <2>5. CASE StopRootWatcher(c)
      <3>1. \A x \in Gen : watcher'[x].at = watcher[x].at
        <4>1. ASSUME current # 0
              PROVE  current \in Gen /\ [watcher[current] EXCEPT !.done = TRUE].at = watcher[current].at
          <5>1. current \in Gen
            BY <4>1, SharedDirsAssumption DEF TypeInv, TypeOK, Gen
          <5>2. watcher[current] \in Watcher
            BY <1>1, <5>1
          <5> QED
            BY <5>1, <5>2 DEF Watcher
        <4> QED
          BY <1>1, <2>5, <4>1 DEF StopRootWatcher
      <3> QED
        BY <1>7, <2>5, <3>1 DEF StopRootWatcher
    <2>6. ASSUME NEW d \in Dir, ReadDirectory(c, d) PROVE Walking'
      <3>1. created' = created /\ watcher' = watcher /\ call[c].at = "build"
        BY <2>6 DEF ReadDirectory
      <3>2. call'[c].at = "build" /\ \A x \in Caller : x # c => call'[x] = call[x]
        BY <1>1, <2>6 DEF ReadDirectory, Call
      <3> QED
        BY <3>1, <3>2, WalkingKeeps DEF Walking
    <2> QED
      BY <1>8, <2>1, <2>2, <2>3, <2>4, <2>5, <2>6 DEF CallStep
  <1>9. CASE UNCHANGED vars
    BY <1>9 DEF vars, Walking
  <1> QED
    BY <1>2, <1>4, <1>5, <1>6, <1>8, <1>9 DEF Next

WatchInv == TypeInv /\ Walking /\ DirsWatched

LEMMA WatchStep == WatchInv /\ [Next]_vars => WatchInv'
  <1> SUFFICES ASSUME TypeInv, Walking, DirsWatched, [Next]_vars PROVE DirsWatched'
    BY TypeStep, WalkingStep DEF WatchInv
  <1>1. ASSUME NEW c \in Caller, ShareDirectory(c) \/ UnshareDirectory(c) \/ GetLocalTree(c)
        PROVE  DirsWatched'
    BY <1>1 DEF ShareDirectory, UnshareDirectory, GetLocalTree, Begins, DirsWatched, Exists
  <1>2. ASSUME NEW c \in Caller, Restart(c) PROVE DirsWatched'
    BY <1>2 DEF Restart, DirsWatched, Unborn, Alive
  <1>3. CASE UNCHANGED vars
    BY <1>3 DEF vars, DirsWatched, Exists
  <1> QED
    BY <1>1, <1>2, <1>3, FilesWatched, WatcherWatched, CallWatched DEF Next

\* No directory is forgotten by its watcher: what appears below a watched directory is
\* watched, about to be, or still to be reported (runRootWatcher, walkAndWatch).
THEOREM WatchesCorrect == Spec => []DirsWatched
  <1>1. Init => WatchInv
    BY TypeInitially DEF Init, WatchInv, Walking, NoCall, DirsWatched, Unborn, Alive
  <1>2. WatchInv => DirsWatched
    BY DEF WatchInv
  <1> QED
    BY <1>1, <1>2, WatchStep, PTL DEF Spec
-----------------------------------------------------------------------------
(* At rest.  While no two calls overlap, the one that is under way knows what it has *)
(* left done and undone.                                                             *)

\* What holds between calls.
Settled == (shared <=> current # 0) /\ (adrift \/ (row <=> shared))

\* And where a call is.
SharePhase(at) ==
  \/ at = "watch" /\ shared /\ (adrift \/ (row <=> current # 0))
  \/ at = "walk" /\ shared /\ current # 0 /\ (adrift \/ ~row)
  \/ at = "unmark" /\ current = 0 /\ (adrift \/ ~row)
  \/ at \in {"invalidate", "row"} /\ shared /\ current # 0

UnsharePhase(at) ==
  \/ at \in {"invalidate", "stop"} /\ ~shared
  \/ at = "row" /\ ~shared /\ current = 0

LoadPhase(at) ==
  \/ at = "watch" /\ shared /\ row /\ current = 0
  \/ at \in {"walk", "invalidate"} /\ shared /\ row /\ current # 0
  \/ at = "unmark" /\ current = 0

Phase(kind, at) ==
  \/ kind = "share" /\ SharePhase(at)
  \/ kind = "unshare" /\ UnsharePhase(at)
  \/ kind = "load" /\ LoadPhase(at)

Sharing == {"share", "unshare", "load"}

RestInv ==
  ~raced =>
    /\ \A c, x \in Caller : call[c].kind \in Sharing /\ call[x].kind \in Sharing => c = x
    /\ (\A c \in Caller : call[c].kind \notin Sharing) => Settled
    /\ \A c \in Caller : call[c].kind \in Sharing => Phase(call[c].kind, call[c].at)

\* A step of something else.
LEMMA RestKeeps ==
  ASSUME RestInv, UNCHANGED <<shared, row, current, adrift, raced>>,
         \A c \in Caller :
           \/ call'[c].kind = call[c].kind /\ call'[c].at = call[c].at
           \/ call'[c].kind \notin Sharing /\ call[c].kind \notin Sharing
  PROVE  RestInv'
  BY DEF RestInv, Settled, Phase, SharePhase, UnsharePhase, LoadPhase

\* A step of the one call that shares, unshares or loads.
LEMMA RestGoes ==
  ASSUME RestInv, NEW c \in Caller, call[c].kind \in Sharing, raced' = raced,
         \A x \in Caller \ {c} : call'[x].kind = call[x].kind,
         ~raced => \/ call'[c].kind \notin Sharing /\ Settled'
                   \/ call'[c].kind \in Sharing /\ Phase(call[c].kind, call[c].at)'
  PROVE  RestInv'
  BY DEF RestInv

LEMMA RestFiles ==
  ASSUME TypeInv, RestInv, NEW d \in Dir, FileChanges(d) \/ DirectoryCreated(d)
  PROVE  RestInv'
  <1>1. Notify(d, NoDir) \/ (Parent[d] \in Dir /\ Notify(Parent[d], d))
    BY SharedDirsAssumption DEF FileChanges, DirectoryCreated
  <1>2. call' = call \/ call' = BuildsFlawed
    BY <1>1, NotifyKeeps DEF Event, TypeInv
  <1>3. UNCHANGED <<shared, row, current, adrift, raced>>
    BY DEF FileChanges, DirectoryCreated
  <1> QED
    BY <1>2, <1>3, BuildsFlawedType, RestKeeps DEF TypeInv

LEMMA RestWatchers ==
  ASSUME TypeInv, RestInv, NEW g \in Gen, WatcherStep(g) \/ Overflow(g)
  PROVE  RestInv'
  <1>1. UNCHANGED <<shared, row, current, adrift, raced>>
    BY DEF WatcherStep, Overflow, HandleEvent, WalkNew, WatcherEnds, files
  <1>2. call' = call \/ call' = BuildsFlawed
    BY DEF WatcherStep, Overflow, HandleEvent, Invalidate, WalkNew, WatcherEnds
  <1> QED
    BY <1>1, <1>2, BuildsFlawedType, RestKeeps DEF TypeInv

LEMMA RestBegins ==
  ASSUME TypeInv, RestInv, NEW c \in Caller,
         ShareDirectory(c) \/ UnshareDirectory(c) \/ GetLocalTree(c)
  PROVE  RestInv'
  <1>1. call \in [Caller -> Call] /\ NoCall.kind \notin Sharing
    BY DEF TypeInv, TypeOK, NoCall, Sharing
  <1>2. CASE GetLocalTree(c)
    <2>1. call[c].kind \notin Sharing /\ call'[c].kind \notin Sharing
      BY <1>1, <1>2 DEF GetLocalTree, Begins, NoCall, Sharing
    <2>2. \A x \in Caller \ {c} : call'[x] = call[x]
      BY <1>1, <1>2 DEF GetLocalTree, Begins
    <2>3. UNCHANGED <<shared, row, current, adrift, raced>>
      BY <1>2 DEF GetLocalTree, Begins
    <2> QED
      BY <2>1, <2>2, <2>3, RestKeeps
  <1>3. CASE ShareDirectory(c) \/ UnshareDirectory(c)
    <2> SUFFICES ASSUME ~raced', Busy = {}, ~raced PROVE RestInv'
      BY <1>3 DEF ShareDirectory, UnshareDirectory, RestInv
    <2>1. \A x \in Caller : call[x].kind \notin Sharing
      BY DEF Busy, Sharing
    <2>2. \A x \in Caller \ {c} : call'[x] = call[x]
      BY <1>1, <1>3 DEF ShareDirectory, UnshareDirectory, Begins
    <2>3. Settled
      BY <2>1 DEF RestInv
    <2>4. UNCHANGED <<row, current, adrift>>
      BY <1>3 DEF ShareDirectory, UnshareDirectory, Begins
    <2>5. CASE ShareDirectory(c)
      <3>1. call'[c].kind = "share" /\ call'[c].at = "watch" /\ shared' = TRUE
        BY <1>1, <2>5 DEF ShareDirectory, Begins, NoCall
      <3> QED
        BY <2>1, <2>2, <2>3, <2>4, <3>1 DEF RestInv, Settled, Phase, SharePhase, Sharing
    <2>6. CASE UnshareDirectory(c)
      <3>1. call'[c].kind = "unshare" /\ call'[c].at = "invalidate" /\ shared' = FALSE
        BY <1>1, <2>6 DEF UnshareDirectory, Begins, NoCall
      <3> QED
        BY <2>1, <2>2, <3>1 DEF RestInv, Phase, UnsharePhase, Sharing
    <2> QED
      BY <1>3, <2>5, <2>6
  <1> QED
    BY <1>2, <1>3

LEMMA RestCalls ==
  ASSUME TypeInv, RestInv, NEW c \in Caller, CallStep(c)
  PROVE  RestInv'
  <1>1. call \in [Caller -> Call] /\ NoCall.kind \notin Sharing /\ created \in Nat
    BY SharedDirsAssumption DEF TypeInv, TypeOK, NoCall, Sharing
  <1>2. CASE \/ StoreTree(c)
             \/ \E d \in Dir : ReadDirectory(c, d)
    <2>1. UNCHANGED <<shared, row, current, adrift, raced>> /\ call[c].kind \notin Sharing
      BY <1>2 DEF StoreTree, ReadDirectory, files, TypeInv, CallShape, Sharing
    <2>2. call'[c].kind \notin Sharing /\ \A x \in Caller \ {c} : call'[x] = call[x]
      BY <1>1, <1>2, <2>1 DEF StoreTree, ReadDirectory, Returns, Call
    <2> QED
      BY <2>1, <2>2, RestKeeps
  <1>3. ASSUME call[c].at \in {"watch", "walk", "unmark", "invalidate", "stop", "row"}
        PROVE  call[c].kind \in Sharing /\ (~raced => Phase(call[c].kind, call[c].at))
    BY <1>3 DEF TypeInv, CallShape, RestInv, Sharing
  <1>4. ASSUME NEW at, Goes(c, at)
        PROVE  /\ call'[c].kind = call[c].kind /\ call'[c].at = at
               /\ \A x \in Caller \ {c} : call'[x].kind = call[x].kind
    BY <1>1, <1>4 DEF Goes, Call
  <1>5. ASSUME Returns(c)
        PROVE  /\ call'[c].kind \notin Sharing
               /\ \A x \in Caller \ {c} : call'[x].kind = call[x].kind
    BY <1>1, <1>5 DEF Returns
  <1>6. CASE EnsureRootWatcher(c)
    <2>1. /\ UNCHANGED <<shared, row, adrift, raced>> /\ call[c].kind \in Sharing
          /\ ~raced => Phase(call[c].kind, "watch")
      BY <1>3, <1>6 DEF EnsureRootWatcher, files
    <2>2. /\ call'[c].kind = call[c].kind
          /\ \A x \in Caller \ {c} : call'[x].kind = call[x].kind
          /\ \/ current # 0 /\ call'[c].at = "invalidate" /\ current' = current
             \/ current = 0 /\ call'[c].at = "walk" /\ current' # 0
             \/ current = 0 /\ call'[c].at = "unmark" /\ current' = current
      BY <1>1, <1>4, <1>6 DEF EnsureRootWatcher, Call
    <2>3. ~raced => Phase(call[c].kind, call[c].at)'
      BY <2>1, <2>2 DEF Phase, SharePhase, UnsharePhase, LoadPhase
    <2> QED
      BY <2>1, <2>2, <2>3, RestGoes
  <1>7. CASE WalkRoot(c)
    <2>1. /\ UNCHANGED <<shared, row, adrift, raced>> /\ call[c].kind \in Sharing
          /\ ~raced => Phase(call[c].kind, "walk")
      BY <1>3, <1>7 DEF WalkRoot, files
    <2>2. /\ call'[c].kind = call[c].kind
          /\ \A x \in Caller \ {c} : call'[x].kind = call[x].kind
          /\ \/ call'[c].at = "walk" /\ current' = current
             \/ call'[c].at = "unmark" /\ current' = 0
             \/ call'[c].at = "invalidate" /\ current' = current
      BY <1>1, <1>4, <1>7 DEF WalkRoot
    <2>3. ~raced => Phase(call[c].kind, call[c].at)'
      BY <2>1, <2>2 DEF Phase, SharePhase, UnsharePhase, LoadPhase
    <2> QED
      BY <2>1, <2>2, <2>3, RestGoes
  <1>8. CASE Unmark(c)
    <2>1. /\ UNCHANGED <<row, current, raced>> /\ call[c].kind \in Sharing /\ Returns(c)
          /\ shared' = FALSE /\ adrift' = (adrift \/ call[c].kind = "load")
          /\ ~raced => Phase(call[c].kind, "unmark")
      BY <1>3, <1>8 DEF Unmark
    <2>2. ~raced => Settled'
      BY <2>1 DEF Phase, SharePhase, UnsharePhase, LoadPhase, Settled
    <2> QED
      BY <1>5, <2>1, <2>2, RestGoes
  <1>9. CASE InvalidateTreeCache(c)
    <2>1. /\ UNCHANGED <<shared, row, adrift, raced, current>> /\ call[c].kind \in Sharing
          /\ ~raced => Phase(call[c].kind, "invalidate")
      BY <1>3, <1>9 DEF InvalidateTreeCache, files
    <2>2. BuildsFlawed \in [Caller -> Call] /\ call[c] \in Call
      BY <1>1, BuildsFlawedType DEF TypeInv
    <2>3. \A x \in Caller \ {c} : call'[x].kind = call[x].kind
      BY <1>9, <2>2, BuildsFlawedType DEF InvalidateTreeCache, TypeInv
    <2>4. CASE call[c].kind = "load"
      <3>1. call'[c].kind \notin Sharing
        BY <1>1, <1>9, <2>2, <2>4 DEF InvalidateTreeCache
      <3>2. ~raced => Settled'
        BY <2>1, <2>4 DEF Phase, LoadPhase, Settled
      <3> QED
        BY <2>1, <2>3, <3>1, <3>2, RestGoes
    <2>5. CASE call[c].kind # "load"
      <3>1. /\ call'[c].kind = call[c].kind
            /\ call'[c].at = IF call[c].kind = "share" THEN "row" ELSE "stop"
        BY <1>9, <2>2, <2>5 DEF InvalidateTreeCache, Call
      <3>2. ~raced => Phase(call[c].kind, call[c].at)'
        BY <2>1, <2>5, <3>1 DEF Phase, SharePhase, UnsharePhase, Sharing
      <3> QED
        BY <2>1, <2>3, <3>1, <3>2, RestGoes
    <2> QED
      BY <2>4, <2>5
  <1>10. CASE StopRootWatcher(c)
    <2>1. /\ UNCHANGED <<shared, row, adrift, raced>> /\ call[c].kind \in Sharing
          /\ current' = 0 /\ Goes(c, "row")
          /\ ~raced => Phase(call[c].kind, "stop")
      BY <1>3, <1>10 DEF StopRootWatcher, files
    <2>2. ~raced => Phase(call[c].kind, call[c].at)'
      BY <1>4, <2>1 DEF Phase, SharePhase, UnsharePhase, LoadPhase
    <2> QED
      BY <1>4, <2>1, <2>2, RestGoes
  <1>11. CASE WriteRow(c)
    <2>1. /\ UNCHANGED <<shared, current, raced>> /\ call[c].kind \in Sharing /\ Returns(c)
          /\ adrift' = TRUE \/ row' = (call[c].kind = "share")
          /\ ~raced => Phase(call[c].kind, "row")
      BY <1>3, <1>11 DEF WriteRow
    <2>2. ~raced => Settled'
      BY <2>1 DEF Phase, SharePhase, UnsharePhase, LoadPhase, Settled
    <2> QED
      BY <1>5, <2>1, <2>2, RestGoes
  <1> QED
    BY <1>2, <1>6, <1>7, <1>8, <1>9, <1>10, <1>11 DEF CallStep

LEMMA RestStep == TypeInv /\ RestInv /\ [Next]_vars => TypeInv' /\ RestInv'
  <1> SUFFICES ASSUME TypeInv, RestInv, [Next]_vars PROVE RestInv'
    BY TypeStep
  <1>1. ASSUME NEW c \in Caller, Restart(c) PROVE RestInv'
    <2>1. NoCall.kind = "idle" /\ [NoCall EXCEPT !.kind = "load", !.at = "watch"].kind = "load"
      BY DEF NoCall
    <2>2. [NoCall EXCEPT !.kind = "load", !.at = "watch"].at = "watch"
      BY DEF NoCall
    <2>3. current' = 0 /\ row' = row
      BY <1>1 DEF Restart
    <2>4. CASE /\ row /\ shared' = TRUE
               /\ call' = [x \in Caller |-> IF x = c
                    THEN [NoCall EXCEPT !.kind = "load", !.at = "watch"] ELSE NoCall]
      <3>1. \A x \in Caller : x # c => call'[x].kind \notin Sharing
        BY <2>1, <2>4 DEF Sharing
      <3>2. call'[c].kind = "load" /\ call'[c].at = "watch"
        BY <2>1, <2>2, <2>4
      <3>3. LoadPhase(call[c].at)'
        BY <2>3, <2>4, <3>2 DEF LoadPhase
      <3> QED
        BY <3>1, <3>2, <3>3 DEF RestInv, Phase, Sharing
    <2>5. CASE shared' = FALSE /\ adrift' = row /\ call' = [x \in Caller |-> NoCall]
      BY <2>1, <2>3, <2>5 DEF RestInv, Settled, Sharing
    <2> QED
      BY <1>1, <2>4, <2>5 DEF Restart
  <1>2. CASE UNCHANGED vars
    BY <1>2, RestKeeps DEF vars
  <1> QED
    BY <1>1, <1>2, RestFiles, RestWatchers, RestBegins, RestCalls DEF Next

\* Between calls that do not overlap, the directory is shared if and only if it is
\* watched, and is in the database exactly then, unless a write of its row or its
\* loading has failed (ShareDirectory, UnshareDirectory, LoadSharedDirectories).
THEOREM RestCorrect == Spec => []AtRest
  <1>1. Init => RestInv
    BY DEF Init, RestInv, Settled, NoCall, Sharing
  <1>2. RestInv => AtRest
    BY DEF RestInv, AtRest, Settled, Busy, Sharing
  <1> QED
    BY <1>1, <1>2, TypeInitially, RestStep, PTL DEF Spec
-----------------------------------------------------------------------------
(* The cached tree.  A change either reaches the watcher in the map, and then an     *)
(* event waits, or marks the tree and the builds as flawed; whatever takes the event *)
(* away drops the tree and marks the builds.  So while nothing waits, what a build   *)
(* has read is still true, and what it has stored was the whole tree.                *)

\* What holds of the files: the root exists, and what exists hangs on it.
Rooted ==
  /\ Exists(Root)
  /\ \A d \in Dir \ {Root} : Exists(d) => Exists(Parent[d])
  /\ \A S \in SUBSET (Dir \ {Root}) : (\A d \in S : Exists(d) /\ Parent[d] \in S) => S = {}

\* A call that has put the watcher into the map and has still to drop the cache.
Maker(c) == call[c].at \in {"walk", "invalidate"} /\ call[c].gen = current

\* Nothing is on its way to drop the cache.
Quiet == current # 0 /\ watcher[current].pending = {} /\ \A c \in Caller : ~Maker(c)

Building(c) == call[c].at = "build"

\* What a build has read is on disk, and what it has still to read is below.
ReadsTrue(c) ==
  /\ \A d \in Dir : call[c].seen[d] \in {0, disk[d]}
  /\ \A d \in call[c].todo : Exists(d)
  /\ Root \in call[c].todo \/ call[c].seen[Root] > 0
  /\ \A d \in Dir \ {Root} :
       Exists(d) /\ call[c].seen[Parent[d]] > 0 => d \in call[c].todo \/ call[c].seen[d] > 0

Fresh ==
  /\ cache # NoTree /\ ~flawed => cache = disk
  /\ \A c \in Caller : Building(c) /\ ~call[c].flawed => ReadsTrue(c)

\* What a watcher does beside its own business.
LEMMA WatchersLeave ==
  ASSUME NEW g \in Gen, WatcherStep(g) \/ Overflow(g)
  PROVE  /\ disk' = disk /\ current' = current
         /\ call' = call \/ call' = BuildsFlawed
  <1>1. ASSUME NEW e \in Event, HandleEvent(g, e)
        PROVE  disk' = disk /\ current' = current /\ call' = BuildsFlawed
    BY <1>1 DEF HandleEvent, Invalidate, files
  <1>2. CASE WalkNew(g) \/ WatcherEnds(g)
    BY <1>2 DEF WalkNew, WatcherEnds, files
  <1>3. CASE Overflow(g)
    BY <1>3 DEF Overflow, files
  <1> QED
    BY <1>1, <1>2, <1>3 DEF WatcherStep

LEMMA RootedStep == ASSUME TypeInv, Rooted, [Next]_vars PROVE Rooted'
  <1>0. disk \in Tree /\ Root \in Dir /\ Parent \in [Dir \ {Root} -> Dir]
    BY SharedDirsAssumption DEF TypeInv, TypeOK
  <1>1. ASSUME NEW d \in Dir, FileChanges(d) PROVE Rooted'
    <2>1. \A e \in Dir : Exists(e)' <=> Exists(e)
      BY <1>0, <1>1 DEF FileChanges, Exists, Tree
    <2> QED
      BY <1>0, <2>1 DEF Rooted
  <1>2. ASSUME NEW d \in Dir, DirectoryCreated(d) PROVE Rooted'
    <2>1. d # Root /\ ~Exists(d) /\ Exists(Parent[d]) /\ Parent[d] \in Dir
      BY <1>0, <1>2 DEF DirectoryCreated
    <2>2. \A e \in Dir : Exists(e)' <=> Exists(e) \/ e = d
      BY <1>0, <1>2, <2>1 DEF DirectoryCreated, Exists, Tree
    <2>3. ASSUME NEW S \in SUBSET (Dir \ {Root}), \A e \in S : Exists(e)' /\ Parent[e] \in S
          PROVE  S = {}
      <3> DEFINE T == S \ {d}
      <3>1. \A e \in T : Exists(e) /\ Exists(Parent[e]) /\ Parent[e] \in S
        BY <2>2, <2>3 DEF Rooted
      <3>2. \A e \in T : Exists(e) /\ Parent[e] \in T
        BY <2>1, <3>1
      <3>3. T \in SUBSET (Dir \ {Root})
        OBVIOUS
      <3> HIDE DEF T
      <3>4. T = {}
        BY <3>2, <3>3 DEF Rooted
      <3> USE DEF T
      <3>5. S \subseteq {d}
        BY <3>4
      <3> QED
        BY <2>1, <2>3, <3>5
    <2>4. \A e \in Dir \ {Root} : Exists(e)' => Exists(Parent[e])'
      BY <1>0, <2>1, <2>2 DEF Rooted
    <2> QED
      BY <1>0, <2>2, <2>3, <2>4 DEF Rooted
  <1>3. ASSUME disk' = disk PROVE Rooted'
    BY <1>3 DEF Rooted, Exists
  <1>4. \/ disk' = disk
        \/ \E d \in Dir : FileChanges(d) \/ DirectoryCreated(d)
    <2>1. \A c \in Caller : CallStep(c) => disk' = disk
      BY DEF CallStep, EnsureRootWatcher, WalkRoot, Unmark, InvalidateTreeCache,
             StopRootWatcher, WriteRow, StoreTree, ReadDirectory, files
    <2>2. \A c \in Caller : ShareDirectory(c) \/ UnshareDirectory(c) \/ GetLocalTree(c)
                               \/ Restart(c) => disk' = disk
      BY DEF ShareDirectory, UnshareDirectory, GetLocalTree, Begins, Restart
    <2>3. \A g \in Gen : WatcherStep(g) \/ Overflow(g) => disk' = disk
      BY WatchersLeave
    <2> QED
      BY <2>1, <2>2, <2>3 DEF Next, vars
  <1> QED
    BY <1>1, <1>2, <1>3, <1>4

BuildsKnown == \A c \in Caller : Building(c) => call[c].kind = "tree"

LEMMA BuildsKnownStep == ASSUME TypeInv, BuildsKnown, [Next]_vars PROVE BuildsKnown'
  <1>1. call \in [Caller -> Call]
    BY DEF TypeInv, TypeOK
  <1>2. ASSUME \A c \in Caller : \/ call'[c].kind = call[c].kind /\ call'[c].at = call[c].at
                                 \/ call'[c].at # "build"
        PROVE  BuildsKnown'
    BY <1>2 DEF BuildsKnown, Building
  <1>3. CASE call' = call \/ call' = BuildsFlawed
    BY <1>2, <1>3, BuildsFlawedType DEF TypeInv
  <1>4. ASSUME NEW d \in Dir, FileChanges(d) \/ DirectoryCreated(d) PROVE BuildsKnown'
    BY <1>3, <1>4 DEF FileChanges, DirectoryCreated, Notify
  <1>5. ASSUME NEW g \in Gen, WatcherStep(g) \/ Overflow(g) PROVE BuildsKnown'
    BY <1>3, <1>5, WatchersLeave
  <1>6. ASSUME NEW c \in Caller, ShareDirectory(c) \/ UnshareDirectory(c) \/ GetLocalTree(c)
        PROVE  BuildsKnown'
    <2>1. \A x \in Caller \ {c} : call'[x] = call[x]
      BY <1>1, <1>6 DEF ShareDirectory, UnshareDirectory, GetLocalTree, Begins
    <2>2. call'[c].at = "build" => call'[c].kind = "tree"
      BY <1>1, <1>6 DEF ShareDirectory, UnshareDirectory, GetLocalTree, Begins, NoCall
    <2> QED
      BY <2>1, <2>2 DEF BuildsKnown, Building
  <1>7. ASSUME NEW c \in Caller, NEW at, at # "build", Goes(c, at) \/ Returns(c)
        PROVE  BuildsKnown'
    BY <1>1, <1>2, <1>7 DEF Goes, Returns, NoCall, Call
  <1>8. ASSUME NEW c \in Caller, CallStep(c) PROVE BuildsKnown'
    <2>1. CASE EnsureRootWatcher(c)
      BY <1>1, <1>2, <1>7, <2>1 DEF EnsureRootWatcher, Call
    <2>2. CASE WalkRoot(c)
      BY <1>3, <1>7, <2>2 DEF WalkRoot
    <2>3. CASE Unmark(c) \/ StopRootWatcher(c) \/ WriteRow(c) \/ StoreTree(c)
      BY <1>7, <2>3 DEF Unmark, StopRootWatcher, WriteRow, StoreTree
    <2>4. CASE InvalidateTreeCache(c)
      <3>1. call'[c].at # "build" /\ \A x \in Caller \ {c} : call'[x] = BuildsFlawed[x]
        BY <1>1, <2>4, BuildsFlawedType DEF InvalidateTreeCache, NoCall, Call, TypeInv
      <3> QED
        BY <1>2, <3>1, BuildsFlawedType DEF TypeInv
    <2>5. ASSUME NEW d \in Dir, ReadDirectory(c, d) PROVE BuildsKnown'
      BY <1>1, <1>2, <2>5 DEF ReadDirectory, Call
    <2> QED
      BY <1>8, <2>1, <2>2, <2>3, <2>4, <2>5 DEF CallStep
  <1>9. ASSUME NEW c \in Caller, Restart(c) PROVE BuildsKnown'
    <2>1. NoCall.at # "build" /\ [NoCall EXCEPT !.kind = "load", !.at = "watch"].at # "build"
      BY DEF NoCall
    <2>2. \A x \in Caller : call'[x].at # "build"
      BY <1>9, <2>1 DEF Restart
    <2> QED
      BY <1>2, <2>2
  <1> QED
    BY <1>3, <1>4, <1>5, <1>6, <1>8, <1>9 DEF Next, vars

\* The inductive invariant of the cached tree.
FreshInv == Rooted /\ BuildsKnown /\ (Quiet => Fresh)

\* The tree and the builds are given up.
LEMMA FreshDropped ==
  ASSUME cache' = NoTree \/ flawed',
         \A c \in Caller : Building(c)' => call'[c].flawed
  PROVE  Fresh'
  BY DEF Fresh

\* Nothing that the tree is about has changed.
LEMMA FreshStays ==
  ASSUME Quiet => Fresh, Quiet' => Quiet, UNCHANGED <<disk, cache, flawed>>,
         \A c \in Caller : Building(c)' => call'[c] = call[c]
  PROVE  Quiet' => Fresh'
  BY DEF Fresh, Building, ReadsTrue, Exists

\* BuildsFlawed does what it says, to calls of which BuildsKnown.
LEMMA BuildsDropped ==
  ASSUME TypeInv, BuildsKnown, NEW c \in Caller, BuildsFlawed[c].at = "build"
  PROVE  BuildsFlawed[c].flawed
  <1>1. call[c] \in Call /\ call[c].kind = "tree"
    BY BuildsFlawedType DEF TypeInv, TypeOK, BuildsKnown, Building
  <1> QED
    BY <1>1 DEF BuildsFlawed, Call

LEMMA FreshFiles ==
  ASSUME TypeInv, BuildsKnown, NEW d \in Dir, FileChanges(d) \/ DirectoryCreated(d)
  PROVE  Quiet' => Fresh'
  <1>1. PICK x \in Dir, child \in Event : Notify(x, child)
    BY SharedDirsAssumption DEF FileChanges, DirectoryCreated, Event
  <1>2. current' = current /\ cache' = cache
    BY DEF FileChanges, DirectoryCreated
  <1>3. current # 0 => current \in Gen
    BY SharedDirsAssumption DEF TypeInv, TypeOK, Gen
  <1>4. CASE current # 0 /\ x \in watcher[current].watches
    BY <1>1, <1>2, <1>3, <1>4, NotifyKeeps DEF TypeInv, Quiet
  <1>5. CASE ~(current # 0 /\ x \in watcher[current].watches)
    <2>1. call' = BuildsFlawed /\ flawed' = (flawed \/ cache # NoTree)
      BY <1>1, <1>5 DEF Notify
    <2>2. flawed \in BOOLEAN
      BY DEF TypeInv, TypeOK
    <2>3. cache' = NoTree \/ flawed'
      BY <1>2, <2>1, <2>2
    <2>4. \A c \in Caller : Building(c)' => call'[c].flawed
      BY <2>1, BuildsDropped DEF Building
    <2> QED
      BY <2>3, <2>4, FreshDropped
  <1> QED
    BY <1>4, <1>5

LEMMA FreshWatchers ==
  ASSUME TypeInv, BuildsKnown, Quiet => Fresh, NEW g \in Gen, WatcherStep(g) \/ Overflow(g)
  PROVE  Quiet' => Fresh'
  <1>1. watcher \in [Gen -> Watcher] /\ watcher[g] \in Watcher
    BY DEF TypeInv, TypeOK
  <1>2. ASSUME call' = BuildsFlawed, cache' = NoTree \/ flawed' PROVE Fresh'
    <2>1. \A c \in Caller : Building(c)' => call'[c].flawed
      BY <1>2, BuildsDropped DEF Building
    <2> QED
      BY <1>2, <2>1, FreshDropped
  <1>3. ASSUME NEW e \in Event, HandleEvent(g, e) PROVE Fresh'
    BY <1>2, <1>3 DEF HandleEvent, Invalidate
  <1>4. CASE Overflow(g)
    BY <1>2, <1>4 DEF Overflow
  <1>5. ASSUME NEW w, Becomes(g, w), current # 0 /\ g = current => w.pending = watcher[g].pending,
               UNCHANGED <<disk, cache, flawed, call, current>>
        PROVE  Quiet' => Fresh'
    <2>1. current # 0 => current \in Gen
      BY SharedDirsAssumption DEF TypeInv, TypeOK, Gen
    <2>2. current # 0 => watcher'[current].pending = watcher[current].pending
      BY <1>1, <1>5, <2>1 DEF Becomes
    <2>3. Quiet' => Quiet
      BY <1>5, <2>2 DEF Quiet, Maker
    <2> QED
      BY <1>5, <2>3, FreshStays
  <1>6. CASE WalkNew(g)
    <2>1. UNCHANGED <<disk, cache, flawed, call, current>>
      BY <1>6 DEF WalkNew, files
    <2>2. ASSUME NEW d \in watcher[g].todo, Becomes(g, Visits(watcher[g], d))
          PROVE  Quiet' => Fresh'
      <3>1. d \in Dir
        BY <1>1 DEF Watcher
      <3> QED
        BY <1>1, <1>5, <2>1, <2>2, <3>1, VisitsType
    <2>3. CASE Becomes(g, [watcher[g] EXCEPT !.todo = {}, !.gap = TRUE])
      <3>1. [watcher[g] EXCEPT !.todo = {}, !.gap = TRUE].pending = watcher[g].pending
        BY <1>1 DEF Watcher
      <3> QED
        BY <1>5, <2>1, <2>3, <3>1
    <2> QED
      BY <1>6, <2>2, <2>3 DEF WalkNew
  <1>7. CASE WatcherEnds(g)
    <2>1. UNCHANGED <<disk, cache, flawed, call, current>> /\ Becomes(g, Closed)
      BY <1>7 DEF WatcherEnds, files
    <2>2. ~(current # 0 /\ g = current)
      BY <1>7 DEF WatcherEnds, TypeInv, TypeOK
    <2> QED
      BY <1>5, <2>1, <2>2
  <1> QED
    BY <1>3, <1>4, <1>6, <1>7 DEF WatcherStep

LEMMA FreshBegins ==
  ASSUME TypeInv, Rooted, Quiet => Fresh, NEW c \in Caller,
         ShareDirectory(c) \/ UnshareDirectory(c) \/ GetLocalTree(c)
  PROVE  Quiet' => Fresh'
  <1>1. call \in [Caller -> Call] /\ call[c] = NoCall /\ \A x \in Caller \ {c} : call'[x] = call[x]
    BY DEF TypeInv, TypeOK, ShareDirectory, UnshareDirectory, GetLocalTree, Begins
  <1>2. UNCHANGED <<disk, cache, flawed, watcher, current>>
    BY DEF ShareDirectory, UnshareDirectory, GetLocalTree, Begins
  <1>3. Quiet' => Quiet
    BY <1>1, <1>2 DEF Quiet, Maker, NoCall
  <1>4. CASE ShareDirectory(c) \/ UnshareDirectory(c)
    <2>1. call'[c].at # "build"
      BY <1>1, <1>4 DEF ShareDirectory, UnshareDirectory, Begins, NoCall
    <2> QED
      BY <1>1, <1>2, <1>3, <2>1, FreshStays DEF Building
  <1>5. CASE GetLocalTree(c)
    <2>1. call'[c].seen = Nothing /\ call'[c].todo = {Root}
      BY <1>1, <1>5 DEF GetLocalTree, Begins, NoCall
    <2>2. ReadsTrue(c)'
      BY <1>2, <2>1, SharedDirsAssumption DEF ReadsTrue, Nothing, Rooted, Exists
    <2>3. \A x \in Caller \ {c} : ReadsTrue(x) => ReadsTrue(x)'
      BY <1>1, <1>2 DEF ReadsTrue, Exists
    <2> QED
      BY <1>1, <1>2, <1>3, <2>2, <2>3 DEF Fresh, Building
  <1> QED
    BY <1>4, <1>5

LEMMA FreshReads ==
  ASSUME TypeInv, Quiet => Fresh, NEW c \in Caller, NEW d \in Dir, ReadDirectory(c, d)
  PROVE  Quiet' => Fresh'
  <1>1. call \in [Caller -> Call] /\ call[c] \in Call /\ disk \in Tree /\ d \in call[c].todo
    BY DEF TypeInv, TypeOK, ReadDirectory
  <1>2. /\ call'[c].at = "build" /\ call'[c].gen = call[c].gen /\ call'[c].flawed = call[c].flawed
        /\ call'[c].seen = [call[c].seen EXCEPT ![d] = disk[d]]
        /\ call'[c].todo = (call[c].todo \ {d}) \cup {e \in Below(d) : Exists(e)}
        /\ \A x \in Caller \ {c} : call'[x] = call[x]
    BY <1>1 DEF ReadDirectory, Call
  <1>3. UNCHANGED <<disk, cache, flawed, watcher, current>> /\ call[c].at = "build"
    BY DEF ReadDirectory, files
  <1>4. Quiet' => Quiet
    BY <1>2, <1>3 DEF Quiet, Maker
  <1>5. ASSUME ReadsTrue(c) PROVE ReadsTrue(c)'
    <2>1. call[c].seen \in [Dir -> Nat] /\ Exists(d) /\ disk[d] \in Nat
      BY <1>1, <1>5 DEF ReadsTrue, Call, Tree
    <2>2. \A e \in Dir : call'[c].seen[e] = IF e = d THEN disk[d] ELSE call[c].seen[e]
      BY <1>2, <2>1
    <2>3. \A e \in Dir : call'[c].seen[e] \in {0, disk'[e]}
      BY <1>3, <1>5, <2>2 DEF ReadsTrue
    <2>4. \A e \in call'[c].todo : Exists(e)'
      BY <1>2, <1>3, <1>5 DEF ReadsTrue, Exists
    <2>5. call'[c].seen[d] > 0
      BY <2>1, <2>2 DEF Exists
    <2>6. \A e \in Dir : e \in call[c].todo \/ call[c].seen[e] > 0
                           => e \in call'[c].todo \/ call'[c].seen[e] > 0
      BY <1>2, <2>2, <2>5
    <2>7. ASSUME NEW e \in Dir \ {Root}, Exists(e)', call'[c].seen[Parent[e]] > 0
          PROVE  e \in call'[c].todo \/ call'[c].seen[e] > 0
      <3>1. Exists(e) /\ Parent[e] \in Dir
        BY <1>3, <2>7, SharedDirsAssumption DEF Exists
      <3>2. CASE Parent[e] = d
        BY <1>2, <3>1, <3>2 DEF Below
      <3>3. CASE Parent[e] # d
        BY <1>5, <2>2, <2>6, <2>7, <3>1, <3>3 DEF ReadsTrue
      <3> QED
        BY <3>2, <3>3
    <2>8. Root \in call'[c].todo \/ call'[c].seen[Root] > 0
      BY <1>5, <2>6, SharedDirsAssumption DEF ReadsTrue
    <2> QED
      BY <2>3, <2>4, <2>7, <2>8 DEF ReadsTrue
  <1>6. \A x \in Caller \ {c} : ReadsTrue(x) => ReadsTrue(x)'
    BY <1>2, <1>3 DEF ReadsTrue, Exists
  <1> QED
    BY <1>2, <1>3, <1>4, <1>5, <1>6 DEF Fresh, Building

\* A build that has nothing left to read has read all there is: a directory that it
\* missed would hang on one that it missed too, and so on for ever.
LEMMA ReadsAll ==
  ASSUME TypeInv, Rooted, NEW c \in Caller, ReadsTrue(c), call[c].todo = {}
  PROVE  call[c].seen = disk
  <1>1. call[c].seen \in [Dir -> Nat] /\ disk \in [Dir -> Nat]
    BY DEF TypeInv, TypeOK, Call, Tree
  <1> DEFINE S == {d \in Dir \ {Root} : Exists(d) /\ ~(call[c].seen[d] > 0)}
  <1>2. \A d \in S : Exists(d) /\ Parent[d] \in S
    BY SharedDirsAssumption DEF ReadsTrue, Rooted
  <1>3. S \in SUBSET (Dir \ {Root})
    OBVIOUS
  <1> HIDE DEF S
  <1>4. S = {}
    BY <1>2, <1>3 DEF Rooted
  <1> USE DEF S
  <1>5. \A d \in Dir : Exists(d) => call[c].seen[d] > 0
    BY <1>4 DEF ReadsTrue
  <1>6. ASSUME NEW d \in Dir PROVE call[c].seen[d] = disk[d]
    BY <1>1, <1>5 DEF ReadsTrue, Exists
  <1> QED
    BY <1>1, <1>6

LEMMA FreshStored ==
  ASSUME TypeInv, Rooted, Quiet => Fresh, NEW c \in Caller, StoreTree(c)
  PROVE  Quiet' => Fresh'
  <1>1. call \in [Caller -> Call] /\ call[c].at = "build" /\ call[c].todo = {}
    BY DEF TypeInv, TypeOK, StoreTree
  <1>2. call'[c] = NoCall /\ \A x \in Caller \ {c} : call'[x] = call[x]
    BY <1>1 DEF StoreTree, Returns
  <1>3. UNCHANGED <<disk, watcher, current>> /\ cache' = call[c].seen /\ flawed' = call[c].flawed
    BY DEF StoreTree, files
  <1>4. Quiet' => Quiet
    BY <1>1, <1>2, <1>3 DEF Quiet, Maker
  <1>5. ASSUME Fresh, ~call[c].flawed PROVE call[c].seen = disk
    BY <1>1, <1>5, ReadsAll DEF Fresh, Building
  <1>6. \A x \in Caller : Building(x)' => x # c
    BY <1>2 DEF Building, NoCall
  <1>7. \A x \in Caller \ {c} : ReadsTrue(x) => ReadsTrue(x)'
    BY <1>2, <1>3 DEF ReadsTrue, Exists
  <1> QED
    BY <1>2, <1>3, <1>4, <1>5, <1>6, <1>7 DEF Fresh, Building

LEMMA FreshCalls ==
  ASSUME TypeInv, BuildsKnown, Quiet => Fresh, NEW c \in Caller,
         \/ EnsureRootWatcher(c) \/ WalkRoot(c) \/ Unmark(c) \/ InvalidateTreeCache(c)
         \/ StopRootWatcher(c) \/ WriteRow(c)
  PROVE  Quiet' => Fresh'
  <1>1. call \in [Caller -> Call] /\ watcher \in [Gen -> Watcher]
    BY DEF TypeInv, TypeOK
  <1>2. current # 0 => current \in Gen
    BY SharedDirsAssumption DEF TypeInv, TypeOK, Gen
  \* The call moves on and the watcher in the map has the same events.
  <1>3. ASSUME NEW at, at # "build", Goes(c, at) \/ Returns(c),
               UNCHANGED <<disk, cache, flawed, current>>,
               current # 0 => watcher'[current].pending = watcher[current].pending,
               Maker(c) => at \in {"walk", "invalidate"} /\ Goes(c, at)
        PROVE  Quiet' => Fresh'
    <2>1. call'[c].at # "build" /\ \A x \in Caller \ {c} : call'[x] = call[x]
      BY <1>1, <1>3 DEF Goes, Returns, NoCall, Call
    <2>2. Goes(c, at) => call'[c].gen = call[c].gen /\ call'[c].at = at
      BY <1>1 DEF Goes, Call
    <2>3. Quiet' => Quiet
      BY <1>3, <2>1, <2>2 DEF Quiet, Maker
    <2> QED
      BY <1>3, <2>1, <2>3, FreshStays DEF Building
  <1>4. CASE EnsureRootWatcher(c)
    <2>1. UNCHANGED <<disk, cache, flawed>> /\ ~Maker(c)
      BY <1>4 DEF EnsureRootWatcher, files, Maker
    <2>2. CASE (Goes(c, "invalidate") \/ Goes(c, "unmark")) /\ UNCHANGED <<current, watcher>>
      BY <1>3, <2>1, <2>2
    <2>3. CASE current' = created + 1 /\ call' = [call EXCEPT ![c].at = "walk", ![c].gen = created + 1]
      <3>1. call'[c].at = "walk" /\ call'[c].gen = current'
        BY <1>1, <2>3 DEF Call
      <3> QED
        BY <3>1 DEF Quiet, Maker
    <2> QED
      BY <1>4, <2>2, <2>3 DEF EnsureRootWatcher
  <1>5. CASE WalkRoot(c)
    <2> DEFINE g == call[c].gen
    <2>1. UNCHANGED <<disk, cache, flawed>> /\ call[c].at = "walk"
      BY <1>5 DEF WalkRoot, files
    <2>2. ASSUME NEW w, Becomes(g, w), current' = current,
                 current # 0 /\ g = current => w.pending = watcher[g].pending
          PROVE  current # 0 => watcher'[current].pending = watcher[current].pending
      BY <1>1, <1>2, <2>2 DEF Becomes
    <2>3. ASSUME NEW d \in watcher[g].todo, Becomes(g, Visits(watcher[g], d)),
                 UNCHANGED <<current, call>>
          PROVE  Quiet' => Fresh'
      <3>1. current # 0 /\ g = current => Visits(watcher[g], d).pending = watcher[g].pending
        BY <1>1, <1>2, <2>3, VisitsType DEF Watcher
      <3>2. current # 0 => watcher'[current].pending = watcher[current].pending
        BY <2>2, <2>3, <3>1
      <3>3. Quiet' => Quiet
        BY <2>3, <3>2 DEF Quiet, Maker
      <3> QED
        BY <2>1, <2>3, <3>3, FreshStays
    <2>4. CASE current' = 0
      BY <2>4 DEF Quiet
    <2>5. CASE /\ Becomes(g, [watcher[g] EXCEPT !.at = "run"])
               /\ Goes(c, "invalidate") /\ UNCHANGED current
      <3>1. current # 0 /\ g = current =>
              [watcher[g] EXCEPT !.at = "run"].pending = watcher[g].pending
        BY <1>1, <1>2 DEF Watcher
      <3>2. current # 0 => watcher'[current].pending = watcher[current].pending
        BY <2>2, <2>5, <3>1
      <3> QED
        BY <1>3, <2>1, <2>5, <3>2
    <2> QED
      BY <1>5, <2>3, <2>4, <2>5 DEF WalkRoot
  <1>6. CASE Unmark(c)
    <2>1. Returns(c) /\ UNCHANGED <<disk, cache, flawed, current, watcher>> /\ ~Maker(c)
      BY <1>6 DEF Unmark, Maker
    <2> QED
      BY <1>3, <2>1
  <1>7. CASE WriteRow(c)
    <2>1. Returns(c) /\ UNCHANGED <<disk, cache, flawed, current, watcher>> /\ ~Maker(c)
      BY <1>7 DEF WriteRow, Maker
    <2> QED
      BY <1>3, <2>1
  <1>8. CASE StopRootWatcher(c)
    BY <1>8 DEF StopRootWatcher, Quiet
  <1>9. CASE InvalidateTreeCache(c)
    <2>1. cache' = NoTree
      BY <1>9 DEF InvalidateTreeCache
    <2>2. BuildsFlawed \in [Caller -> Call]
      BY BuildsFlawedType DEF TypeInv
    <2>3. call'[c].at # "build" /\ \A x \in Caller \ {c} : call'[x] = BuildsFlawed[x]
      BY <1>1, <1>9, <2>2 DEF InvalidateTreeCache, NoCall, Call
    <2>4. \A x \in Caller : Building(x)' => call'[x].flawed
      BY <2>3, BuildsDropped DEF Building
    <2> QED
      BY <2>1, <2>4, FreshDropped
  <1> QED
    BY <1>4, <1>5, <1>6, <1>7, <1>8, <1>9

LEMMA FreshStep == TypeInv /\ FreshInv /\ [Next]_vars => TypeInv' /\ FreshInv'
  <1> SUFFICES ASSUME TypeInv, FreshInv, [Next]_vars PROVE Quiet' => Fresh'
    BY TypeStep, RootedStep, BuildsKnownStep DEF FreshInv
  <1>1. TypeInv /\ Rooted /\ BuildsKnown /\ (Quiet => Fresh)
    BY DEF FreshInv
  <1>2. ASSUME NEW c \in Caller, Restart(c) PROVE Quiet' => Fresh'
    BY <1>2 DEF Restart, Quiet
  <1>3. CASE UNCHANGED vars
    BY <1>1, <1>3 DEF vars, Quiet, Maker, Fresh, Building, ReadsTrue, Exists
  <1>4. ASSUME NEW c \in Caller, CallStep(c) PROVE Quiet' => Fresh'
    BY <1>1, <1>4, FreshCalls, FreshReads, FreshStored DEF CallStep
  <1> QED
    BY <1>1, <1>2, <1>3, <1>4, FreshFiles, FreshWatchers, FreshBegins DEF Next

\* A cached tree that is out of date is about to be dropped, wherever walks, builds,
\* events and calls are, unless it is marked as flawed (getOrBuildTree,
\* invalidateTreeCache, runRootWatcher).
THEOREM TreesFresh == Spec => []TreeFresh
  <1>1. Init => FreshInv
    <2> SUFFICES ASSUME Init PROVE FreshInv
      OBVIOUS
    <2>1. \A d \in Dir : Exists(d) <=> d = Root
      BY DEF Init, Exists
    <2>2. \A S \in SUBSET (Dir \ {Root}) : (\A d \in S : Exists(d) /\ Parent[d] \in S) => S = {}
      BY <2>1
    <2>3. Rooted
      BY <2>1, <2>2, SharedDirsAssumption DEF Rooted
    <2>4. ASSUME NEW x \in Caller PROVE ~Building(x)
      <3>1. call[x] = NoCall
        BY DEF Init
      <3>2. NoCall.at = "idle"
        BY DEF NoCall
      <3> QED
        BY <3>1, <3>2 DEF Building
    <2> QED
      BY <2>3, <2>4 DEF FreshInv, BuildsKnown, Fresh, Init
  <1>2. TypeInv /\ FreshInv => TreeFresh
    <2> SUFFICES ASSUME TypeInv, FreshInv, Busy = {} PROVE
                   (current # 0 /\ cache # NoTree /\ ~flawed /\ cache # disk) =>
                     watcher[current].pending # {}
      BY DEF TreeFresh
    <2>1. ASSUME NEW c \in Caller, Maker(c) PROVE FALSE
      <3>1. call[c].kind \in {"share", "unshare", "load"}
        BY <2>1 DEF Maker, TypeInv, CallShape
      <3> QED
        BY <3>1 DEF Busy
    <2> QED
      BY <2>1 DEF FreshInv, Quiet, Fresh
  <1> QED
    BY <1>1, <1>2, TypeInitially, FreshStep, PTL DEF Spec
=============================================================================
