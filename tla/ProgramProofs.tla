---------------------------- MODULE ProgramProofs ----------------------------
(***************************************************************************)
(* Proofs about the main program (Program): for any sources, requests,     *)
(* configurations and bounds, and any number of reloads, the store of the  *)
(* active server is open until the shutdown closes it, an exit that no     *)
(* reload overlapped leaves no server and no store behind, no sampler      *)
(* outlives a stopped monitor, a watcher that has come to rest has its     *)
(* last version running, and a capture is the one of its row.              *)
(***************************************************************************)
EXTENDS Program, WellFoundedInduction, TLAPS

-----------------------------------------------------------------------------
(* The invariant: first what the values are.                               *)

Versions == Nat \union {Missing}
Configs == [Sources -> Nat]

(* Where a call of reload may be: outside the flag, and inside with a      *)
(* configuration it has read or with the objects it has replaced.          *)
Resting == {"none", "enter"}
Reading == {"perf", "start", "build"}
Ending == {"shutdown", "close"}

RlType ==
    [step : Resting \union {"load"}]
      \union [step : Reading, cfg : Configs]
      \union [step : Ending, changed : BOOLEAN, srv : Nat, store : Nat]

Serving == {"serve", "prune", "capture"}

ReqType ==
    [step : {"none", "done"}] \union [step : Serving, srv : Nat, id : Nat]

RowType == [id : Nat, req : Requests]
LogType == [rows : SUBSET RowType, lastId : Nat, memory : BOOLEAN, open : BOOLEAN]

(* What a path, a cache of captures or a configuration of the monitor is   *)
(* does not matter here.                                                   *)
IsCache(c) == c \in [items : {c.items}, order : {c.order}, size : {c.size}, maxSize : {c.maxSize}]
IsServer(x) ==
    x \in [cfg : Configs, store : Nat, captures : {x.captures}, shut : BOOLEAN] /\ IsCache(x.captures)
IsStore(x) == x \in [path : {x.path}, log : LogType]
IsSeq(s) == s \in Seq({s[k] : k \in DOMAIN s})

FilesTyped ==
    /\ edits \in Nat /\ disk \in [Sources -> Versions]
    /\ prev \in [Sources -> Versions] /\ cur \in [Sources -> Versions]
    /\ watcher \in [Sources -> {"start", "idle", "fires", "gone"}]

ReloadsTyped ==
    /\ reloading \in BOOLEAN /\ overlap \in BOOLEAN
    /\ rl \in [Reloaders -> RlType]
    /\ \A a \in Reloaders : rl[a].step \in Ending =>
         rl[a].srv \in 1 .. Len(servers) /\ rl[a].store \in 1 .. Len(stores)

ServersTyped ==
    /\ IsSeq(servers)
    /\ \A s \in 1 .. Len(servers) : IsServer(servers[s]) /\ servers[s].store \in 1 .. Len(stores)

StoresTyped ==
    /\ IsSeq(stores)
    /\ \A i \in 1 .. Len(stores) : IsStore(stores[i])

ActiveTyped ==
    /\ active \in [srv : 1 .. Len(servers), store : 1 .. Len(stores), path : {active.path}]
    /\ term \in [srv : 1 .. Len(servers), store : 1 .. Len(stores)]
    /\ phase \in {"run", "closing", "drain", "stopped", "exited"}

RequestsTyped ==
    /\ req \in [Requests -> ReqType]
    /\ \A r \in Requests : req[r].step \in Serving => req[r].srv \in 1 .. Len(servers)

MonitorTyped ==
    /\ perf \in [conf : {perf.conf}, running : BOOLEAN, ctx : Nat, exists : BOOLEAN]
    /\ sampler \in Seq(Nat)

TypeOK ==
    /\ FilesTyped /\ ReloadsTyped /\ ServersTyped /\ StoresTyped
    /\ ActiveTyped /\ RequestsTyped /\ MonitorTyped

-----------------------------------------------------------------------------
(* Then how they hang together.                                            *)

(* At most one call of reload is past its entry, and the flag says so.     *)
OneReload ==
    /\ \A a \in Reloaders : rl[a].step \notin Resting => reloading
    /\ \A a, b \in Reloaders : rl[a].step \notin Resting /\ rl[b].step \notin Resting => a = b
    /\ \A w \in Sources : watcher[w] # "fires" => rl[w].step = "none"

SamplersEnd ==
    /\ \A i \in 1 .. Len(sampler) :
         sampler[i] \in cancelled \union {Off} \/ (perf.running /\ sampler[i] = perf.ctx)
    /\ ~perf.running => perf.ctx \in cancelled \union {Off}

(* The version n of w is not newer than the edits and what is on disk.     *)
Past(n, w) == n <= edits /\ (disk[w] # Missing => n <= disk[w])

NothingFromTheFuture ==
    \A w \in Sources :
        /\ disk[w] <= edits /\ Past(prev[w], w) /\ Past(cur[w], w)
        /\ Past(servers[active.srv].cfg[w], w)
        /\ \A a \in Reloaders : rl[a].step \in Reading => Past(rl[a].cfg[w], w)

(* The configuration c has all that the watchers have seen.                *)
Covers(c) ==
    \A w \in Sources :
        /\ watcher[w] = "idle" => prev[w] <= c[w]
        /\ watcher[w] = "fires" /\ rl[w].step # "enter" => cur[w] <= c[w]

NothingMissed ==
    missed = {} /\ (\A a \in Reloaders : rl[a].step # "load") =>
        /\ \A a \in Reloaders : rl[a].step \in Reading => Covers(rl[a].cfg)
        /\ (\A a \in Reloaders : rl[a].step \notin Reading) => Covers(servers[active.srv].cfg)

(* The store of the active server is none that a reload has yet to close.  *)
OldStoreIsOld ==
    \A a \in Reloaders : rl[a].step \in Ending /\ rl[a].changed => rl[a].store # active.store

(* What is neither active nor being replaced is shut and closed.           *)
Cleaned ==
    /\ \A s \in 1 .. Len(servers) : servers[s].shut \/ s = active.srv
         \/ \E a \in Reloaders : rl[a].step = "shutdown" /\ rl[a].srv = s
    /\ \A i \in 1 .. Len(stores) : ~stores[i].log.open \/ i = active.store
         \/ \E a \in Reloaders : rl[a].step \in Ending /\ rl[a].changed /\ rl[a].store = i

(* The shutdown, when no reload overlaps it, ends what is active.          *)
Ended ==
    phase # "run" /\ ~overlap =>
        /\ \A a \in Reloaders : rl[a].step \in Resting
        /\ ~reloading
        /\ term.srv = active.srv /\ term.store = active.store
        /\ phase \in {"stopped", "exited"} => servers[term.srv].shut
        /\ phase = "exited" => ~stores[term.store].log.open

LogOf(s) == stores[servers[s].store].log

RowsAndCaptures ==
    /\ \A i \in 1 .. Len(stores) : \A row \in stores[i].log.rows : row.id <= stores[i].log.lastId
    /\ \A s \in 1 .. Len(servers) : \A id \in DOMAIN servers[s].captures.items :
         /\ id \in Nat /\ id <= LogOf(s).lastId
         /\ \A row \in LogOf(s).rows : row.id = id =>
              servers[s].captures.items[id] = CaptureSize[row.req]
    /\ \A r \in Requests : req[r].step \in {"prune", "capture"} =>
         /\ req[r].id <= LogOf(req[r].srv).lastId
         /\ \A row \in LogOf(req[r].srv).rows : row.id = req[r].id => row.req = r

IInv ==
    /\ TypeOK /\ ActiveStoreOpen /\ OneReload /\ SamplersEnd /\ NothingFromTheFuture
    /\ NothingMissed /\ OldStoreIsOld /\ Cleaned /\ Ended /\ RowsAndCaptures

-----------------------------------------------------------------------------
(* Sequences of values of any kind.                                        *)

(* A sequence over any set is one.                                         *)
LEMMA SeqIsSeq ==
    ASSUME NEW T, NEW s \in Seq(T)
    PROVE  IsSeq(s)
BY SMT DEF IsSeq

(* A value appended to a sequence comes last and moves no other.           *)
LEMMA AppendSeq ==
    ASSUME NEW s, IsSeq(s), NEW x
    PROVE  /\ IsSeq(Append(s, x))
           /\ Len(Append(s, x)) = Len(s) + 1
           /\ \A i \in 1 .. Len(s) : Append(s, x)[i] = s[i]
           /\ Append(s, x)[Len(s) + 1] = x
<1> DEFINE t == Append(s, x)
           T == {s[i] : i \in DOMAIN s} \union {x}
<1>1. s \in Seq(T)
  BY SMT DEF IsSeq
<1>2. /\ t \in Seq(T) /\ Len(t) = Len(s) + 1
      /\ \A i \in 1 .. Len(s) : t[i] = s[i]
      /\ t[Len(s) + 1] = x
  BY <1>1, SMT
<1> HIDE DEF t, T
<1>3. IsSeq(t)
  BY <1>2, SeqIsSeq
<1> QED BY <1>2, <1>3 DEF t

(* A sequence has its values at 1 to its length.                           *)
LEMMA SeqShape ==
    ASSUME NEW s, IsSeq(s)
    PROVE  Len(s) \in Nat /\ DOMAIN s = 1 .. Len(s)
<1>1. s \in Seq({s[i] : i \in DOMAIN s})
  BY DEF IsSeq
<1> QED BY <1>1, SMT

(* A change at one place leaves the others.                                *)
LEMMA ChangeSeq ==
    ASSUME NEW s, NEW i, NEW x, NEW t, IsSeq(s), i \in 1 .. Len(s), t = [s EXCEPT ![i] = x]
    PROVE  /\ IsSeq(t) /\ Len(t) = Len(s)
           /\ t[i] = x
           /\ \A j \in 1 .. Len(s) : j # i => t[j] = s[j]
<1>1. PICK T : s \in Seq(T) /\ x \in T
  <2>1. s \in Seq({s[j] : j \in DOMAIN s} \union {x})
    BY SMT DEF IsSeq
  <2> QED BY <2>1
<1>2. /\ t \in Seq(T) /\ Len(t) = Len(s) /\ t[i] = x
      /\ \A j \in 1 .. Len(s) : j # i => t[j] = s[j]
  BY <1>1, SMT
<1>3. IsSeq(t)
  BY <1>2, SeqIsSeq
<1> QED BY <1>2, <1>3

(* A nonempty set of the numbers up to n has a greatest member: the one    *)
(* nearest to n.                                                           *)
LEMMA Greatest ==
    ASSUME NEW n \in Nat, NEW S, S \subseteq 1 .. n, S # {}
    PROVE  \E i \in S : \A j \in S : j <= i
<1> DEFINE Less == {p \in Nat \X Nat : p[1] < p[2]}
           Below == {n - i : i \in S}
<1>1. OpToRel(<, Nat) = Less
  BY DEF OpToRel
<1>2. IsWellFoundedOn(Less, Nat)
  BY <1>1, NatLessThanWellFounded
<1>3. Below \in SUBSET Nat /\ Below # {}
  <2>1. \A i \in S : n - i \in Nat
    BY SMT
  <2> QED BY <2>1
<1>4. \E x \in Below : \A y \in Below : ~(<<y, x>> \in Less)
  <2> HIDE DEF Below, Less
  <2> QED BY <1>2, <1>3, WFMin
<1>5. \A x, y \in Nat : y < x => <<y, x>> \in Less
  OBVIOUS
<1> HIDE DEF Less
<1>6. PICK i \in S : \A j \in S : ~(n - j < n - i)
  BY <1>3, <1>4, <1>5
<1>7. \A j \in S : j <= i
  BY <1>6, SMT
<1> QED BY <1>7

-----------------------------------------------------------------------------
(* The store and the captures.                                             *)

(* A closed store keeps its rows.                                          *)
LEMMA CloseKeeps ==
    ASSUME NEW log \in LogType
    PROVE  /\ CloseStore(log) \in LogType
           /\ CloseStore(log).rows = log.rows /\ CloseStore(log).lastId = log.lastId
           /\ ~CloseStore(log).open
BY DEF LogType, CloseStore

(* The new row is the only one that is not an old one, and its id is new.  *)
LEMMA InsertAdds ==
    ASSUME NEW log \in LogType, NEW r \in Requests
    PROVE  LET after == InsertActivity(log, [id |-> 0, req |-> r])
           IN /\ after \in LogType
              /\ after.lastId = log.lastId + 1
              /\ after.open = log.open
              /\ after.rows = log.rows \union {[id |-> log.lastId + 1, req |-> r]}
<1> DEFINE row == [id |-> log.lastId + 1, req |-> r]
           after == InsertActivity(log, [id |-> 0, req |-> r])
<1>1. [[id |-> 0, req |-> r] EXCEPT !.id = log.lastId + 1] = row
  OBVIOUS
<1> DEFINE mid == [log EXCEPT !.rows = @ \union {row}]
<1>2. after = [mid EXCEPT !.lastId = log.lastId + 1]
  BY <1>1 DEF InsertActivity
<1>3. row \in RowType
  BY SMT DEF RowType, LogType
<1> HIDE DEF row, after
<1>4. /\ mid \in LogType
      /\ mid.lastId = log.lastId /\ mid.open = log.open /\ mid.rows = log.rows \union {row}
  BY <1>3, SMT DEF LogType
<1> HIDE DEF mid
<1>5. /\ after \in LogType
      /\ after.lastId = log.lastId + 1 /\ after.open = mid.open /\ after.rows = mid.rows
  BY <1>2, <1>4, SMT DEF LogType
<1> QED BY <1>4, <1>5 DEF row, after

(* Pruning makes no row and no id.                                         *)
LEMMA PruneKeeps ==
    ASSUME NEW log \in LogType
    PROVE  LET after == PruneActivity(log, MaxRows)
           IN /\ after \in LogType
              /\ after.lastId = log.lastId
              /\ after.open = log.open
              /\ after.rows \subseteq log.rows
BY DEF LogType, PruneActivity

(* The cache has the new capture under its id at most; the others it has   *)
(* are old ones.                                                           *)
LEMMA CacheAddKeeps ==
    ASSUME NEW c, IsCache(c), NEW id, NEW size
    PROVE  LET after == CacheAdd(c, id, size)
           IN /\ IsCache(after)
              /\ \/ after = c
                 \/ /\ DOMAIN after.items \subseteq DOMAIN c.items \union {id}
                    /\ after.items[id] = size
                    /\ \A k \in DOMAIN after.items : k # id => after.items[k] = c.items[k]
<1> DEFINE out == Without(c, id)
           room == EvictFor(out, size)
<1>1. /\ IsCache(out) /\ DOMAIN out.items \subseteq DOMAIN c.items
      /\ \A k \in DOMAIN out.items : out.items[k] = c.items[k]
  BY DEF IsCache, Without
<1>2. /\ IsCache(room) /\ DOMAIN room.items \subseteq DOMAIN out.items
      /\ \A k \in DOMAIN room.items : room.items[k] = out.items[k]
  <2> HIDE DEF out
  <2> QED BY <1>1 DEF IsCache, EvictFor
<1> HIDE DEF room
<1> DEFINE new == [room EXCEPT !.items = [i \in DOMAIN @ \union {id} |-> IF i = id THEN size ELSE @[i]],
                               !.order = Append(@, id),
                               !.size = @ + size]
<1>3. /\ IsCache(new)
      /\ DOMAIN new.items = DOMAIN room.items \union {id}
      /\ new.items[id] = size
      /\ \A k \in DOMAIN new.items : k # id => new.items[k] = room.items[k]
  BY <1>2 DEF IsCache
<1>4. CacheAdd(c, id, size) = IF size > c.maxSize THEN c ELSE new
  BY DEF CacheAdd, room, out
<1> HIDE DEF new
<1>5. CASE size > c.maxSize
  BY <1>4, <1>5
<1>6. CASE ~(size > c.maxSize)
  BY <1>1, <1>2, <1>3, <1>4, <1>6, Zenon
<1> QED BY <1>5, <1>6

-----------------------------------------------------------------------------
(* The servers and the stores after a change of one of them.               *)

(* A server that is shut keeps all else.                                   *)
LEMMA ShutLeaves ==
    ASSUME ServersTyped, NEW s \in 1 .. Len(servers), servers' = ShutdownServer(s)
    PROVE  /\ IsSeq(servers') /\ Len(servers') = Len(servers)
           /\ \A t \in 1 .. Len(servers) :
                /\ IsServer(servers'[t])
                /\ servers'[t].cfg = servers[t].cfg
                /\ servers'[t].store = servers[t].store
                /\ servers'[t].captures = servers[t].captures
                /\ servers[t].shut => servers'[t].shut
           /\ servers'[s].shut
<1> DEFINE x == [servers[s] EXCEPT !.shut = TRUE]
<1>1. servers' = [servers EXCEPT ![s] = x]
  BY DEF ShutdownServer
<1>2. IsSeq(servers) /\ \A t \in 1 .. Len(servers) : IsServer(servers[t])
  BY DEF ServersTyped
<1>3. /\ IsServer(x) /\ x.cfg = servers[s].cfg /\ x.store = servers[s].store
      /\ x.captures = servers[s].captures /\ x.shut
  <2>1. IsServer(servers[s])
    BY <1>2
  <2> QED BY <2>1 DEF IsServer
<1> HIDE DEF x
<1>4. /\ IsSeq(servers') /\ Len(servers') = Len(servers) /\ servers'[s] = x
      /\ \A t \in 1 .. Len(servers) : t # s => servers'[t] = servers[t]
  <2>1. IsSeq(servers')
    BY <1>1, <1>2, ChangeSeq
  <2>2. Len(servers') = Len(servers)
    BY <1>1, <1>2, ChangeSeq
  <2>3. servers'[s] = x
    BY <1>1, <1>2, ChangeSeq
  <2>4. \A t \in 1 .. Len(servers) : t # s => servers'[t] = servers[t]
    BY <1>1, <1>2, ChangeSeq
  <2> QED BY <2>1, <2>2, <2>3, <2>4
<1> QED BY <1>2, <1>3, <1>4

(* A capture added to one server leaves the others and all else.           *)
LEMMA CaptureLeaves ==
    ASSUME ServersTyped, NEW s \in 1 .. Len(servers), NEW c, IsCache(c),
           servers' = [servers EXCEPT ![s] = [servers[s] EXCEPT !.captures = c]]
    PROVE  /\ IsSeq(servers') /\ Len(servers') = Len(servers)
           /\ \A t \in 1 .. Len(servers) :
                /\ IsServer(servers'[t])
                /\ servers'[t].cfg = servers[t].cfg
                /\ servers'[t].store = servers[t].store
                /\ servers'[t].captures = IF t = s THEN c ELSE servers[t].captures
                /\ servers'[t].shut = servers[t].shut
<1> DEFINE x == [servers[s] EXCEPT !.captures = c]
<1>2. IsSeq(servers) /\ \A t \in 1 .. Len(servers) : IsServer(servers[t])
  BY DEF ServersTyped
<1>3. /\ IsServer(x) /\ x.cfg = servers[s].cfg /\ x.store = servers[s].store
      /\ x.captures = c /\ x.shut = servers[s].shut
  <2>1. IsServer(servers[s])
    BY <1>2
  <2> QED BY <2>1 DEF IsServer
<1>1. servers' = [servers EXCEPT ![s] = x]
  OBVIOUS
<1> HIDE DEF x
<1>4. /\ IsSeq(servers') /\ Len(servers') = Len(servers) /\ servers'[s] = x
      /\ \A t \in 1 .. Len(servers) : t # s => servers'[t] = servers[t]
  <2>1. IsSeq(servers')
    BY <1>1, <1>2, ChangeSeq
  <2>2. Len(servers') = Len(servers)
    BY <1>1, <1>2, ChangeSeq
  <2>3. servers'[s] = x
    BY <1>1, <1>2, ChangeSeq
  <2>4. \A t \in 1 .. Len(servers) : t # s => servers'[t] = servers[t]
    BY <1>1, <1>2, ChangeSeq
  <2> QED BY <2>1, <2>2, <2>3, <2>4
<1> QED BY <1>2, <1>3, <1>4

(* A log that changes leaves the other stores and the path of its own.     *)
LEMMA LogLeaves ==
    ASSUME StoresTyped, NEW i \in 1 .. Len(stores), NEW log \in LogType,
           stores' = [stores EXCEPT ![i] = [stores[i] EXCEPT !.log = log]]
    PROVE  /\ StoresTyped' /\ Len(stores') = Len(stores)
           /\ stores'[i].log = log
           /\ \A j \in 1 .. Len(stores) : j # i => stores'[j] = stores[j]
<1> DEFINE x == [stores[i] EXCEPT !.log = log]
<1>1. stores' = [stores EXCEPT ![i] = x]
  OBVIOUS
<1>2. IsSeq(stores) /\ \A j \in 1 .. Len(stores) : IsStore(stores[j])
  BY DEF StoresTyped
<1>3. IsStore(x) /\ x.log = log
  <2>1. IsStore(stores[i])
    BY <1>2
  <2> QED BY <2>1 DEF IsStore
<1> HIDE DEF x
<1>4. /\ IsSeq(stores') /\ Len(stores') = Len(stores) /\ stores'[i] = x
      /\ \A j \in 1 .. Len(stores) : j # i => stores'[j] = stores[j]
  <2>1. IsSeq(stores')
    BY <1>1, <1>2, ChangeSeq
  <2>2. Len(stores') = Len(stores)
    BY <1>1, <1>2, ChangeSeq
  <2>3. stores'[i] = x
    BY <1>1, <1>2, ChangeSeq
  <2>4. \A j \in 1 .. Len(stores) : j # i => stores'[j] = stores[j]
    BY <1>1, <1>2, ChangeSeq
  <2> QED BY <2>1, <2>2, <2>3, <2>4
<1>5. \A j \in 1 .. Len(stores') : IsStore(stores'[j])
  BY <1>2, <1>3, <1>4
<1> QED BY <1>3, <1>4, <1>5 DEF StoresTyped

(* A new store is typed: it has the rows of the last one at its path, or   *)
(* none.                                                                   *)
LEMMA OpenTyped ==
    ASSUME StoresTyped, NEW path
    PROVE  LET st == OpenStore(path, stores)
           IN /\ IsStore(st) /\ st.log.open
              /\ \/ st.log.rows = {}
                 \/ \E i \in 1 .. Len(stores) :
                      st.log.rows = stores[i].log.rows /\ st.log.lastId = stores[i].log.lastId
<1> DEFINE same == {i \in DOMAIN stores : path # "" /\ stores[i].path = path}
           before == CHOOSE i \in same : \A j \in same : j <= i
           fresh == NewStore(path = "")
           again == [stores[before].log EXCEPT !.open = TRUE]
           log == IF same = {} THEN fresh ELSE again
<1>1. OpenStore(path, stores) = [path |-> path, log |-> log]
  BY DEF OpenStore
<1>2. fresh \in LogType /\ fresh.open /\ fresh.rows = {}
  BY DEF NewStore, LogType
<1>3. ASSUME same # {}
      PROVE  /\ before \in 1 .. Len(stores) /\ again \in LogType /\ again.open
             /\ again.rows = stores[before].log.rows /\ again.lastId = stores[before].log.lastId
  <2>1. Len(stores) \in Nat /\ same \subseteq 1 .. Len(stores)
    BY SeqShape DEF StoresTyped
  <2>2. before \in same
    <3>1. \E i \in same : \A j \in same : j <= i
      <4> HIDE DEF same
      <4> QED BY <1>3, <2>1, Greatest
    <3> HIDE DEF same
    <3> QED BY <3>1
  <2> HIDE DEF before
  <2>3. IsStore(stores[before])
    BY <2>1, <2>2 DEF StoresTyped
  <2>4. stores[before].log \in LogType
    BY <2>3 DEF IsStore
  <2> QED BY <2>1, <2>2, <2>4 DEF LogType
<1> HIDE DEF same, before, fresh, again
<1>4. log \in LogType /\ log.open
  BY <1>2, <1>3
<1>5. \/ log.rows = {}
      \/ \E i \in 1 .. Len(stores) :
           log.rows = stores[i].log.rows /\ log.lastId = stores[i].log.lastId
  BY <1>2, <1>3
<1> HIDE DEF log
<1>6. IsStore([path |-> path, log |-> log])
  BY <1>4 DEF IsStore
<1> QED BY <1>1, <1>4, <1>5, <1>6

-----------------------------------------------------------------------------
(* What a step may change.                                                 *)

(* The steps that change no server and no store.                           *)
LEMMA OthersLeaveObjects ==
    ASSUME [Next]_vars
    PROVE  \/ UNCHANGED objects
           \/ \E a \in Reloaders : Exchange(a) \/ ShutdownOld(a) \/ CloseOld(a)
           \/ \E r \in Requests : Insert(r) \/ Prune(r) \/ Capture(r)
           \/ ShutdownActive \/ Exit
<1>1. CASE UNCHANGED vars
  BY <1>1 DEF vars
<1>2. CASE \E w \in Sources : Edit(w) \/ Vanish(w) \/ Watch(w)
  BY <1>2 DEF Edit, Vanish, Watch, Baseline, Poll, PollReturns, WatcherEnds
<1>3. CASE Hup
  BY <1>3 DEF Hup
<1>4. CASE \E a \in Reloaders : Reload(a)
  BY <1>4 DEF Reload, Enter, Load, LoadFails, UpdatePerf, RestartPerf, BuildFails
<1>5. CASE \E r \in Requests : Serve(r)
  BY <1>5 DEF Serve, Arrive
<1>6. CASE \E i \in DOMAIN sampler : Tick(i) \/ SamplerEnds(i)
  BY <1>6 DEF Tick, SamplerEnds
<1>7. CASE Shutdown
  BY <1>7 DEF Shutdown, Term, CloseStreams
<1> QED BY <1>1, <1>2, <1>3, <1>4, <1>5, <1>6, <1>7 DEF Next

(* The steps that leave the calls of reload, and their flags, alone.       *)
LEMMA OthersLeaveReloads ==
    ASSUME [Next]_vars
    PROVE  \/ UNCHANGED <<reloading, rl, overlap>>
           \/ \E w \in Sources : Poll(w)
           \/ Hup \/ Term
           \/ \E a \in Reloaders : Reload(a)
<1>1. CASE UNCHANGED vars
  BY <1>1 DEF vars
<1>2. CASE \E w \in Sources : Edit(w) \/ Vanish(w) \/ Watch(w)
  BY <1>2 DEF Edit, Vanish, Watch, Baseline, PollReturns, WatcherEnds
<1>5. CASE \E r \in Requests : Serve(r)
  BY <1>5 DEF Serve, Arrive, Insert, Prune, Capture
<1>6. CASE \E i \in DOMAIN sampler : Tick(i) \/ SamplerEnds(i)
  BY <1>6 DEF Tick, SamplerEnds
<1>7. CASE Shutdown
  BY <1>7 DEF Shutdown, CloseStreams, ShutdownActive, Exit
<1> QED BY <1>1, <1>2, <1>5, <1>6, <1>7 DEF Next

(* The steps that leave the files and what the watchers know alone.        *)
LEMMA OthersLeaveFiles ==
    ASSUME [Next]_vars
    PROVE  \/ UNCHANGED <<edits, disk, watch>>
           \/ \E w \in Sources : Edit(w) \/ Vanish(w) \/ Watch(w)
<1>1. CASE UNCHANGED vars
  BY <1>1 DEF vars, files, watch
<1>3. CASE Hup
  BY <1>3 DEF Hup
<1>4. CASE \E a \in Reloaders : Reload(a)
  BY <1>4 DEF Reload, Enter, Load, LoadFails, UpdatePerf, RestartPerf, BuildFails,
     Exchange, ShutdownOld, CloseOld, files
<1>5. CASE \E r \in Requests : Serve(r)
  BY <1>5 DEF Serve, Arrive, Insert, Prune, Capture, files
<1>6. CASE \E i \in DOMAIN sampler : Tick(i) \/ SamplerEnds(i)
  BY <1>6 DEF Tick, SamplerEnds, files
<1>7. CASE Shutdown
  BY <1>7 DEF Shutdown, Term, CloseStreams, ShutdownActive, Exit, files
<1> QED BY <1>1, <1>3, <1>4, <1>5, <1>6, <1>7 DEF Next

(* The steps that leave the monitor alone.                                 *)
LEMMA OthersLeaveMonitor ==
    ASSUME [Next]_vars
    PROVE  \/ UNCHANGED monitor
           \/ \E a \in Reloaders : UpdatePerf(a) \/ RestartPerf(a)
           \/ \E i \in DOMAIN sampler : Tick(i) \/ SamplerEnds(i)
           \/ Exit
<1>1. CASE UNCHANGED vars
  BY <1>1 DEF vars
<1>2. CASE \E w \in Sources : Edit(w) \/ Vanish(w) \/ Watch(w)
  BY <1>2 DEF Edit, Vanish, Watch, Baseline, Poll, PollReturns, WatcherEnds
<1>3. CASE Hup
  BY <1>3 DEF Hup
<1>4. CASE \E a \in Reloaders : Reload(a)
  BY <1>4 DEF Reload, Enter, Load, LoadFails, BuildFails, Exchange, ShutdownOld, CloseOld
<1>5. CASE \E r \in Requests : Serve(r)
  BY <1>5 DEF Serve, Arrive, Insert, Prune, Capture
<1>7. CASE Shutdown
  BY <1>7 DEF Shutdown, Term, CloseStreams, ShutdownActive
<1> QED BY <1>1, <1>2, <1>3, <1>4, <1>5, <1>7 DEF Next

(* The steps that leave the requests alone.                                *)
LEMMA OthersLeaveRequests ==
    ASSUME [Next]_vars
    PROVE  UNCHANGED req \/ \E r \in Requests : Serve(r)
<1>1. CASE UNCHANGED vars
  BY <1>1 DEF vars
<1>2. CASE \E w \in Sources : Edit(w) \/ Vanish(w) \/ Watch(w)
  BY <1>2 DEF Edit, Vanish, Watch, Baseline, Poll, PollReturns, WatcherEnds
<1>3. CASE Hup
  BY <1>3 DEF Hup
<1>4. CASE \E a \in Reloaders : Reload(a)
  BY <1>4 DEF Reload, Enter, Load, LoadFails, UpdatePerf, RestartPerf, BuildFails,
     Exchange, ShutdownOld, CloseOld
<1>6. CASE \E i \in DOMAIN sampler : Tick(i) \/ SamplerEnds(i)
  BY <1>6 DEF Tick, SamplerEnds
<1>7. CASE Shutdown
  BY <1>7 DEF Shutdown, Term, CloseStreams, ShutdownActive, Exit
<1> QED BY <1>1, <1>2, <1>3, <1>4, <1>6, <1>7 DEF Next

(* The steps of the shutdown are the only ones that change what it knows.  *)
LEMMA OthersLeaveEnding ==
    ASSUME [Next]_vars
    PROVE  UNCHANGED ending \/ Shutdown
<1>1. CASE UNCHANGED vars
  BY <1>1 DEF vars
<1>2. CASE \E w \in Sources : Edit(w) \/ Vanish(w) \/ Watch(w)
  BY <1>2 DEF Edit, Vanish, Watch, Baseline, Poll, PollReturns, WatcherEnds
<1>3. CASE Hup
  BY <1>3 DEF Hup
<1>4. CASE \E a \in Reloaders : Reload(a)
  BY <1>4 DEF Reload, Enter, Load, LoadFails, UpdatePerf, RestartPerf, BuildFails,
     Exchange, ShutdownOld, CloseOld
<1>5. CASE \E r \in Requests : Serve(r)
  BY <1>5 DEF Serve, Arrive, Insert, Prune, Capture
<1>6. CASE \E i \in DOMAIN sampler : Tick(i) \/ SamplerEnds(i)
  BY <1>6 DEF Tick, SamplerEnds
<1> QED BY <1>1, <1>2, <1>3, <1>4, <1>5, <1>6 DEF Next

-----------------------------------------------------------------------------
(* What the steps do to the servers and the stores.                        *)

(* Where a request is served, and where its row goes.                      *)
LEMMA ServedTyped ==
    ASSUME TypeOK, NEW r \in Requests, req[r].step \in Serving
    PROVE  /\ req[r].srv \in 1 .. Len(servers) /\ req[r].id \in Nat
           /\ servers[req[r].srv].store \in 1 .. Len(stores)
           /\ Log(r) \in LogType
           /\ Log(r) = LogOf(req[r].srv)
<1>1. req[r] \in ReqType
  BY DEF TypeOK, RequestsTyped
<1>2. req[r].id \in Nat
  BY <1>1 DEF ReqType, Serving
<1>3. /\ req[r].srv \in 1 .. Len(servers)
      /\ servers[req[r].srv].store \in 1 .. Len(stores)
  BY DEF TypeOK, RequestsTyped, ServersTyped
<1>4. IsStore(stores[servers[req[r].srv].store])
  BY <1>3 DEF TypeOK, StoresTyped
<1> QED BY <1>2, <1>3, <1>4 DEF IsStore, Log, LogOf

(* Closing a store, inserting a row and pruning leave the other stores.    *)
LEMMA CloseLeaves ==
    ASSUME StoresTyped, NEW i \in 1 .. Len(stores),
           stores' = [stores EXCEPT ![i].log = CloseStore(@)]
    PROVE  /\ StoresTyped' /\ Len(stores') = Len(stores)
           /\ ~stores'[i].log.open
           /\ \A j \in 1 .. Len(stores) :
                /\ stores'[j].log.rows = stores[j].log.rows
                /\ stores'[j].log.lastId = stores[j].log.lastId
                /\ j # i => stores'[j] = stores[j]
<1> DEFINE log == CloseStore(stores[i].log)
<1>1. stores' = [stores EXCEPT ![i] = [stores[i] EXCEPT !.log = log]]
  OBVIOUS
<1>2. stores[i].log \in LogType
  BY DEF StoresTyped, IsStore
<1>3. /\ log \in LogType /\ log.rows = stores[i].log.rows
      /\ log.lastId = stores[i].log.lastId /\ ~log.open
  BY <1>2, CloseKeeps
<1> HIDE DEF log
<1>4. /\ StoresTyped' /\ Len(stores') = Len(stores) /\ stores'[i].log = log
      /\ \A j \in 1 .. Len(stores) : j # i => stores'[j] = stores[j]
  BY <1>1, <1>3, LogLeaves
<1> QED BY <1>3, <1>4

(* Inserting a row into a store changes only its rows and its last id.     *)
LEMMA InsertLeaves ==
    ASSUME TypeOK, NEW r \in Requests, Insert(r), Log(r).open
    PROVE  LET i == servers[req[r].srv].store
               new == [id |-> Log(r).lastId + 1, req |-> r]
           IN /\ StoresTyped' /\ Len(stores') = Len(stores)
              /\ stores'[i].log.rows = stores[i].log.rows \union {new}
              /\ stores'[i].log.lastId = stores[i].log.lastId + 1
              /\ stores'[i].log.open = stores[i].log.open
              /\ \A j \in 1 .. Len(stores) : j # i => stores'[j] = stores[j]
<1> DEFINE i == servers[req[r].srv].store
           log == InsertActivity(Log(r), [id |-> 0, req |-> r])
<1>0. req[r].step \in Serving
  BY DEF Insert, Serving
<1>1. /\ i \in 1 .. Len(stores) /\ Log(r) \in LogType /\ Log(r) = stores[i].log
  BY <1>0, ServedTyped DEF Log
<1>2. stores' = [stores EXCEPT ![i] = [stores[i] EXCEPT !.log = log]]
  BY DEF Insert, Log
<1>3. /\ log \in LogType /\ log.lastId = Log(r).lastId + 1 /\ log.open = Log(r).open
      /\ log.rows = Log(r).rows \union {[id |-> Log(r).lastId + 1, req |-> r]}
  BY <1>1, InsertAdds
<1> HIDE DEF log, i
<1>4. /\ StoresTyped' /\ Len(stores') = Len(stores) /\ stores'[i].log = log
      /\ \A j \in 1 .. Len(stores) : j # i => stores'[j] = stores[j]
  BY <1>1, <1>2, <1>3, LogLeaves DEF TypeOK
<1> QED BY <1>1, <1>3, <1>4 DEF i

(* Pruning a store changes only its rows.                                  *)
LEMMA PruneLeaves ==
    ASSUME TypeOK, NEW r \in Requests, Prune(r)
    PROVE  /\ StoresTyped' /\ Len(stores') = Len(stores)
           /\ \A j \in 1 .. Len(stores) :
                /\ stores'[j].log.rows \subseteq stores[j].log.rows
                /\ stores'[j].log.lastId = stores[j].log.lastId
                /\ stores'[j].log.open = stores[j].log.open
<1> DEFINE i == servers[req[r].srv].store
           log == PruneActivity(Log(r), MaxRows)
<1>0. req[r].step \in Serving
  BY DEF Prune, Serving
<1>1. /\ i \in 1 .. Len(stores) /\ Log(r) \in LogType /\ Log(r) = stores[i].log
  BY <1>0, ServedTyped DEF Log
<1>2. CASE ~Log(r).open
  BY <1>2 DEF Prune, TypeOK, StoresTyped
<1>3. CASE Log(r).open
  <2>1. stores' = [stores EXCEPT ![i] = [stores[i] EXCEPT !.log = log]]
    BY <1>3 DEF Prune, Log
  <2>2. /\ log \in LogType /\ log.lastId = Log(r).lastId /\ log.open = Log(r).open
        /\ log.rows \subseteq Log(r).rows
    BY <1>1, PruneKeeps
  <2> HIDE DEF log, i
  <2>3. /\ StoresTyped' /\ Len(stores') = Len(stores) /\ stores'[i].log = log
        /\ \A j \in 1 .. Len(stores) : j # i => stores'[j] = stores[j]
    BY <1>1, <2>1, <2>2, LogLeaves DEF TypeOK
  <2> QED BY <1>1, <2>2, <2>3
<1> QED BY <1>2, <1>3

(* The capture goes to the server that served the request.                 *)
LEMMA CaptureGoes ==
    ASSUME TypeOK, NEW r \in Requests, Capture(r)
    PROVE  LET c == CacheAdd(servers[req[r].srv].captures, req[r].id, CaptureSize[r])
           IN /\ IsSeq(servers') /\ Len(servers') = Len(servers)
              /\ \A t \in 1 .. Len(servers) :
                   /\ IsServer(servers'[t])
                   /\ servers'[t].cfg = servers[t].cfg
                   /\ servers'[t].store = servers[t].store
                   /\ servers'[t].captures = IF t = req[r].srv THEN c ELSE servers[t].captures
                   /\ servers'[t].shut = servers[t].shut
<1> DEFINE s == req[r].srv
           c == CacheAdd(servers[s].captures, req[r].id, CaptureSize[r])
<1>0. req[r].step \in Serving
  BY DEF Capture, Serving
<1>1. s \in 1 .. Len(servers)
  BY <1>0, ServedTyped
<1>2. IsCache(servers[s].captures)
  BY <1>1 DEF TypeOK, ServersTyped, IsServer
<1>3. IsCache(c)
  BY <1>2, CacheAddKeeps
<1>4. servers' = [servers EXCEPT ![s] = [servers[s] EXCEPT !.captures = c]]
  BY DEF Capture
<1> HIDE DEF c, s
<1>5. /\ IsSeq(servers') /\ Len(servers') = Len(servers)
      /\ \A t \in 1 .. Len(servers) :
           /\ IsServer(servers'[t])
           /\ servers'[t].cfg = servers[t].cfg
           /\ servers'[t].store = servers[t].store
           /\ servers'[t].captures = IF t = s THEN c ELSE servers[t].captures
           /\ servers'[t].shut = servers[t].shut
  BY <1>1, <1>3, <1>4, CaptureLeaves DEF TypeOK
<1> QED BY <1>5 DEF c, s

(* Every step but the exchange keeps the servers and the stores there are. *)
Kept ==
    /\ active' = active
    /\ StoresTyped' /\ Len(stores') = Len(stores)
    /\ IsSeq(servers') /\ Len(servers') = Len(servers)
    /\ \A s \in 1 .. Len(servers) :
         /\ IsServer(servers'[s])
         /\ servers'[s].cfg = servers[s].cfg
         /\ servers'[s].store = servers[s].store
         /\ servers[s].shut => servers'[s].shut
    /\ \A i \in 1 .. Len(stores) : ~stores[i].log.open => ~stores'[i].log.open

(* Servers left alone are what they were.                                  *)
LEMMA ServersStay ==
    ASSUME TypeOK, UNCHANGED servers
    PROVE  /\ IsSeq(servers') /\ Len(servers') = Len(servers)
           /\ \A s \in 1 .. Len(servers) :
                /\ IsServer(servers'[s])
                /\ servers'[s].cfg = servers[s].cfg
                /\ servers'[s].store = servers[s].store
                /\ servers[s].shut => servers'[s].shut
BY DEF TypeOK, ServersTyped

(* There is no step that keeps neither them nor exchanges.                 *)
LEMMA Keeps ==
    ASSUME TypeOK, [Next]_vars
    PROVE  Kept \/ \E a \in Reloaders : Exchange(a)
<1>1. CASE UNCHANGED objects
  BY <1>1, ServersStay DEF objects, Kept, TypeOK, StoresTyped
<1>2. ASSUME NEW a \in Reloaders, ShutdownOld(a)
      PROVE  Kept
  <2>1. rl[a].srv \in 1 .. Len(servers)
    BY <1>2 DEF ShutdownOld, TypeOK, ReloadsTyped, Ending
  <2>2. servers' = ShutdownServer(rl[a].srv) /\ UNCHANGED <<stores, active>>
    BY <1>2 DEF ShutdownOld
  <2> QED BY <2>1, <2>2, ShutLeaves DEF Kept, TypeOK, StoresTyped
<1>3. ASSUME NEW a \in Reloaders, CloseOld(a)
      PROVE  Kept
  <2>1. rl[a].store \in 1 .. Len(stores)
    BY <1>3 DEF CloseOld, TypeOK, ReloadsTyped, Ending
  <2>2. UNCHANGED <<servers, active>>
    BY <1>3 DEF CloseOld
  <2>3. CASE rl[a].changed
    <3>1. stores' = [stores EXCEPT ![rl[a].store].log = CloseStore(@)]
      BY <1>3, <2>3 DEF CloseOld
    <3>2. StoresTyped' /\ Len(stores') = Len(stores)
      BY <2>1, <3>1, CloseLeaves DEF TypeOK
    <3>3. \A i \in 1 .. Len(stores) : ~stores[i].log.open => ~stores'[i].log.open
      BY <2>1, <3>1, CloseLeaves DEF TypeOK
    <3> QED BY <2>2, <3>2, <3>3, ServersStay DEF Kept
  <2>4. CASE ~rl[a].changed
    <3>1. UNCHANGED stores
      BY <1>3, <2>4 DEF CloseOld
    <3> QED BY <2>2, <3>1, ServersStay DEF Kept, TypeOK, StoresTyped
  <2> QED BY <2>3, <2>4
<1>4. ASSUME NEW r \in Requests, Insert(r)
      PROVE  Kept
  <2>0. UNCHANGED <<servers, active>>
    BY <1>4 DEF Insert
  <2>1. CASE Log(r).open
    <3> DEFINE i == servers[req[r].srv].store
    <3>1. /\ StoresTyped' /\ Len(stores') = Len(stores)
          /\ stores'[i].log.open = stores[i].log.open
          /\ \A j \in 1 .. Len(stores) : j # i => stores'[j] = stores[j]
      BY <1>4, <2>1, InsertLeaves
    <3> HIDE DEF i
    <3>2. \A j \in 1 .. Len(stores) : ~stores[j].log.open => ~stores'[j].log.open
      BY <3>1
    <3> QED BY <2>0, <3>1, <3>2, ServersStay DEF Kept
  <2>2. CASE ~Log(r).open
    <3>1. UNCHANGED stores
      BY <1>4, <2>2 DEF Insert
    <3> QED BY <2>0, <3>1, ServersStay DEF Kept, TypeOK, StoresTyped
  <2> QED BY <2>1, <2>2
<1>5. ASSUME NEW r \in Requests, Prune(r)
      PROVE  Kept
  <2>1. UNCHANGED <<servers, active>>
    BY <1>5 DEF Prune
  <2>2. /\ StoresTyped' /\ Len(stores') = Len(stores)
        /\ \A j \in 1 .. Len(stores) : stores'[j].log.open = stores[j].log.open
    BY <1>5, PruneLeaves
  <2> QED BY <2>1, <2>2, ServersStay DEF Kept
<1>6. ASSUME NEW r \in Requests, Capture(r)
      PROVE  Kept
  <2>1. UNCHANGED <<stores, active>>
    BY <1>6 DEF Capture
  <2>2. /\ IsSeq(servers') /\ Len(servers') = Len(servers)
        /\ \A s \in 1 .. Len(servers) :
             /\ IsServer(servers'[s])
             /\ servers'[s].cfg = servers[s].cfg
             /\ servers'[s].store = servers[s].store
             /\ servers'[s].shut = servers[s].shut
    BY <1>6, CaptureGoes
  <2> QED BY <2>1, <2>2 DEF Kept, TypeOK, StoresTyped
<1>7. CASE ShutdownActive
  <2>1. term.srv \in 1 .. Len(servers)
    BY DEF TypeOK, ActiveTyped
  <2>2. servers' = ShutdownServer(term.srv) /\ UNCHANGED <<stores, active>>
    BY <1>7 DEF ShutdownActive
  <2> QED BY <2>1, <2>2, ShutLeaves DEF Kept, TypeOK, StoresTyped
<1>8. CASE Exit
  <2>1. term.store \in 1 .. Len(stores)
    BY DEF TypeOK, ActiveTyped
  <2>2. stores' = [stores EXCEPT ![term.store].log = CloseStore(@)] /\ UNCHANGED <<servers, active>>
    BY <1>8 DEF Exit
  <2>3. StoresTyped' /\ Len(stores') = Len(stores)
    BY <2>1, <2>2, CloseLeaves DEF TypeOK
  <2>4. \A i \in 1 .. Len(stores) : ~stores[i].log.open => ~stores'[i].log.open
    BY <2>1, <2>2, CloseLeaves DEF TypeOK
  <2> QED BY <2>2, <2>3, <2>4, ServersStay DEF Kept
<1> QED BY <1>1, <1>2, <1>3, <1>4, <1>5, <1>6, <1>7, <1>8, OthersLeaveObjects

(* What a call of reload has read.                                         *)
LEMMA ReadingTyped ==
    ASSUME TypeOK, NEW a \in Reloaders, rl[a].step \in Reading
    PROVE  rl[a] \in [step : Reading, cfg : Configs]
<1>1. rl[a] \in RlType
  BY DEF TypeOK, ReloadsTyped
<1> QED BY <1>1 DEF RlType, Resting, Reading, Ending

(* A call of reload that has exchanged holds what it replaced.             *)
LEMMA EndingTyped ==
    ASSUME TypeOK, NEW a \in Reloaders, rl[a].step \in Ending
    PROVE  rl[a] \in [step : Ending, changed : BOOLEAN, srv : Nat, store : Nat]
<1>1. rl[a] \in RlType
  BY DEF TypeOK, ReloadsTyped
<1> QED BY <1>1 DEF RlType, Resting, Reading, Ending

(* The exchange: one server more over the same store or one store more,    *)
(* open; those there were remain as they are, the active ones are left to  *)
(* the rest of the reload.                                                 *)
LEMMA ExchangeAdds ==
    ASSUME TypeOK, NEW a \in Reloaders, Exchange(a)
    PROVE  LET n == Len(servers) + 1
               changes == StorePath(rl[a].cfg) # active.path
           IN /\ active'.srv = n /\ active'.path = StorePath(rl[a].cfg)
              /\ active' = [srv |-> n, store |-> active'.store, path |-> active'.path]
              /\ IsSeq(servers') /\ Len(servers') = n
              /\ \A s \in 1 .. Len(servers) : servers'[s] = servers[s]
              /\ IsServer(servers'[n]) /\ servers'[n].cfg = rl[a].cfg
              /\ servers'[n].store = active'.store
              /\ DOMAIN servers'[n].captures.items = {}
              /\ IsSeq(stores')
              /\ \A i \in 1 .. Len(stores) : stores'[i] = stores[i]
              /\ ~changes => active'.store = active.store /\ stores' = stores
              /\ changes => /\ active'.store = Len(stores) + 1
                            /\ Len(stores') = Len(stores) + 1
                            /\ stores'[Len(stores) + 1] = OpenStore(active'.path, stores)
              /\ rl' = [rl EXCEPT ![a] = [step |-> "shutdown", changed |-> changes,
                                          srv |-> active.srv, store |-> active.store]]
              /\ rl[a].cfg \in Configs
<1> DEFINE path == StorePath(rl[a].cfg)
           changes == path # active.path
           st == IF changes THEN Len(stores) + 1 ELSE active.store
           new == NewServer(rl[a].cfg, st)
           n == Len(servers) + 1
<1>1. /\ servers' = Append(servers, new)
      /\ stores' = IF changes THEN Append(stores, OpenStore(path, stores)) ELSE stores
      /\ active' = [srv |-> n, store |-> st, path |-> path]
      /\ rl' = [rl EXCEPT ![a] = [step |-> "shutdown", changed |-> changes,
                                  srv |-> active.srv, store |-> active.store]]
  BY DEF Exchange
<1>2. rl[a].cfg \in Configs
  <2>1. rl[a] \in [step : Reading, cfg : Configs]
    BY ReadingTyped DEF Exchange, Reading
  <2> QED BY <2>1
<1>3. st \in Nat
  <2>1. Len(stores) \in Nat /\ active.store \in 1 .. Len(stores)
    BY SeqShape DEF TypeOK, StoresTyped, ActiveTyped
  <2> QED BY <2>1
<1>4. IsServer(new) /\ new.cfg = rl[a].cfg /\ new.store = st /\ DOMAIN new.captures.items = {}
  <2>1. IsCache(NewCache(CaptureBuffer)) /\ DOMAIN NewCache(CaptureBuffer).items = {}
    BY DEF IsCache, NewCache
  <2> HIDE DEF st
  <2> QED BY <1>2, <1>3, <2>1 DEF NewServer, IsServer
<1> HIDE DEF new
<1>5. /\ IsSeq(servers') /\ Len(servers') = n /\ servers'[n] = new
      /\ \A s \in 1 .. Len(servers) : servers'[s] = servers[s]
  BY <1>1, AppendSeq DEF TypeOK, ServersTyped
<1>6. CASE changes
  <2>1. stores' = Append(stores, OpenStore(path, stores))
    BY <1>1, <1>6
  <2> HIDE DEF path
  <2>2. /\ IsSeq(stores') /\ Len(stores') = Len(stores) + 1
        /\ stores'[Len(stores) + 1] = OpenStore(path, stores)
        /\ \A i \in 1 .. Len(stores) : stores'[i] = stores[i]
    BY <2>1, AppendSeq DEF TypeOK, StoresTyped
  <2> QED BY <1>1, <1>2, <1>4, <1>5, <1>6, <2>2 DEF path
<1>7. CASE ~changes
  <2>1. stores' = stores /\ IsSeq(stores') /\ st = active.store
    BY <1>1, <1>7 DEF TypeOK, StoresTyped
  <2> QED BY <1>1, <1>2, <1>4, <1>5, <1>7, <2>1
<1> QED BY <1>6, <1>7

-----------------------------------------------------------------------------
(* Every step keeps the types.                                             *)

LEMMA FilesStayTyped ==
    ASSUME TypeOK, [Next]_vars
    PROVE  FilesTyped'
<1> USE DEF TypeOK, FilesTyped, Versions, Missing
<1>1. CASE UNCHANGED <<edits, disk, watch>>
  BY <1>1 DEF watch
<1>2. ASSUME NEW w \in Sources, Edit(w)
      PROVE  FilesTyped'
  BY <1>2 DEF Edit, watch
<1>3. ASSUME NEW w \in Sources, Vanish(w)
      PROVE  FilesTyped'
  BY <1>3 DEF Vanish, watch
<1>4. ASSUME NEW w \in Sources, Baseline(w)
      PROVE  FilesTyped'
  BY <1>4 DEF Baseline, files
<1>5. ASSUME NEW w \in Sources, Poll(w)
      PROVE  FilesTyped'
  BY <1>5 DEF Poll, files
<1>6. ASSUME NEW w \in Sources, PollReturns(w)
      PROVE  FilesTyped'
  BY <1>6 DEF PollReturns, files
<1>7. ASSUME NEW w \in Sources, WatcherEnds(w)
      PROVE  FilesTyped'
  BY <1>7 DEF WatcherEnds, files
<1> QED BY <1>1, <1>2, <1>3, <1>4, <1>5, <1>6, <1>7, OthersLeaveFiles DEF Watch

(* The lengths only grow.                                                  *)
LEMMA ObjectsGrow ==
    ASSUME TypeOK, [Next]_vars
    PROVE  /\ Len(servers) \in Nat /\ Len(stores) \in Nat
           /\ Len(servers') \in Nat /\ Len(stores') \in Nat
           /\ Len(servers) <= Len(servers') /\ Len(stores) <= Len(stores')
<1>1. Len(servers) \in Nat /\ Len(stores) \in Nat
  BY SeqShape DEF TypeOK, ServersTyped, StoresTyped
<1>2. CASE Kept
  BY <1>1, <1>2 DEF Kept
<1>3. ASSUME NEW a \in Reloaders, Exchange(a)
      PROVE  /\ Len(servers') = Len(servers) + 1
             /\ Len(stores') = Len(stores) \/ Len(stores') = Len(stores) + 1
  <2>1. Len(servers') = Len(servers) + 1
    BY <1>3, ExchangeAdds
  <2>2. CASE StorePath(rl[a].cfg) # active.path
    BY <1>3, <2>1, <2>2, ExchangeAdds
  <2>3. CASE ~(StorePath(rl[a].cfg) # active.path)
    <3>1. stores' = stores
      BY <1>3, <2>3, ExchangeAdds
    <3> QED BY <2>1, <3>1
  <2> QED BY <2>2, <2>3
<1> QED BY <1>1, <1>2, <1>3, Keeps

(* A server is over a store there is, at every step.                       *)
LEMMA ObjectsStayTyped ==
    ASSUME TypeOK, [Next]_vars
    PROVE  ServersTyped' /\ StoresTyped' /\ active' \in
             [srv : 1 .. Len(servers'), store : 1 .. Len(stores'), path : {active'.path}]
<1>1. CASE Kept
  <2>1. \A s \in 1 .. Len(servers') : servers'[s].store \in 1 .. Len(stores')
    BY <1>1 DEF Kept, TypeOK, ServersTyped
  <2> QED BY <1>1, <2>1 DEF Kept, TypeOK, ServersTyped, ActiveTyped
<1>2. ASSUME NEW a \in Reloaders, Exchange(a)
      PROVE  ServersTyped' /\ StoresTyped' /\ active' \in
               [srv : 1 .. Len(servers'), store : 1 .. Len(stores'), path : {active'.path}]
  <2> DEFINE n == Len(servers) + 1
             m == Len(stores) + 1
  <2>1. Len(servers) \in Nat /\ Len(stores) \in Nat
    BY SeqShape DEF TypeOK, ServersTyped, StoresTyped
  <2>2. /\ IsSeq(servers') /\ Len(servers') = n /\ IsSeq(stores')
        /\ \A s \in 1 .. Len(servers) : servers'[s] = servers[s]
        /\ IsServer(servers'[n]) /\ servers'[n].store = active'.store
        /\ \A i \in 1 .. Len(stores) : stores'[i] = stores[i]
    BY <1>2, ExchangeAdds
  <2>3. active' = [srv |-> n, store |-> active'.store, path |-> active'.path]
    BY <1>2, ExchangeAdds
  <2>4. active'.store \in 1 .. Len(stores') /\ StoresTyped' /\ Len(stores) <= Len(stores')
    <3>1. CASE StorePath(rl[a].cfg) # active.path
      <4>1. /\ active'.store = m /\ Len(stores') = m
            /\ stores'[m] = OpenStore(active'.path, stores)
        BY <1>2, <3>1, ExchangeAdds
      <4>2. IsStore(OpenStore(active'.path, stores))
        BY OpenTyped DEF TypeOK
      <4>3. \A i \in 1 .. Len(stores') : i \in 1 .. Len(stores) \/ i = m
        BY <2>1, <4>1
      <4>4. \A i \in 1 .. Len(stores') : IsStore(stores'[i])
        BY <2>2, <4>1, <4>2, <4>3 DEF TypeOK, StoresTyped
      <4>5. active'.store \in 1 .. Len(stores') /\ Len(stores) <= Len(stores')
        BY <2>1, <4>1
      <4> QED BY <2>2, <4>4, <4>5 DEF StoresTyped
    <3>2. CASE ~(StorePath(rl[a].cfg) # active.path)
      <4>1. active'.store = active.store /\ stores' = stores
        BY <1>2, <3>2, ExchangeAdds
      <4> QED BY <2>1, <4>1 DEF TypeOK, StoresTyped, ActiveTyped
    <3> QED BY <3>1, <3>2
  <2>5. \A s \in 1 .. Len(servers') :
          IsServer(servers'[s]) /\ servers'[s].store \in 1 .. Len(stores')
    <3> SUFFICES ASSUME NEW s \in 1 .. Len(servers')
                 PROVE  IsServer(servers'[s]) /\ servers'[s].store \in 1 .. Len(stores')
      OBVIOUS
    <3>1. CASE s = n
      BY <2>2, <2>4, <3>1
    <3>2. CASE s # n
      <4>1. s \in 1 .. Len(servers)
        BY <2>1, <2>2, <3>2
      <4>2. IsServer(servers[s]) /\ servers[s].store \in 1 .. Len(stores)
        BY <4>1 DEF TypeOK, ServersTyped
      <4>3. Len(stores') \in Nat
        BY <2>2, SeqShape
      <4> QED BY <2>1, <2>2, <2>4, <4>1, <4>2, <4>3
    <3> QED BY <3>1, <3>2
  <2>6. active'.srv \in 1 .. Len(servers')
    BY <2>1, <2>2, <2>3
  <2> QED BY <2>2, <2>3, <2>4, <2>5, <2>6 DEF ServersTyped
<1> QED BY <1>1, <1>2, Keeps

(* What is active, and what the shutdown has read, is there.               *)
LEMMA ActiveStaysTyped ==
    ASSUME TypeOK, [Next]_vars
    PROVE  ActiveTyped'
<1>1. active' \in [srv : 1 .. Len(servers'), store : 1 .. Len(stores'), path : {active'.path}]
  BY ObjectsStayTyped
<1>2. CASE UNCHANGED ending
  <2>1. term' \in [srv : 1 .. Len(servers'), store : 1 .. Len(stores')]
    BY <1>2, ObjectsGrow DEF ending, TypeOK, ActiveTyped
  <2> QED BY <1>1, <1>2, <2>1 DEF ending, TypeOK, ActiveTyped
<1>3. CASE Term
  <2>1. /\ term' = [srv |-> active.srv, store |-> active.store]
        /\ UNCHANGED <<servers, stores>> /\ phase' = "closing"
    BY <1>3 DEF Term, objects
  <2> QED BY <1>1, <2>1 DEF TypeOK, ActiveTyped
<1>4. CASE CloseStreams \/ ShutdownActive \/ Exit
  <2>1. UNCHANGED term /\ phase' \in {"drain", "stopped", "exited"}
    BY <1>4 DEF CloseStreams, ShutdownActive, Exit
  <2>2. term' \in [srv : 1 .. Len(servers'), store : 1 .. Len(stores')]
    BY <2>1, ObjectsGrow DEF TypeOK, ActiveTyped
  <2> QED BY <1>1, <2>1, <2>2 DEF ActiveTyped
<1> QED BY <1>2, <1>3, <1>4, OthersLeaveEnding DEF Shutdown

(* One call of reload moves on to a state that is typed.                   *)
LEMMA CallMoves ==
    ASSUME TypeOK, [Next]_vars, NEW a \in Reloaders, NEW v \in RlType,
           rl' = [rl EXCEPT ![a] = v],
           v.step \in Ending =>
             v.srv \in 1 .. Len(servers') /\ v.store \in 1 .. Len(stores')
    PROVE  /\ rl' \in [Reloaders -> RlType]
           /\ \A b \in Reloaders : rl'[b].step \in Ending =>
                rl'[b].srv \in 1 .. Len(servers') /\ rl'[b].store \in 1 .. Len(stores')
<1>1. rl \in [Reloaders -> RlType] /\ rl' \in [Reloaders -> RlType]
  BY DEF TypeOK, ReloadsTyped
<1>2. \A b \in Reloaders : rl'[b] = IF b = a THEN v ELSE rl[b]
  BY <1>1
<1>3. \A b \in Reloaders : rl[b].step \in Ending =>
        rl[b].srv \in 1 .. Len(servers') /\ rl[b].store \in 1 .. Len(stores')
  BY ObjectsGrow DEF TypeOK, ReloadsTyped
<1> QED BY <1>1, <1>2, <1>3

(* Each call of reload carries what its place in the code has read.        *)
LEMMA ReloadsStayTyped ==
    ASSUME TypeOK, [Next]_vars
    PROVE  ReloadsTyped'
<1> DEFINE Good(v) == /\ v \in RlType
                      /\ v.step \in Ending =>
                           v.srv \in 1 .. Len(servers') /\ v.store \in 1 .. Len(stores')
           Moves(a) == /\ reloading' \in BOOLEAN /\ overlap' \in BOOLEAN
                       /\ \E v : Good(v) /\ rl' = [rl EXCEPT ![a] = v]
<1>0. reloading \in BOOLEAN /\ overlap \in BOOLEAN /\ rl \in [Reloaders -> RlType]
  BY DEF TypeOK, ReloadsTyped
<1>n. Good(NoReload) /\ Good([step |-> "enter"]) /\ Good([step |-> "load"])
  BY DEF RlType, NoReload, Resting, Ending
<1>r. \A a \in Reloaders, st \in Reading : rl[a].step \in Reading => Good([rl[a] EXCEPT !.step = st])
  <2> SUFFICES ASSUME NEW a \in Reloaders, NEW st \in Reading, rl[a].step \in Reading
               PROVE  Good([rl[a] EXCEPT !.step = st])
    OBVIOUS
  <2>1. rl[a] \in [step : Reading, cfg : Configs]
    BY ReadingTyped
  <2>2. [rl[a] EXCEPT !.step = st] \in [step : Reading, cfg : Configs]
    BY <2>1
  <2>3. [rl[a] EXCEPT !.step = st].step \notin Ending
    BY <2>2 DEF Reading, Ending
  <2> QED BY <2>2, <2>3 DEF RlType
<1>m. ASSUME NEW a \in Reloaders, Moves(a)
      PROVE  ReloadsTyped'
  <2>1. PICK v : Good(v) /\ rl' = [rl EXCEPT ![a] = v]
    BY <1>m
  <2>2. /\ rl' \in [Reloaders -> RlType]
        /\ \A b \in Reloaders : rl'[b].step \in Ending =>
             rl'[b].srv \in 1 .. Len(servers') /\ rl'[b].store \in 1 .. Len(stores')
    BY <2>1, CallMoves
  <2> QED BY <1>m, <2>2 DEF ReloadsTyped
<1>1. CASE UNCHANGED <<reloading, rl, overlap>>
  BY <1>0, <1>1, ObjectsGrow DEF TypeOK, ReloadsTyped
<1>2. ASSUME NEW w \in Sources, Poll(w)
      PROVE  ReloadsTyped'
  <2>0. w \in Reloaders
    BY DEF Reloaders
  <2>1. CASE Changed(prev[w], disk[w])
    <3>1. rl' = [rl EXCEPT ![w] = [step |-> "enter"]] /\ UNCHANGED <<reloading, overlap>>
      BY <1>2, <2>1 DEF Poll
    <3> HIDE DEF Good
    <3>2. Moves(w)
      BY <1>0, <1>n, <3>1
    <3> HIDE DEF Moves
    <3> QED BY <1>m, <2>0, <3>2
  <2>2. CASE ~Changed(prev[w], disk[w])
    BY <1>1, <1>2, <2>2 DEF Poll
  <2> QED BY <2>1, <2>2
<1>3. CASE Hup
  <2>0. "hup" \in Reloaders
    BY DEF Reloaders
  <2>1. rl' = [rl EXCEPT !["hup"] = [step |-> "enter"]] /\ UNCHANGED <<reloading, overlap>>
    BY <1>3 DEF Hup
  <2> HIDE DEF Good
  <2>2. Moves("hup")
    BY <1>0, <1>n, <2>1
  <2> HIDE DEF Moves
  <2> QED BY <1>m, <2>0, <2>2
<1>4. CASE Term
  BY <1>0, <1>4, ObjectsGrow DEF Term, objects, TypeOK, ReloadsTyped
<1>5. ASSUME NEW a \in Reloaders, Reload(a)
      PROVE  Moves(a)
  <2>1. CASE Enter(a)
    <3> HIDE DEF Good
    <3>1. CASE reloading
      BY <1>0, <1>n, <2>1, <3>1 DEF Enter
    <3>2. CASE ~reloading
      <4>1. /\ rl' = [rl EXCEPT ![a] = [step |-> "load"]]
            /\ reloading' = TRUE /\ overlap' = (overlap \/ phase # "run")
        BY <2>1, <3>2 DEF Enter
      <4>2. reloading' \in BOOLEAN /\ overlap' \in BOOLEAN
        BY <4>1
      <4> QED BY <1>n, <4>1, <4>2
    <3> QED BY <3>1, <3>2
  <2>2. CASE Load(a)
    <3>1. disk \in Configs
      BY <2>2 DEF Load, AllThere, TypeOK, FilesTyped, Versions, Configs
    <3>2. Good([step |-> "perf", cfg |-> disk])
      BY <3>1 DEF RlType, Reading, Ending
    <3>3. rl' = [rl EXCEPT ![a] = [step |-> "perf", cfg |-> disk]] /\ UNCHANGED <<reloading, overlap>>
      BY <2>2 DEF Load
    <3> HIDE DEF Good
    <3> QED BY <1>0, <3>2, <3>3
  <2>3. CASE LoadFails(a) \/ BuildFails(a) \/ CloseOld(a)
    <3>1. rl' = [rl EXCEPT ![a] = NoReload] /\ reloading' = FALSE /\ overlap' = overlap
      BY <2>3 DEF LoadFails, BuildFails, CloseOld, Return
    <3> HIDE DEF Good
    <3> QED BY <1>0, <1>n, <3>1
  <2>4. CASE UpdatePerf(a) \/ RestartPerf(a)
    <3>1. PICK st \in Reading : rl' = [rl EXCEPT ![a].step = st]
      BY <2>4 DEF UpdatePerf, RestartPerf, Reading
    <3>2. rl[a].step \in Reading /\ UNCHANGED <<reloading, overlap>>
      BY <2>4 DEF UpdatePerf, RestartPerf, Reading
    <3>3. rl' = [rl EXCEPT ![a] = [rl[a] EXCEPT !.step = st]]
      BY <3>1
    <3> HIDE DEF Good
    <3>4. Good([rl[a] EXCEPT !.step = st])
      BY <1>r, <3>2
    <3> QED BY <1>0, <3>2, <3>3, <3>4
  <2>5. CASE Exchange(a)
    <3> DEFINE v == [step |-> "shutdown", changed |-> StorePath(rl[a].cfg) # active.path,
                     srv |-> active.srv, store |-> active.store]
    <3>1. rl' = [rl EXCEPT ![a] = v]
      BY <2>5, ExchangeAdds
    <3>2. active.srv \in 1 .. Len(servers) /\ active.store \in 1 .. Len(stores)
      BY DEF TypeOK, ActiveTyped
    <3>3. active.srv \in 1 .. Len(servers') /\ active.store \in 1 .. Len(stores')
      BY <3>2, ObjectsGrow
    <3>4. active.srv \in Nat /\ active.store \in Nat
      BY <3>2, ObjectsGrow
    <3>5. (StorePath(rl[a].cfg) # active.path) \in BOOLEAN
      OBVIOUS
    <3>6. v \in RlType
      BY <3>4, <3>5, Zenon DEF RlType, Ending
    <3>7. Good(v)
      BY <3>3, <3>6
    <3>8. UNCHANGED <<reloading, overlap>>
      BY <2>5 DEF Exchange
    <3> HIDE DEF Good, v
    <3> QED BY <1>0, <3>1, <3>7, <3>8
  <2>6. CASE ShutdownOld(a)
    <3> DEFINE v == [rl[a] EXCEPT !.step = "close"]
    <3>1. /\ rl' = [rl EXCEPT ![a] = v] /\ rl[a].step \in Ending
          /\ UNCHANGED <<reloading, overlap>>
      BY <2>6 DEF ShutdownOld, Ending
    <3>2. rl[a] \in [step : Ending, changed : BOOLEAN, srv : Nat, store : Nat]
      BY <3>1, EndingTyped
    <3>3. /\ v \in [step : Ending, changed : BOOLEAN, srv : Nat, store : Nat]
          /\ v.srv = rl[a].srv /\ v.store = rl[a].store
      BY <3>2 DEF Ending
    <3>4. rl[a].srv \in 1 .. Len(servers') /\ rl[a].store \in 1 .. Len(stores')
      BY <3>1, ObjectsGrow DEF TypeOK, ReloadsTyped
    <3> HIDE DEF v
    <3>5. Good(v)
      BY <3>3, <3>4 DEF RlType
    <3> HIDE DEF Good
    <3> QED BY <1>0, <3>1, <3>5
  <2> HIDE DEF Moves
  <2> QED BY <1>5, <2>1, <2>2, <2>3, <2>4, <2>5, <2>6 DEF Reload
<1> HIDE DEF Moves
<1> QED BY <1>1, <1>2, <1>3, <1>4, <1>5, <1>m, OthersLeaveReloads

(* A request in service has a server there is.                             *)
LEMMA RequestsStayTyped ==
    ASSUME TypeOK, [Next]_vars
    PROVE  RequestsTyped'
<1> DEFINE Good(v) == v \in ReqType /\ (v.step \in Serving => v.srv \in 1 .. Len(servers'))
<1>0. /\ req \in [Requests -> ReqType]
      /\ \A r \in Requests : Good(req[r])
  BY ObjectsGrow DEF TypeOK, RequestsTyped
<1>m. ASSUME NEW r \in Requests, NEW v, Good(v), req' = [req EXCEPT ![r] = v]
      PROVE  RequestsTyped'
  BY <1>0, <1>m DEF RequestsTyped
<1>d. Good([step |-> "done"])
  BY DEF ReqType, Serving
<1>s. \A r \in Requests, st \in Serving, id \in Nat : req[r].step \in Serving =>
        /\ Good([[req[r] EXCEPT !.step = st] EXCEPT !.id = id])
        /\ Good([req[r] EXCEPT !.step = st])
  <2> SUFFICES ASSUME NEW r \in Requests, NEW st \in Serving, NEW id \in Nat, req[r].step \in Serving
               PROVE  /\ Good([[req[r] EXCEPT !.step = st] EXCEPT !.id = id])
                      /\ Good([req[r] EXCEPT !.step = st])
    OBVIOUS
  <2>1. req[r] \in [step : Serving, srv : Nat, id : Nat] /\ req[r].srv \in 1 .. Len(servers')
    BY <1>0 DEF ReqType, Serving
  <2> DEFINE mid == [req[r] EXCEPT !.step = st]
  <2>2. mid \in [step : Serving, srv : Nat, id : Nat] /\ mid.srv = req[r].srv
    BY <2>1
  <2> HIDE DEF mid
  <2> DEFINE last == [mid EXCEPT !.id = id]
  <2>3. last \in [step : Serving, srv : Nat, id : Nat] /\ last.srv = req[r].srv
    BY <2>2
  <2> HIDE DEF last
  <2>4. Good(mid) /\ Good(last)
    BY <2>1, <2>2, <2>3 DEF ReqType
  <2> QED BY <2>4 DEF mid, last
<1>1. CASE UNCHANGED req
  BY <1>0, <1>1 DEF RequestsTyped
<1>2. ASSUME NEW r \in Requests, Arrive(r)
      PROVE  RequestsTyped'
  <2> DEFINE v == [step |-> "serve", srv |-> active.srv, id |-> 0]
  <2>1. active.srv \in 1 .. Len(servers)
    BY DEF TypeOK, ActiveTyped
  <2>2. active.srv \in 1 .. Len(servers') /\ active.srv \in Nat
    BY <2>1, ObjectsGrow
  <2>3. Good(v)
    BY <2>2 DEF ReqType, Serving
  <2>4. req' = [req EXCEPT ![r] = v]
    BY <1>2 DEF Arrive
  <2> HIDE DEF v, Good
  <2> QED BY <1>m, <2>3, <2>4
<1>3. ASSUME NEW r \in Requests, Insert(r)
      PROVE  RequestsTyped'
  <2>1. req[r].step \in Serving
    BY <1>3 DEF Insert, Serving
  <2>2. CASE Log(r).open
    <3> DEFINE st == IF Log(r).memory THEN "prune" ELSE "capture"
               id == Log(r).lastId + 1
               v == [[req[r] EXCEPT !.step = st] EXCEPT !.id = id]
    <3>1. Log(r) \in LogType
      BY <2>1, ServedTyped
    <3>2. st \in Serving /\ id \in Nat
      BY <3>1 DEF LogType, Serving
    <3>3. req' = [req EXCEPT ![r].step = st, ![r].id = id]
      BY <1>3, <2>2 DEF Insert
    <3> HIDE DEF st, id
    <3>4. req' = [req EXCEPT ![r] = v]
      <4> DEFINE one == [req EXCEPT ![r] = [req[r] EXCEPT !.step = st]]
      <4>1. req' = [one EXCEPT ![r] = [one[r] EXCEPT !.id = id]]
        BY <3>3
      <4>2. one[r] = [req[r] EXCEPT !.step = st] /\ one \in [Requests -> ReqType \union {one[r]}]
        BY <1>0
      <4>3. DOMAIN one = DOMAIN req /\ \A q \in DOMAIN one : q # r => one[q] = req[q]
        BY <1>0
      <4> HIDE DEF one
      <4>4. req' = [one EXCEPT ![r] = v]
        BY <4>1, <4>2
      <4>5. DOMAIN req = Requests
        BY <1>0
      <4> HIDE DEF v
      <4>6. DOMAIN req' = Requests /\ \A q \in Requests : req'[q] = [req EXCEPT ![r] = v][q]
        BY <4>3, <4>4, <4>5
      <4>7. req' = [q \in Requests |-> req'[q]]
        BY <4>4, <4>3, <4>5
      <4> QED BY <4>5, <4>6, <4>7
    <3>5. Good(v)
      BY <1>s, <2>1, <3>2
    <3> HIDE DEF v, Good
    <3> QED BY <1>m, <3>4, <3>5
  <2>3. CASE ~Log(r).open
    <3>1. req' = [req EXCEPT ![r] = [step |-> "done"]]
      BY <1>3, <2>3 DEF Insert
    <3> HIDE DEF Good
    <3> QED BY <1>d, <1>m, <3>1
  <2> QED BY <2>2, <2>3
<1>4. ASSUME NEW r \in Requests, Prune(r)
      PROVE  RequestsTyped'
  <2>1. req[r].step \in Serving /\ "capture" \in Serving
    BY <1>4 DEF Prune, Serving
  <2>2. req' = [req EXCEPT ![r] = [req[r] EXCEPT !.step = "capture"]]
    BY <1>4 DEF Prune
  <2>3. 0 \in Nat
    OBVIOUS
  <2> HIDE DEF Good
  <2>4. Good([req[r] EXCEPT !.step = "capture"])
    BY <1>s, <2>1, <2>3
  <2> QED BY <1>m, <2>2, <2>4
<1>5. ASSUME NEW r \in Requests, Capture(r)
      PROVE  RequestsTyped'
  <2>1. req' = [req EXCEPT ![r] = [step |-> "done"]]
    BY <1>5 DEF Capture
  <2> HIDE DEF Good
  <2> QED BY <1>d, <1>m, <2>1
<1> QED BY <1>1, <1>2, <1>3, <1>4, <1>5, OthersLeaveRequests DEF Serve

(* The monitor, and the contexts its samplers wait on.                     *)
LEMMA MonitorStaysTyped ==
    ASSUME TypeOK, [Next]_vars
    PROVE  MonitorTyped'
<1>0. /\ perf \in [conf : {perf.conf}, running : BOOLEAN, ctx : Nat, exists : BOOLEAN]
      /\ sampler \in Seq(Nat)
  BY DEF TypeOK, MonitorTyped
<1>1. CASE UNCHANGED monitor
  BY <1>0, <1>1 DEF monitor, MonitorTyped
<1>2. ASSUME StopMonitor, UNCHANGED sampler
      PROVE  MonitorTyped'
  BY <1>0, <1>2 DEF StopMonitor, MonitorTyped
<1>3. ASSUME NEW a \in Reloaders, UpdatePerf(a)
      PROVE  MonitorTyped'
  BY <1>0, <1>2, <1>3 DEF UpdatePerf, MonitorTyped
<1>4. ASSUME NEW a \in Reloaders, RestartPerf(a)
      PROVE  MonitorTyped'
  <2> DEFINE config == PerfOf(rl[a].cfg)
  <2>1. Started(config)
    BY <1>4 DEF RestartPerf
  <2> HIDE DEF config
  <2>2. CASE perf.running \/ config = "off"
    BY <1>0, <2>1, <2>2 DEF Started, MonitorTyped
  <2>3. CASE ~(perf.running \/ config = "off")
    <3>1. /\ perf' = [conf |-> config, running |-> TRUE, ctx |-> perf.ctx + 1, exists |-> TRUE]
          /\ sampler' = Append(sampler, perf.ctx + 1)
      BY <2>1, <2>3 DEF Started
    <3>2. perf.ctx + 1 \in Nat
      BY <1>0
    <3> QED BY <1>0, <3>1, <3>2 DEF MonitorTyped
  <2> QED BY <2>2, <2>3
<1>5. ASSUME NEW i \in DOMAIN sampler, Tick(i) \/ SamplerEnds(i)
      PROVE  MonitorTyped'
  <2>1. perf' = perf
    BY <1>5 DEF Tick, SamplerEnds
  <2>2. PICK n \in Nat : sampler' = [sampler EXCEPT ![i] = n]
    BY <1>0, <1>5 DEF Tick, SamplerEnds, Off
  <2> QED BY <1>0, <2>1, <2>2 DEF MonitorTyped
<1>6. CASE Exit
  BY <1>2, <1>6 DEF Exit
<1> QED BY <1>1, <1>3, <1>4, <1>5, <1>6, OthersLeaveMonitor

(* All of them together.                                                   *)
LEMMA TypesStay ==
    ASSUME TypeOK, [Next]_vars
    PROVE  TypeOK'
BY FilesStayTyped, ReloadsStayTyped, ObjectsStayTyped, ActiveStaysTyped, RequestsStayTyped,
   MonitorStaysTyped DEF TypeOK

-----------------------------------------------------------------------------
(* The samplers of the monitor.                                            *)

(* Stopping cancels the context every running sampler waits on; a sampler  *)
(* that ticks between the Stop and the Start of an update waits on that    *)
(* context again; and a Start finds none that still runs.                  *)
LEMMA SamplersKeepEnding ==
    ASSUME TypeOK, SamplersEnd, [Next]_vars
    PROVE  SamplersEnd'
<1>0. /\ perf \in [conf : {perf.conf}, running : BOOLEAN, ctx : Nat, exists : BOOLEAN]
      /\ sampler \in Seq(Nat) /\ DOMAIN sampler = 1 .. Len(sampler)
  BY DEF TypeOK, MonitorTyped
<1>1. CASE UNCHANGED monitor
  BY <1>1 DEF monitor, SamplersEnd
<1>2. ASSUME StopMonitor, UNCHANGED sampler
      PROVE  SamplersEnd'
  <2>1. perf'.running = FALSE /\ perf'.ctx = perf.ctx
    BY <1>0, <1>2 DEF StopMonitor
  <2>2. cancelled' = IF perf.running THEN cancelled \union {perf.ctx} ELSE cancelled
    BY <1>2 DEF StopMonitor
  <2>3. perf'.ctx \in cancelled' \union {Off}
    BY <2>1, <2>2 DEF SamplersEnd
  <2>4. \A i \in 1 .. Len(sampler) : sampler[i] \in cancelled' \union {Off}
    BY <2>2 DEF SamplersEnd
  <2> QED BY <1>2, <2>3, <2>4 DEF SamplersEnd
<1>3. ASSUME NEW a \in Reloaders, UpdatePerf(a)
      PROVE  SamplersEnd'
  <2>1. UNCHANGED sampler /\ (StopMonitor \/ UNCHANGED <<perf, cancelled>>)
    BY <1>3 DEF UpdatePerf
  <2> QED BY <1>2, <2>1 DEF SamplersEnd
<1>4. ASSUME NEW a \in Reloaders, RestartPerf(a)
      PROVE  SamplersEnd'
  <2> DEFINE config == PerfOf(rl[a].cfg)
  <2>1. Started(config) /\ cancelled' = cancelled
    BY <1>4 DEF RestartPerf
  <2> HIDE DEF config
  <2>2. CASE perf.running \/ config = "off"
    <3>1. perf' = [perf EXCEPT !.conf = config] /\ UNCHANGED sampler
      BY <2>1, <2>2 DEF Started
    <3>2. perf'.running = perf.running /\ perf'.ctx = perf.ctx
      BY <1>0, <3>1
    <3> QED BY <2>1, <3>1, <3>2 DEF SamplersEnd
  <2>3. CASE ~(perf.running \/ config = "off")
    <3>1. /\ perf' = [conf |-> config, running |-> TRUE, ctx |-> perf.ctx + 1, exists |-> TRUE]
          /\ sampler' = Append(sampler, perf.ctx + 1)
      BY <2>1, <2>3 DEF Started
    <3>2. perf'.running /\ perf'.ctx = perf.ctx + 1
      BY <3>1
    <3>3. \A i \in 1 .. Len(sampler) : sampler[i] \in cancelled \union {Off}
      BY <2>3 DEF SamplersEnd
    <3>4. /\ Len(sampler') = Len(sampler) + 1 /\ Len(sampler) \in Nat
          /\ \A i \in 1 .. Len(sampler) : sampler'[i] = sampler[i]
          /\ sampler'[Len(sampler) + 1] = perf'.ctx
      BY <1>0, <3>1, <3>2
    <3>5. \A i \in 1 .. Len(sampler') : i \in 1 .. Len(sampler) \/ i = Len(sampler) + 1
      BY <3>4
    <3> QED BY <2>1, <3>2, <3>3, <3>4, <3>5 DEF SamplersEnd
  <2> QED BY <2>2, <2>3
<1>5. ASSUME NEW i \in DOMAIN sampler, Tick(i)
      PROVE  SamplersEnd'
  <2>1. sampler' = [sampler EXCEPT ![i] = perf.ctx] /\ UNCHANGED <<perf, cancelled>>
    BY <1>5 DEF Tick
  <2>2. /\ Len(sampler') = Len(sampler) /\ sampler'[i] = perf.ctx
        /\ \A j \in 1 .. Len(sampler) : j # i => sampler'[j] = sampler[j]
    BY <1>0, <2>1
  <2>3. perf.running \/ perf.ctx \in cancelled \union {Off}
    BY DEF SamplersEnd
  <2> QED BY <2>1, <2>2, <2>3 DEF SamplersEnd
<1>6. ASSUME NEW i \in DOMAIN sampler, SamplerEnds(i)
      PROVE  SamplersEnd'
  <2>1. sampler' = [sampler EXCEPT ![i] = Off] /\ UNCHANGED <<perf, cancelled>>
    BY <1>6 DEF SamplerEnds
  <2>2. /\ Len(sampler') = Len(sampler) /\ sampler'[i] = Off
        /\ \A j \in 1 .. Len(sampler) : j # i => sampler'[j] = sampler[j]
    BY <1>0, <2>1 DEF Off
  <2> QED BY <2>1, <2>2 DEF SamplersEnd
<1>7. CASE Exit
  BY <1>2, <1>7 DEF Exit
<1> QED BY <1>1, <1>3, <1>4, <1>5, <1>6, <1>7, OthersLeaveMonitor

-----------------------------------------------------------------------------
(* One reload at a time.                                                   *)

(* The call a that moves leaves the others where they are.                 *)
LEMMA OthersStayPut ==
    ASSUME TypeOK, NEW a \in Reloaders, NEW v, rl' = [rl EXCEPT ![a] = v]
    PROVE  rl'[a] = v /\ \A b \in Reloaders : b # a => rl'[b] = rl[b]
BY DEF TypeOK, ReloadsTyped

(* What a step does to the call of reload it is a step of.                 *)
LEMMA ReloadMoves ==
    ASSUME TypeOK, NEW a \in Reloaders, Reload(a)
    PROVE  /\ UNCHANGED <<files, watch>>
           /\ \A b \in Reloaders : b # a => rl'[b] = rl[b]
           /\ \/ rl[a].step = "enter" /\ rl'[a].step = "none" /\ UNCHANGED reloading
              \/ rl[a].step = "enter" /\ rl'[a].step = "load" /\ ~reloading /\ reloading'
              \/ rl[a].step \notin Resting /\ UNCHANGED reloading
              \/ rl[a].step \notin Resting /\ rl'[a].step = "none" /\ ~reloading'
<1> USE DEF Resting
<1>1. CASE Enter(a)
  <2>1. CASE reloading
    BY <1>1, <2>1, OthersStayPut DEF Enter, NoReload
  <2>2. CASE ~reloading
    <3>1. rl' = [rl EXCEPT ![a] = [step |-> "load"]] /\ rl[a].step = "enter" /\ reloading' = TRUE
          /\ UNCHANGED <<files, watch>>
      BY <1>1, <2>2 DEF Enter
    <3>2. rl'[a].step = "load" /\ \A b \in Reloaders : b # a => rl'[b] = rl[b]
      BY <3>1 DEF TypeOK, ReloadsTyped
    <3>3. ~reloading /\ reloading'
      BY <2>2, <3>1
    <3> QED BY <3>1, <3>2, <3>3, Zenon
  <2> QED BY <2>1, <2>2
<1>2. CASE Load(a)
  BY <1>2, OthersStayPut DEF Load
<1>3. CASE LoadFails(a) \/ BuildFails(a) \/ CloseOld(a)
  <2>1. /\ rl' = [rl EXCEPT ![a] = NoReload] /\ reloading' = FALSE
        /\ rl[a].step \notin Resting /\ UNCHANGED <<files, watch>>
    BY <1>3 DEF LoadFails, BuildFails, CloseOld, Return
  <2>2. rl'[a].step = "none" /\ \A b \in Reloaders : b # a => rl'[b] = rl[b]
    BY <2>1 DEF NoReload, TypeOK, ReloadsTyped
  <2>3. ~reloading'
    BY <2>1
  <2> HIDE DEF Resting
  <2> QED BY <2>1, <2>2, <2>3, Zenon
<1>4. CASE UpdatePerf(a) \/ RestartPerf(a) \/ ShutdownOld(a)
  <2>1. PICK st : rl' = [rl EXCEPT ![a].step = st]
    BY <1>4 DEF UpdatePerf, RestartPerf, ShutdownOld
  <2>2. rl' = [rl EXCEPT ![a] = [rl[a] EXCEPT !.step = st]]
    BY <2>1
  <2>3. rl[a].step \notin Resting /\ UNCHANGED <<files, watch, reloading>>
    BY <1>4 DEF UpdatePerf, RestartPerf, ShutdownOld
  <2> QED BY <2>2, <2>3, OthersStayPut
<1>5. CASE Exchange(a)
  <2>1. rl[a].step \notin Resting /\ UNCHANGED <<files, watch, reloading>>
    BY <1>5 DEF Exchange
  <2>2. \A b \in Reloaders : b # a => rl'[b] = rl[b]
    BY <1>5, ExchangeAdds, OthersStayPut
  <2> QED BY <2>1, <2>2
<1> QED BY <1>1, <1>2, <1>3, <1>4, <1>5 DEF Reload

(* The flag keeps the calls apart, and a watcher that does not fire has    *)
(* none under way.                                                         *)
LEMMA OneReloadStays ==
    ASSUME TypeOK, OneReload, [Next]_vars
    PROVE  OneReload'
<1> DEFINE Apart == /\ \A a \in Reloaders : rl[a].step \notin Resting => reloading
                    /\ \A a, b \in Reloaders :
                         rl[a].step \notin Resting /\ rl[b].step \notin Resting => a = b
           Quiet == \A w \in Sources : watcher[w] # "fires" => rl[w].step = "none"
<1>0. Sources \subseteq Reloaders /\ "hup" \in Reloaders /\ "hup" \notin Sources
  BY ProgramAssumption DEF Reloaders
<1>1. Apart /\ Quiet
  BY DEF OneReload
<1>2. ASSUME NEW a \in Reloaders, rl' = [rl EXCEPT ![a] = [step |-> "enter"]], UNCHANGED reloading
      PROVE  Apart'
  <2>1. rl'[a].step = "enter" /\ \A b \in Reloaders : b # a => rl'[b] = rl[b]
    BY <1>2 DEF TypeOK, ReloadsTyped
  <2> QED BY <1>1, <1>2, <2>1 DEF Resting
<1>3. ASSUME NEW w \in Sources, Poll(w)
      PROVE  OneReload'
  <2>1. CASE Changed(prev[w], disk[w])
    <3>1. /\ rl' = [rl EXCEPT ![w] = [step |-> "enter"]] /\ UNCHANGED reloading
          /\ watcher' = [watcher EXCEPT ![w] = "fires"]
      BY <1>3, <2>1 DEF Poll
    <3>2. Apart'
      BY <1>0, <1>2, <3>1
    <3>3. \A b \in Reloaders : b # w => rl'[b] = rl[b]
      BY <1>0, <3>1, OthersStayPut
    <3>4. Quiet'
      BY <1>0, <1>1, <3>1, <3>3 DEF TypeOK, FilesTyped
    <3> QED BY <3>2, <3>4 DEF OneReload
  <2>2. CASE ~Changed(prev[w], disk[w])
    BY <1>3, <2>2 DEF Poll, OneReload
  <2> QED BY <2>1, <2>2
<1>4. CASE Hup
  <2>1. rl' = [rl EXCEPT !["hup"] = [step |-> "enter"]] /\ reloading' = reloading /\ watcher' = watcher
    BY <1>4 DEF Hup, watch
  <2>2. Apart'
    BY <1>0, <1>2, <2>1
  <2>3. \A b \in Reloaders : b # "hup" => rl'[b] = rl[b]
    BY <1>0, <2>1, OthersStayPut
  <2>4. Quiet'
    BY <1>0, <1>1, <2>1, <2>3
  <2> QED BY <2>2, <2>4 DEF OneReload
<1>5. ASSUME NEW a \in Reloaders, Reload(a)
      PROVE  OneReload'
  <2>1. /\ UNCHANGED watcher
        /\ \A b \in Reloaders : b # a => rl'[b] = rl[b]
        /\ \/ rl[a].step = "enter" /\ rl'[a].step = "none" /\ UNCHANGED reloading
           \/ rl[a].step = "enter" /\ rl'[a].step = "load" /\ ~reloading /\ reloading'
           \/ rl[a].step \notin Resting /\ UNCHANGED reloading
           \/ rl[a].step \notin Resting /\ rl'[a].step = "none" /\ ~reloading'
    BY <1>5, ReloadMoves DEF watch
  <2>2. Quiet'
    BY <1>0, <1>1, <2>1 DEF Resting
  <2>3. Apart'
    BY <1>1, <2>1 DEF Resting
  <2> QED BY <2>2, <2>3 DEF OneReload
<1>6. CASE UNCHANGED <<reloading, rl, overlap>>
  <2>1. Apart'
    BY <1>1, <1>6
  <2>2. CASE UNCHANGED <<edits, disk, watch>>
    BY <1>6, <2>2 DEF watch, OneReload
  <2>3. ASSUME NEW w \in Sources, Edit(w) \/ Vanish(w) \/ Watch(w)
        PROVE  Quiet'
    <3>1. CASE Edit(w) \/ Vanish(w)
      BY <1>1, <1>6, <3>1 DEF Edit, Vanish, watch
    <3>2. CASE Poll(w)
      BY <1>3, <3>2 DEF OneReload
    <3>3. CASE Baseline(w) \/ PollReturns(w) \/ WatcherEnds(w)
      <4>1. rl[w].step = "none"
        BY <1>1, <3>3 DEF Baseline, PollReturns, WatcherEnds, Idle
      <4>2. \A v \in Sources : v # w => watcher'[v] = watcher[v]
        BY <3>3 DEF Baseline, PollReturns, WatcherEnds, TypeOK, FilesTyped
      <4> QED BY <1>1, <1>6, <4>1, <4>2
    <3> QED BY <2>3, <3>1, <3>2, <3>3 DEF Watch
  <2> QED BY <2>1, <2>2, <2>3, OthersLeaveFiles DEF OneReload
<1>7. CASE Term
  BY <1>7 DEF Term, watch, OneReload
<1> QED BY <1>3, <1>4, <1>5, <1>6, <1>7, OthersLeaveReloads

-----------------------------------------------------------------------------
(* What the program knows of the sources.                                  *)

(* A call of reload that has a configuration had it before, or reads it.   *)
LEMMA ReadsOnce ==
    ASSUME TypeOK, [Next]_vars, NEW a \in Reloaders, rl'[a].step \in Reading
    PROVE  \/ rl[a].step \in Reading /\ rl'[a].cfg = rl[a].cfg
           \/ Load(a) /\ rl'[a].cfg = disk /\ disk \in Configs
<1> USE DEF Reading
<1>0. Sources \subseteq Reloaders /\ "hup" \in Reloaders
  BY DEF Reloaders
<1>1. CASE UNCHANGED rl
  BY <1>1
<1>2. ASSUME NEW w \in Sources, Poll(w)
      PROVE  \/ UNCHANGED rl
             \/ rl'[w].step = "enter" /\ \A b \in Reloaders : b # w => rl'[b] = rl[b]
  BY <1>0, <1>2 DEF Poll, TypeOK, ReloadsTyped
<1>3. ASSUME Hup
      PROVE  rl'["hup"].step = "enter" /\ \A b \in Reloaders : b # "hup" => rl'[b] = rl[b]
  BY <1>0, <1>3 DEF Hup, TypeOK, ReloadsTyped
<1>4. ASSUME NEW b \in Reloaders, Reload(b), b # a
      PROVE  rl'[a] = rl[a]
  BY <1>4, ReloadMoves
<1>5. CASE Reload(a)
  <2>1. CASE Enter(a)
    <3>1. rl' = [rl EXCEPT ![a] = NoReload] \/ rl' = [rl EXCEPT ![a] = [step |-> "load"]]
      BY <2>1 DEF Enter
    <3>2. rl'[a] = NoReload \/ rl'[a] = [step |-> "load"]
      BY <3>1 DEF TypeOK, ReloadsTyped
    <3> QED BY <3>2 DEF NoReload
  <2>2. CASE Load(a)
    <3>1. rl' = [rl EXCEPT ![a] = [step |-> "perf", cfg |-> disk]]
      BY <2>2 DEF Load
    <3>2. rl'[a] = [step |-> "perf", cfg |-> disk]
      BY <3>1 DEF TypeOK, ReloadsTyped
    <3>3. disk \in Configs
      BY <2>2 DEF Load, AllThere, TypeOK, FilesTyped, Versions, Configs
    <3> QED BY <2>2, <3>2, <3>3
  <2>3. CASE LoadFails(a) \/ BuildFails(a) \/ CloseOld(a)
    <3>1. rl' = [rl EXCEPT ![a] = NoReload]
      BY <2>3 DEF LoadFails, BuildFails, CloseOld, Return
    <3>2. rl'[a] = NoReload
      BY <3>1 DEF TypeOK, ReloadsTyped
    <3> QED BY <3>2 DEF NoReload
  <2>4. CASE UpdatePerf(a) \/ RestartPerf(a)
    <3>1. PICK st : rl' = [rl EXCEPT ![a] = [rl[a] EXCEPT !.step = st]]
      BY <2>4 DEF UpdatePerf, RestartPerf
    <3>2. rl[a].step \in Reading
      BY <2>4 DEF UpdatePerf, RestartPerf
    <3>3. rl[a] \in [step : Reading, cfg : Configs]
      BY <3>2, ReadingTyped
    <3>4. rl'[a] = [rl[a] EXCEPT !.step = st]
      BY <3>1 DEF TypeOK, ReloadsTyped
    <3>5. rl'[a].cfg = rl[a].cfg
      BY <3>3, <3>4
    <3> QED BY <3>2, <3>5
  <2>5. CASE Exchange(a)
    <3>1. rl' = [rl EXCEPT ![a] = [step |-> "shutdown", changed |-> StorePath(rl[a].cfg) # active.path,
                                  srv |-> active.srv, store |-> active.store]]
      BY <2>5, ExchangeAdds
    <3>2. rl'[a].step = "shutdown"
      BY <3>1 DEF TypeOK, ReloadsTyped
    <3> QED BY <3>2
  <2>6. CASE ShutdownOld(a)
    <3>1. rl' = [rl EXCEPT ![a] = [rl[a] EXCEPT !.step = "close"]] /\ rl[a].step \in Ending
      BY <2>6 DEF ShutdownOld, Ending
    <3>2. rl[a] \in [step : Ending, changed : BOOLEAN, srv : Nat, store : Nat]
      BY <3>1, EndingTyped
    <3>3. rl'[a] = [rl[a] EXCEPT !.step = "close"]
      BY <3>1 DEF TypeOK, ReloadsTyped
    <3>4. rl'[a].step = "close"
      BY <3>2, <3>3
    <3> QED BY <3>4
  <2> QED BY <1>5, <2>1, <2>2, <2>3, <2>4, <2>5, <2>6 DEF Reload
<1>6. CASE Term
  BY <1>1, <1>6 DEF Term
<1> QED BY <1>0, <1>1, <1>2, <1>3, <1>4, <1>5, <1>6, OthersLeaveReloads

(* The configuration the active server runs is the one it ran, or the one  *)
(* the call that exchanges it has read.                                    *)
LEMMA ActiveConfig ==
    ASSUME TypeOK, [Next]_vars
    PROVE  /\ servers[active.srv].cfg \in Configs
           /\ \/ servers'[active'.srv].cfg = servers[active.srv].cfg
              \/ \E a \in Reloaders : /\ Exchange(a) /\ rl[a].step \in Reading
                                      /\ servers'[active'.srv].cfg = rl[a].cfg
<1>1. active.srv \in 1 .. Len(servers)
  BY DEF TypeOK, ActiveTyped
<1>2. IsServer(servers[active.srv])
  BY <1>1 DEF TypeOK, ServersTyped
<1>3. CASE Kept
  BY <1>1, <1>2, <1>3 DEF Kept, IsServer
<1>4. ASSUME NEW a \in Reloaders, Exchange(a)
      PROVE  rl[a].step \in Reading /\ servers'[active'.srv].cfg = rl[a].cfg
  <2>1. active'.srv = Len(servers) + 1 /\ servers'[Len(servers) + 1].cfg = rl[a].cfg
    BY <1>4, ExchangeAdds
  <2>2. rl[a].step \in Reading
    BY <1>4 DEF Exchange, Reading
  <2> QED BY <2>1, <2>2
<1> QED BY <1>2, <1>3, <1>4, Keeps DEF IsServer

PastNext(n, w) == n <= edits' /\ (disk'[w] # Missing => n <= disk'[w])

(* Versions only go up: what was not newer than the disk never becomes so. *)
LEMMA FutureStaysOut ==
    ASSUME TypeOK, NothingFromTheFuture, [Next]_vars
    PROVE  NothingFromTheFuture'
<1> DEFINE Seen == \A w \in Sources : disk[w] <= edits /\ Past(prev[w], w) /\ Past(cur[w], w)
<1>0. /\ edits \in Nat /\ disk \in [Sources -> Versions]
      /\ prev \in [Sources -> Versions] /\ cur \in [Sources -> Versions]
  BY DEF TypeOK, FilesTyped
<1>1. Seen
  BY DEF NothingFromTheFuture
<1>2. \A w \in Sources, n \in Versions : Past(n, w) => PastNext(n, w)
  <2> USE <1>0, <1>1 DEF Past, PastNext, Versions, Missing
  <2>1. CASE UNCHANGED <<edits, disk, watch>>
    BY <2>1
  <2>2. ASSUME NEW v \in Sources, Edit(v)
        PROVE  \A w \in Sources, n \in Versions : Past(n, w) => PastNext(n, w)
    BY <2>2 DEF Edit
  <2>3. ASSUME NEW v \in Sources, Vanish(v)
        PROVE  \A w \in Sources, n \in Versions : Past(n, w) => PastNext(n, w)
    BY <2>3 DEF Vanish
  <2>4. ASSUME NEW v \in Sources, Watch(v)
        PROVE  UNCHANGED <<edits, disk>>
    BY <2>4 DEF Watch, Baseline, Poll, PollReturns, WatcherEnds, files
  <2> QED BY <2>1, <2>2, <2>3, <2>4, OthersLeaveFiles
<1>3. \A w \in Sources : PastNext(disk[w], w) /\ PastNext(Missing, w) /\ disk'[w] <= edits'
  <2> USE <1>0, <1>1 DEF PastNext, Versions, Missing
  <2>1. CASE UNCHANGED <<edits, disk, watch>>
    BY <2>1
  <2>2. ASSUME NEW v \in Sources, Edit(v)
        PROVE  \A w \in Sources : PastNext(disk[w], w) /\ PastNext(Missing, w) /\ disk'[w] <= edits'
    BY <2>2 DEF Edit
  <2>3. ASSUME NEW v \in Sources, Vanish(v)
        PROVE  \A w \in Sources : PastNext(disk[w], w) /\ PastNext(Missing, w) /\ disk'[w] <= edits'
    BY <2>3 DEF Vanish
  <2>4. ASSUME NEW v \in Sources, Watch(v)
        PROVE  UNCHANGED <<edits, disk>>
    BY <2>4 DEF Watch, Baseline, Poll, PollReturns, WatcherEnds, files
  <2> QED BY <2>1, <2>2, <2>3, <2>4, OthersLeaveFiles
<1>4. \A w \in Sources : prev'[w] \in {prev[w], cur[w], disk[w]} /\ cur'[w] \in {cur[w], disk[w], Missing}
  <2> USE <1>0
  <2>1. CASE UNCHANGED <<edits, disk, watch>>
    BY <2>1 DEF watch
  <2>2. ASSUME NEW v \in Sources, Edit(v) \/ Vanish(v) \/ Watch(v)
        PROVE  \A w \in Sources : prev'[w] \in {prev[w], cur[w], disk[w]}
                                /\ cur'[w] \in {cur[w], disk[w], Missing}
    BY <2>2 DEF Edit, Vanish, watch, Watch, Baseline, Poll, PollReturns, WatcherEnds
  <2> QED BY <2>1, <2>2, OthersLeaveFiles
<1>5. Seen'
  <2> HIDE DEF Seen
  <2>1. \A w \in Sources : PastNext(prev'[w], w) /\ PastNext(cur'[w], w)
    BY <1>0, <1>1, <1>2, <1>3, <1>4 DEF Seen
  <2> QED BY <1>3, <2>1 DEF Seen, Past, PastNext
<1>6. \A w \in Sources, c \in Configs : c[w] \in Versions
  BY DEF Configs, Versions
<1>7. \A a \in Reloaders, w \in Sources : rl[a].step \in Reading => PastNext(rl[a].cfg[w], w)
  <2> SUFFICES ASSUME NEW a \in Reloaders, NEW w \in Sources, rl[a].step \in Reading
               PROVE  PastNext(rl[a].cfg[w], w)
    OBVIOUS
  <2>1. rl[a].cfg \in Configs
    BY ReadingTyped
  <2>2. Past(rl[a].cfg[w], w)
    BY DEF NothingFromTheFuture
  <2> QED BY <1>2, <1>6, <2>1, <2>2
<1>8. \A w \in Sources : PastNext(servers'[active'.srv].cfg[w], w)
  <2> SUFFICES ASSUME NEW w \in Sources PROVE PastNext(servers'[active'.srv].cfg[w], w)
    OBVIOUS
  <2>1. Past(servers[active.srv].cfg[w], w) /\ servers[active.srv].cfg \in Configs
    BY ActiveConfig DEF NothingFromTheFuture
  <2>2. PastNext(servers[active.srv].cfg[w], w)
    BY <1>2, <1>6, <2>1
  <2> QED BY <1>7, <2>2, ActiveConfig
<1>9. \A a \in Reloaders, w \in Sources : rl'[a].step \in Reading => PastNext(rl'[a].cfg[w], w)
  BY <1>3, <1>7, ReadsOnce
<1> QED BY <1>5, <1>8, <1>9 DEF NothingFromTheFuture, Past, PastNext

(* Which steps end the state a call of reload is in.                       *)
LEMMA CallsGoOn ==
    ASSUME TypeOK, OneReload, [Next]_vars, NEW a \in Reloaders
    PROVE  /\ rl[a].step = "load" => Load(a) \/ LoadFails(a) \/ rl'[a].step = "load"
           /\ rl[a].step \in Reading =>
                rl'[a].step \in Reading \/ BuildFails(a) \/ Exchange(a)
           /\ rl[a].step = "enter" => Enter(a) \/ rl'[a].step = "enter"
<1> USE DEF Reading
<1>0. Sources \subseteq Reloaders /\ "hup" \in Reloaders
  BY DEF Reloaders
<1>1. CASE UNCHANGED rl
  BY <1>1
<1>2. ASSUME NEW w \in Sources, Poll(w)
      PROVE  rl[w].step = "none" /\ \A b \in Reloaders : b # w => rl'[b] = rl[b]
  <2>1. watcher[w] # "fires"
    BY <1>2 DEF Poll
  <2>2. \A b \in Reloaders : b # w => rl'[b] = rl[b]
    BY <1>2 DEF Poll, TypeOK, ReloadsTyped
  <2> QED BY <2>1, <2>2 DEF OneReload
<1>3. ASSUME Hup
      PROVE  rl["hup"].step = "none" /\ \A b \in Reloaders : b # "hup" => rl'[b] = rl[b]
  BY <1>3 DEF Hup, Idle, TypeOK, ReloadsTyped
<1>4. ASSUME NEW b \in Reloaders, Reload(b), b # a
      PROVE  rl'[a] = rl[a]
  BY <1>4, ReloadMoves
<1>5. CASE Reload(a)
  <2>1. CASE Enter(a) \/ Load(a) \/ LoadFails(a) \/ BuildFails(a) \/ Exchange(a)
    BY <2>1 DEF Enter, Load, LoadFails, BuildFails, Exchange
  <2>2. CASE UpdatePerf(a) \/ RestartPerf(a)
    <3>1. PICK st \in Reading : rl' = [rl EXCEPT ![a] = [rl[a] EXCEPT !.step = st]]
      BY <2>2 DEF UpdatePerf, RestartPerf
    <3>2. rl[a].step \in Reading
      BY <2>2 DEF UpdatePerf, RestartPerf
    <3>3. rl[a] \in [step : Reading, cfg : Configs]
      BY <3>2, ReadingTyped
    <3>4. rl'[a] = [rl[a] EXCEPT !.step = st]
      BY <3>1 DEF TypeOK, ReloadsTyped
    <3>5. rl'[a].step = st
      BY <3>3, <3>4
    <3> QED BY <3>2, <3>5
  <2>3. CASE ShutdownOld(a) \/ CloseOld(a)
    BY <2>3 DEF ShutdownOld, CloseOld
  <2> QED BY <1>5, <2>1, <2>2, <2>3 DEF Reload
<1>6. CASE Term
  BY <1>1, <1>6 DEF Term
<1>7. CASE \E w \in Sources : Poll(w)
  BY <1>0, <1>2, <1>7
<1>8. CASE Hup
  BY <1>0, <1>3, <1>8
<1> QED BY <1>1, <1>4, <1>5, <1>6, <1>7, <1>8, OthersLeaveReloads

(* Only a Load forgets what was missed.                                    *)
LEMMA MissedGrows ==
    ASSUME [Next]_vars, missed' = {}
    PROVE  missed = {} \/ \E a \in Reloaders : Load(a)
<1>1. CASE UNCHANGED vars
  BY <1>1 DEF vars
<1>2. CASE \E w \in Sources : Edit(w) \/ Vanish(w) \/ Watch(w)
  BY <1>2 DEF Edit, Vanish, Watch, Baseline, Poll, PollReturns, WatcherEnds
<1>3. CASE Hup
  BY <1>3 DEF Hup
<1>4. CASE \E a \in Reloaders : Reload(a)
  BY <1>4 DEF Reload, Enter, LoadFails, UpdatePerf, RestartPerf, BuildFails,
     Exchange, ShutdownOld, CloseOld
<1>5. CASE \E r \in Requests : Serve(r)
  BY <1>5 DEF Serve, Arrive, Insert, Prune, Capture
<1>6. CASE \E i \in DOMAIN sampler : Tick(i) \/ SamplerEnds(i)
  BY <1>6 DEF Tick, SamplerEnds
<1>7. CASE Shutdown
  BY <1>7 DEF Shutdown, Term, CloseStreams, ShutdownActive, Exit
<1> QED BY <1>1, <1>2, <1>3, <1>4, <1>5, <1>6, <1>7 DEF Next

CoversNext(c) ==
    \A w \in Sources :
        /\ watcher'[w] = "idle" => prev'[w] <= c[w]
        /\ watcher'[w] = "fires" /\ rl'[w].step # "enter" => cur'[w] <= c[w]

(* A configuration that has all the watchers have seen has it still, but   *)
(* for the changes the code is known to let go and a reload about to read. *)
LEMMA CoversStays ==
    ASSUME TypeOK, OneReload, [Next]_vars, missed' = {}, \A a \in Reloaders : rl'[a].step # "load",
           NEW c \in Configs, Covers(c)
    PROVE  CoversNext(c)
<1>0. /\ Sources \subseteq Reloaders
      /\ watcher \in [Sources -> {"start", "idle", "fires", "gone"}]
      /\ disk \in [Sources -> Versions]
      /\ prev \in [Sources -> Versions] /\ cur \in [Sources -> Versions]
      /\ \A w \in Sources : c[w] \in Nat
  BY DEF Reloaders, TypeOK, FilesTyped, Configs
<1>1. ASSUME NEW w \in Sources, rl[w].step = "enter"
      PROVE  rl'[w].step = "enter"
  <2>1. SUFFICES ASSUME Enter(w) PROVE FALSE
    BY <1>0, <1>1, CallsGoOn
  <2>2. CASE reloading
    BY <2>1, <2>2 DEF Enter
  <2>3. CASE ~reloading
    <3>1. rl' = [rl EXCEPT ![w] = [step |-> "load"]]
      BY <2>1, <2>3 DEF Enter
    <3>2. rl'[w].step = "load"
      BY <1>0, <3>1 DEF TypeOK, ReloadsTyped
    <3> QED BY <1>0, <3>2
  <2> QED BY <2>2, <2>3
<1>2. CASE UNCHANGED <<edits, disk, watch>>
  BY <1>1, <1>2 DEF watch, Covers, CoversNext
<1>3. ASSUME NEW v \in Sources, Edit(v) \/ Vanish(v)
      PROVE  CoversNext(c)
  BY <1>1, <1>3 DEF Edit, Vanish, watch, Covers, CoversNext
<1>4. ASSUME NEW v \in Sources, Baseline(v)
      PROVE  CoversNext(c)
  <2>1. disk[v] = 0 /\ UNCHANGED cur
    BY <1>4 DEF Baseline
  <2>2. /\ watcher'[v] = "idle" /\ prev'[v] = 0
        /\ \A w \in Sources : w # v => watcher'[w] = watcher[w] /\ prev'[w] = prev[w]
    BY <1>0, <1>4, <2>1 DEF Baseline
  <2>3. 0 <= c[v]
    BY <1>0
  <2> QED BY <1>1, <2>1, <2>2, <2>3 DEF Covers, CoversNext
<1>5. ASSUME NEW v \in Sources, Poll(v)
      PROVE  CoversNext(c)
  <2>1. CASE Changed(prev[v], disk[v])
    <3>1. /\ watcher'[v] = "fires" /\ rl'[v].step = "enter" /\ UNCHANGED prev
          /\ \A w \in Sources : w # v => watcher'[w] = watcher[w] /\ cur'[w] = cur[w]
      BY <1>0, <1>5, <2>1 DEF Poll, TypeOK, ReloadsTyped
    <3> QED BY <1>1, <3>1 DEF Covers, CoversNext
  <2>2. CASE ~Changed(prev[v], disk[v])
    <3>1. /\ prev'[v] = disk[v] /\ UNCHANGED <<cur, watcher, rl>>
          /\ \A w \in Sources : w # v => prev'[w] = prev[w]
      BY <1>0, <1>5, <2>2 DEF Poll
    <3>2. prev'[v] <= c[v] \/ prev'[v] = prev[v]
      BY <1>0, <2>2, <3>1 DEF Changed, Missing
    <3> QED BY <3>1, <3>2 DEF Covers, CoversNext
  <2> QED BY <2>1, <2>2
<1>6. ASSUME NEW v \in Sources, PollReturns(v)
      PROVE  CoversNext(c)
  <2>1. /\ watcher'[v] = "idle" /\ prev'[v] = cur[v]
        /\ watcher[v] = "fires" /\ rl[v].step = "none"
        /\ \A w \in Sources : w # v => watcher'[w] = watcher[w] /\ prev'[w] = prev[w] /\ cur'[w] = cur[w]
    BY <1>0, <1>6 DEF PollReturns, Idle
  <2> QED BY <1>1, <2>1 DEF Covers, CoversNext
<1>7. ASSUME NEW v \in Sources, WatcherEnds(v)
      PROVE  CoversNext(c)
  <2>1. /\ watcher'[v] = "gone" /\ UNCHANGED <<prev, cur>>
        /\ \A w \in Sources : w # v => watcher'[w] = watcher[w]
    BY <1>0, <1>7 DEF WatcherEnds
  <2> QED BY <1>1, <2>1 DEF Covers, CoversNext
<1> QED BY <1>2, <1>3, <1>4, <1>5, <1>6, <1>7, OthersLeaveFiles DEF Watch

(* Unless a change was let go, what the watchers have seen is in the       *)
(* configuration a reload has read or, when none has, in the active one.   *)
LEMMA NothingMissedStays ==
    ASSUME TypeOK, OneReload, NothingFromTheFuture, NothingMissed, [Next]_vars
    PROVE  NothingMissed'
<1>1. SUFFICES ASSUME missed' = {}, \A a \in Reloaders : rl'[a].step # "load"
               PROVE  /\ \A a \in Reloaders : rl'[a].step \in Reading => CoversNext(rl'[a].cfg)
                      /\ (\A a \in Reloaders : rl'[a].step \notin Reading) =>
                           CoversNext(servers'[active'.srv].cfg)
  BY DEF NothingMissed, Covers, CoversNext
<1>2. ASSUME NEW a \in Reloaders, Load(a)
      PROVE  /\ \A b \in Reloaders : rl'[b].step \in Reading => CoversNext(rl'[b].cfg)
             /\ rl'[a].step \in Reading
  <2>1. rl' = [rl EXCEPT ![a] = [step |-> "perf", cfg |-> disk]] /\ rl[a].step = "load"
        /\ AllThere(disk) /\ UNCHANGED watch
    BY <1>2 DEF Load
  <2>2. rl'[a].step \in Reading
    BY <2>1 DEF TypeOK, ReloadsTyped, Reading
  <2>3. CoversNext(disk)
    BY <2>1 DEF CoversNext, NothingFromTheFuture, Past, AllThere, watch
  <2>4. \A b \in Reloaders : rl[b].step \in Reading => FALSE
    BY <2>1 DEF OneReload, Reading, Resting
  <2>5. \A b \in Reloaders : rl'[b].step \in Reading => rl'[b].cfg = disk
    BY <2>4, ReadsOnce
  <2> QED BY <2>2, <2>3, <2>5
<1>3. ASSUME \A a \in Reloaders : ~Load(a)
      PROVE  /\ \A a \in Reloaders : rl'[a].step \in Reading => CoversNext(rl'[a].cfg)
             /\ (\A a \in Reloaders : rl'[a].step \notin Reading) =>
                  CoversNext(servers'[active'.srv].cfg)
  <2>1. missed = {}
    BY <1>1, <1>3, MissedGrows
  <2>2. \A a \in Reloaders : ~LoadFails(a) /\ ~BuildFails(a)
    BY <1>1 DEF LoadFails, BuildFails
  <2>3. \A a \in Reloaders : rl[a].step # "load"
    BY <1>1, <1>3, <2>2, CallsGoOn
  <2>4. \A a \in Reloaders : rl[a].step \in Reading =>
          Covers(rl[a].cfg) /\ rl[a].cfg \in Configs
    BY <2>1, <2>3, ReadingTyped DEF NothingMissed
  <2>5. \A a \in Reloaders : rl[a].step \in Reading => CoversNext(rl[a].cfg)
    BY <1>1, <2>4, CoversStays
  <2>6. \A a \in Reloaders : rl'[a].step \in Reading => CoversNext(rl'[a].cfg)
    BY <1>3, <2>5, ReadsOnce
  <2>7. ASSUME \A a \in Reloaders : rl'[a].step \notin Reading
        PROVE  CoversNext(servers'[active'.srv].cfg)
    <3>1. CASE \E a \in Reloaders : Exchange(a)
      <4>1. PICK a \in Reloaders : Exchange(a)
        BY <3>1
      <4>2. servers'[active'.srv].cfg = rl[a].cfg
        BY <4>1, ExchangeAdds
      <4>3. rl[a].step \in Reading
        BY <4>1 DEF Exchange, Reading
      <4> QED BY <2>5, <4>2, <4>3
    <3>2. CASE \A a \in Reloaders : ~Exchange(a)
      <4>1. \A a \in Reloaders : rl[a].step \notin Reading
        BY <2>2, <2>7, <3>2, CallsGoOn
      <4>2. Covers(servers[active.srv].cfg) /\ servers[active.srv].cfg \in Configs
        BY <2>1, <2>3, <4>1, ActiveConfig DEF NothingMissed
      <4>3. CoversNext(servers[active.srv].cfg)
        BY <1>1, <4>2, CoversStays
      <4> QED BY <3>2, <4>3, ActiveConfig
    <3> QED BY <3>1, <3>2
  <2> QED BY <2>6, <2>7
<1> QED BY <1>2, <1>3

-----------------------------------------------------------------------------
(* What is replaced, and what is left at the end.                          *)

(* A call of reload that has exchanged the server keeps what it replaced   *)
(* until it has closed it.                                                 *)
LEMMA ReplacedKept ==
    ASSUME TypeOK, OneReload, [Next]_vars, NEW a \in Reloaders
    PROVE  /\ rl'[a].step \in Ending =>
                \/ Exchange(a)
                \/ /\ rl[a].step \in Ending /\ rl'[a].changed = rl[a].changed
                   /\ rl'[a].srv = rl[a].srv /\ rl'[a].store = rl[a].store
           /\ rl[a].step = "shutdown" => ShutdownOld(a) \/ rl'[a] = rl[a]
           /\ rl[a].step \in Ending =>
                \/ CloseOld(a)
                \/ /\ rl'[a].step \in Ending /\ rl'[a].changed = rl[a].changed
                   /\ rl'[a].srv = rl[a].srv /\ rl'[a].store = rl[a].store
<1> USE DEF Ending
<1>0. Sources \subseteq Reloaders /\ "hup" \in Reloaders
  BY DEF Reloaders
<1>1. CASE UNCHANGED rl
  BY <1>1
<1>2. ASSUME NEW w \in Sources, Poll(w)
      PROVE  /\ UNCHANGED rl \/ rl'[w].step = "enter"
             /\ rl[w].step = "none" /\ \A b \in Reloaders : b # w => rl'[b] = rl[b]
  <2>1. watcher[w] # "fires"
    BY <1>2 DEF Poll
  <2>2. /\ UNCHANGED rl \/ rl'[w].step = "enter"
        /\ \A b \in Reloaders : b # w => rl'[b] = rl[b]
    BY <1>0, <1>2 DEF Poll, TypeOK, ReloadsTyped
  <2> QED BY <2>1, <2>2 DEF OneReload
<1>3. ASSUME Hup
      PROVE  /\ rl["hup"].step = "none" /\ rl'["hup"].step = "enter"
             /\ \A b \in Reloaders : b # "hup" => rl'[b] = rl[b]
  BY <1>0, <1>3 DEF Hup, Idle, TypeOK, ReloadsTyped
<1>4. ASSUME NEW b \in Reloaders, Reload(b), b # a
      PROVE  rl'[a] = rl[a]
  BY <1>4, ReloadMoves
<1>5. CASE Reload(a)
  <2>1. CASE Enter(a)
    <3>1. rl'[a].step \in {"none", "load"}
      BY <2>1 DEF Enter, NoReload, TypeOK, ReloadsTyped
    <3> QED BY <2>1, <3>1 DEF Enter
  <2>2. CASE Load(a)
    <3>1. rl'[a].step = "perf"
      BY <2>2 DEF Load, TypeOK, ReloadsTyped
    <3> QED BY <2>2, <3>1 DEF Load
  <2>3. CASE LoadFails(a) \/ BuildFails(a)
    <3>1. rl'[a].step = "none"
      BY <2>3 DEF LoadFails, BuildFails, Return, NoReload, TypeOK, ReloadsTyped
    <3> QED BY <2>3, <3>1 DEF LoadFails, BuildFails
  <2>4. CASE UpdatePerf(a) \/ RestartPerf(a)
    <3>1. rl[a].step \in Reading
      BY <2>4 DEF UpdatePerf, RestartPerf, Reading
    <3>2. (~Exchange(a) /\ ~BuildFails(a)) \/ rl[a].step = "build"
      BY DEF Exchange, BuildFails
    <3>3. rl[a].step # "build"
      BY <2>4 DEF UpdatePerf, RestartPerf
    <3>4. rl'[a].step \in Reading
      BY <3>1, <3>2, <3>3, CallsGoOn
    <3> QED BY <3>1, <3>4 DEF Reading
  <2>5. CASE Exchange(a)
    BY <2>5 DEF Exchange
  <2>6. CASE ShutdownOld(a)
    <3>1. rl' = [rl EXCEPT ![a] = [rl[a] EXCEPT !.step = "close"]] /\ rl[a].step \in Ending
      BY <2>6 DEF ShutdownOld
    <3>2. rl[a] \in [step : Ending, changed : BOOLEAN, srv : Nat, store : Nat]
      BY <3>1, EndingTyped
    <3>3. rl'[a] = [rl[a] EXCEPT !.step = "close"]
      BY <3>1 DEF TypeOK, ReloadsTyped
    <3>4. /\ rl'[a].step = "close" /\ rl'[a].changed = rl[a].changed
          /\ rl'[a].srv = rl[a].srv /\ rl'[a].store = rl[a].store
      BY <3>2, <3>3
    <3> QED BY <2>6, <3>1, <3>4
  <2>7. CASE CloseOld(a)
    <3>1. rl'[a].step = "none"
      BY <2>7 DEF CloseOld, Return, NoReload, TypeOK, ReloadsTyped
    <3> QED BY <2>7, <3>1 DEF CloseOld
  <2> QED BY <1>5, <2>1, <2>2, <2>3, <2>4, <2>5, <2>6, <2>7 DEF Reload
<1>6. CASE Term
  BY <1>1, <1>6 DEF Term
<1>7. CASE \E w \in Sources : Poll(w)
  BY <1>0, <1>1, <1>2, <1>7
<1>8. CASE Hup
  BY <1>0, <1>3, <1>8
<1> QED BY <1>1, <1>4, <1>5, <1>6, <1>7, <1>8, OthersLeaveReloads

(* What a reload has yet to close is not what is active.                   *)
LEMMA OldStoreStaysOld ==
    ASSUME TypeOK, OneReload, OldStoreIsOld, [Next]_vars
    PROVE  OldStoreIsOld'
<1>1. CASE Kept
  <2>1. \A a \in Reloaders : ~Exchange(a)
    <3>1. \A a \in Reloaders : Exchange(a) => Len(servers') = Len(servers) + 1
      BY ExchangeAdds
    <3>2. Len(servers) \in Nat /\ Len(servers') = Len(servers)
      BY <1>1, ObjectsGrow DEF Kept
    <3> QED BY <3>1, <3>2
  <2>2. active' = active
    BY <1>1 DEF Kept
  <2> QED BY <2>1, <2>2, ReplacedKept DEF OldStoreIsOld
<1>2. ASSUME NEW a \in Reloaders, Exchange(a)
      PROVE  OldStoreIsOld'
  <2>1. \A b \in Reloaders : b # a => rl[b].step \notin Ending
    BY <1>2 DEF OneReload, Exchange, Resting, Ending
  <2>2. rl' = [rl EXCEPT ![a] = [step |-> "shutdown", changed |-> StorePath(rl[a].cfg) # active.path,
                                srv |-> active.srv, store |-> active.store]]
    BY <1>2, ExchangeAdds
  <2>3. /\ rl'[a].changed = (StorePath(rl[a].cfg) # active.path) /\ rl'[a].store = active.store
        /\ \A b \in Reloaders : b # a => rl'[b] = rl[b]
    BY <2>2 DEF TypeOK, ReloadsTyped
  <2>4. StorePath(rl[a].cfg) # active.path => active'.store = Len(stores) + 1
    BY <1>2, ExchangeAdds
  <2>5. active.store \in 1 .. Len(stores) /\ Len(stores) \in Nat
    BY ObjectsGrow DEF TypeOK, ActiveTyped
  <2>6. active.store # Len(stores) + 1
    BY <2>5
  <2> QED BY <2>1, <2>3, <2>4, <2>6 DEF OldStoreIsOld
<1> QED BY <1>1, <1>2, Keeps

(* The steps that close a store.                                           *)
LEMMA OpenStays ==
    ASSUME TypeOK, OneReload, [Next]_vars, NEW i \in 1 .. Len(stores), stores[i].log.open
    PROVE  \/ stores'[i].log.open
           \/ \E a \in Reloaders : CloseOld(a) /\ rl[a].changed /\ rl[a].store = i
           \/ Exit
<1>1. CASE UNCHANGED objects
  BY <1>1 DEF objects
<1>2. ASSUME NEW a \in Reloaders, Exchange(a)
      PROVE  stores'[i].log.open
  BY <1>2, ExchangeAdds
<1>3. ASSUME NEW a \in Reloaders, ShutdownOld(a)
      PROVE  stores'[i].log.open
  BY <1>3 DEF ShutdownOld
<1>4. ASSUME NEW a \in Reloaders, CloseOld(a), ~(rl[a].changed /\ rl[a].store = i)
      PROVE  stores'[i].log.open
  <2>1. CASE ~rl[a].changed
    BY <1>4, <2>1 DEF CloseOld
  <2>2. CASE rl[a].changed
    <3>1. stores' = [stores EXCEPT ![rl[a].store].log = CloseStore(@)]
      BY <1>4, <2>2 DEF CloseOld
    <3>2. rl[a].store \in 1 .. Len(stores)
      BY <1>4 DEF CloseOld, TypeOK, ReloadsTyped, Ending
    <3> QED BY <1>4, <2>2, <3>1, <3>2, CloseLeaves DEF TypeOK
  <2> QED BY <2>1, <2>2
<1>5. ASSUME NEW r \in Requests, Insert(r)
      PROVE  stores'[i].log.open
  <2>1. CASE Log(r).open
    <3> DEFINE at == servers[req[r].srv].store
    <3>1. /\ stores'[at].log.open = stores[at].log.open
          /\ \A j \in 1 .. Len(stores) : j # at => stores'[j] = stores[j]
      BY <1>5, <2>1, InsertLeaves
    <3> HIDE DEF at
    <3> QED BY <3>1
  <2>2. CASE ~Log(r).open
    BY <1>5, <2>2 DEF Insert
  <2> QED BY <2>1, <2>2
<1>6. ASSUME NEW r \in Requests, Prune(r)
      PROVE  stores'[i].log.open
  BY <1>6, PruneLeaves
<1>7. ASSUME NEW r \in Requests, Capture(r)
      PROVE  stores'[i].log.open
  BY <1>7 DEF Capture
<1>8. CASE ShutdownActive
  BY <1>8 DEF ShutdownActive
<1> QED BY <1>1, <1>2, <1>3, <1>4, <1>5, <1>6, <1>7, <1>8, OthersLeaveObjects

(* The active server's store is open until the exit closes it.             *)
LEMMA ActiveStoreStaysOpen ==
    ASSUME TypeOK, OneReload, OldStoreIsOld, ActiveStoreOpen, [Next]_vars
    PROVE  ActiveStoreOpen'
<1>1. SUFFICES ASSUME Alive'
               PROVE  /\ stores'[active'.store].log.open
                      /\ servers'[active'.srv].store = active'.store
  BY DEF ActiveStoreOpen
<1>2. Alive /\ ~Exit
  <2>1. ~Exit
    BY <1>1 DEF Exit, Alive
  <2>2. CASE UNCHANGED ending
    BY <1>1, <2>1, <2>2 DEF ending, Alive
  <2>3. CASE Shutdown
    BY <2>1, <2>3 DEF Shutdown, Term, CloseStreams, ShutdownActive, Alive
  <2> QED BY <2>1, <2>2, <2>3, OthersLeaveEnding
<1>3. stores[active.store].log.open /\ servers[active.srv].store = active.store
  BY <1>2 DEF ActiveStoreOpen
<1>4. active.store \in 1 .. Len(stores) /\ active.srv \in 1 .. Len(servers)
  BY DEF TypeOK, ActiveTyped
<1>5. CASE Kept
  <2>1. active' = active /\ servers'[active.srv].store = servers[active.srv].store
    BY <1>4, <1>5 DEF Kept
  <2>2. \A a \in Reloaders : CloseOld(a) /\ rl[a].changed => rl[a].store # active.store
    BY DEF OldStoreIsOld, CloseOld, Ending
  <2> QED BY <1>2, <1>3, <1>4, <2>1, <2>2, OpenStays
<1>6. ASSUME NEW a \in Reloaders, Exchange(a)
      PROVE  /\ stores'[active'.store].log.open
             /\ servers'[active'.srv].store = active'.store
  <2>1. servers'[active'.srv].store = active'.store
    BY <1>6, ExchangeAdds
  <2>2. CASE StorePath(rl[a].cfg) # active.path
    <3>1. stores'[active'.store] = OpenStore(active'.path, stores)
      BY <1>6, <2>2, ExchangeAdds
    <3>2. OpenStore(active'.path, stores).log.open
      BY OpenTyped DEF TypeOK
    <3> QED BY <2>1, <3>1, <3>2
  <2>3. CASE ~(StorePath(rl[a].cfg) # active.path)
    <3>1. active'.store = active.store /\ stores' = stores
      BY <1>6, <2>3, ExchangeAdds
    <3> QED BY <1>3, <2>1, <3>1
  <2> QED BY <2>2, <2>3
<1> QED BY <1>5, <1>6, Keeps

(* Whatever is replaced is shut down and closed by who replaced it.        *)
LEMMA CleanedStays ==
    ASSUME TypeOK, OneReload, Cleaned, [Next]_vars
    PROVE  Cleaned'
<1>0. Len(servers) \in Nat /\ Len(stores) \in Nat
  BY ObjectsGrow
<1>1. CASE Kept
  <2>0. \A a \in Reloaders : ~Exchange(a)
    <3>1. \A a \in Reloaders : Exchange(a) => Len(servers') = Len(servers) + 1
      BY ExchangeAdds
    <3> QED BY <1>0, <1>1, <3>1 DEF Kept
  <2>1. ASSUME NEW s \in 1 .. Len(servers)
        PROVE  servers'[s].shut \/ s = active'.srv
                 \/ \E a \in Reloaders : rl'[a].step = "shutdown" /\ rl'[a].srv = s
    <3>1. CASE servers[s].shut \/ s = active.srv
      BY <1>1, <3>1 DEF Kept
    <3>2. ASSUME NEW a \in Reloaders, rl[a].step = "shutdown", rl[a].srv = s
          PROVE  servers'[s].shut \/ rl'[a] = rl[a]
      <4>1. SUFFICES ASSUME ShutdownOld(a) PROVE servers'[s].shut
        BY <3>2, ReplacedKept
      <4>2. servers' = ShutdownServer(s)
        BY <3>2, <4>1 DEF ShutdownOld
      <4> QED BY <4>2, ShutLeaves DEF TypeOK
    <3> QED BY <3>1, <3>2 DEF Cleaned
  <2>2. ASSUME NEW i \in 1 .. Len(stores)
        PROVE  ~stores'[i].log.open \/ i = active'.store
                 \/ \E a \in Reloaders : rl'[a].step \in Ending /\ rl'[a].changed /\ rl'[a].store = i
    <3>1. CASE ~stores[i].log.open \/ i = active.store
      BY <1>1, <3>1 DEF Kept
    <3>2. ASSUME NEW a \in Reloaders, rl[a].step \in Ending, rl[a].changed, rl[a].store = i
          PROVE  ~stores'[i].log.open
                   \/ (rl'[a].step \in Ending /\ rl'[a].changed /\ rl'[a].store = i)
      <4>1. CASE CloseOld(a)
        <5>1. stores' = [stores EXCEPT ![i].log = CloseStore(@)]
          BY <3>2, <4>1 DEF CloseOld
        <5> QED BY <5>1, CloseLeaves DEF TypeOK
      <4>2. CASE ~CloseOld(a)
        BY <3>2, <4>2, ReplacedKept
      <4> QED BY <4>1, <4>2
    <3> QED BY <3>1, <3>2 DEF Cleaned
  <2>3. Len(servers') = Len(servers) /\ Len(stores') = Len(stores)
    BY <1>1 DEF Kept
  <2> QED BY <2>1, <2>2, <2>3 DEF Cleaned
<1>2. ASSUME NEW a \in Reloaders, Exchange(a)
      PROVE  Cleaned'
  <2> DEFINE n == Len(servers) + 1
             changes == StorePath(rl[a].cfg) # active.path
  <2>1. \A b \in Reloaders : rl[b].step \notin Ending
    <3>1. rl[a].step = "build"
      BY <1>2 DEF Exchange
    <3> QED BY <3>1 DEF OneReload, Resting, Ending
  <2>2. rl' = [rl EXCEPT ![a] = [step |-> "shutdown", changed |-> changes,
                                srv |-> active.srv, store |-> active.store]]
    BY <1>2, ExchangeAdds
  <2>3. /\ rl'[a].step = "shutdown" /\ rl'[a].srv = active.srv
        /\ rl'[a].changed = changes /\ rl'[a].store = active.store
    BY <2>2 DEF TypeOK, ReloadsTyped
  <2>4. /\ active'.srv = n /\ Len(servers') = n
        /\ \A s \in 1 .. Len(servers) : servers'[s] = servers[s]
        /\ \A i \in 1 .. Len(stores) : stores'[i] = stores[i]
    BY <1>2, ExchangeAdds
  <2>5. \A s \in 1 .. Len(servers) : servers[s].shut \/ s = active.srv
    BY <2>1 DEF Cleaned, Ending
  <2>6. \A i \in 1 .. Len(stores) : ~stores[i].log.open \/ i = active.store
    BY <2>1 DEF Cleaned
  <2>7. \A s \in 1 .. Len(servers') : s \in 1 .. Len(servers) \/ s = n
    BY <1>0, <2>4
  <2>8. \A s \in 1 .. Len(servers') : servers'[s].shut \/ s = active'.srv
          \/ \E b \in Reloaders : rl'[b].step = "shutdown" /\ rl'[b].srv = s
    BY <2>3, <2>4, <2>5, <2>7
  <2>9. \A i \in 1 .. Len(stores') : ~stores'[i].log.open \/ i = active'.store
          \/ \E b \in Reloaders : rl'[b].step \in Ending /\ rl'[b].changed /\ rl'[b].store = i
    <3>1. CASE changes
      <4>1. active'.store = Len(stores) + 1 /\ Len(stores') = Len(stores) + 1
        BY <1>2, <3>1, ExchangeAdds
      <4>2. \A i \in 1 .. Len(stores') : i \in 1 .. Len(stores) \/ i = active'.store
        BY <1>0, <4>1
      <4> QED BY <2>3, <2>4, <2>6, <3>1, <4>2 DEF Ending
    <3>2. CASE ~changes
      <4>1. active'.store = active.store /\ stores' = stores
        BY <1>2, <3>2, ExchangeAdds
      <4> QED BY <2>6, <4>1
    <3> QED BY <3>1, <3>2
  <2> QED BY <2>8, <2>9 DEF Cleaned
<1> QED BY <1>1, <1>2, Keeps

(* Only an Enter during the shutdown, or SIGTERM itself, decides on the    *)
(* overlap.                                                                *)
LEMMA EndedStays ==
    ASSUME TypeOK, OneReload, Ended, [Next]_vars
    PROVE  Ended'
<1>1. CASE Term
  <2>1. SUFFICES ASSUME ~overlap' PROVE
          /\ \A a \in Reloaders : rl'[a].step \in Resting
          /\ ~reloading'
          /\ term'.srv = active'.srv /\ term'.store = active'.store /\ phase' = "closing"
    BY DEF Ended
  <2>2. /\ overlap' = reloading /\ UNCHANGED <<reloading, rl, active>> /\ phase' = "closing"
        /\ term' = [srv |-> active.srv, store |-> active.store]
    BY <1>1 DEF Term, objects
  <2>3. ~reloading
    BY <2>1, <2>2
  <2> QED BY <2>2, <2>3 DEF OneReload
<1>2. ASSUME ~Term, phase' # "run", ~overlap'
      PROVE  /\ \A a \in Reloaders : rl'[a].step \in Resting
             /\ ~reloading'
             /\ term'.srv = active'.srv /\ term'.store = active'.store
             /\ phase' \in {"stopped", "exited"} => servers'[term'.srv].shut
             /\ phase' = "exited" => ~stores'[term'.store].log.open
  <2>1. phase # "run" /\ UNCHANGED term
    <3>1. CASE UNCHANGED ending
      BY <1>2, <3>1 DEF ending
    <3>2. CASE Shutdown
      BY <1>2, <3>2 DEF Shutdown, CloseStreams, ShutdownActive, Exit
    <3> QED BY <3>1, <3>2, OthersLeaveEnding
  <2>2. ~overlap /\ \A a \in Reloaders : Reload(a) => Enter(a) /\ reloading
    <3>1. CASE \E a \in Reloaders : Reload(a)
      <4>1. PICK a \in Reloaders : Reload(a)
        BY <3>1
      <4>2. CASE ~Enter(a)
        <5>1. rl[a].step \notin Resting /\ ~overlap
          BY <1>2, <4>1, <4>2 DEF Reload, Load, LoadFails, UpdatePerf, RestartPerf, BuildFails,
             Exchange, ShutdownOld, CloseOld, Resting
        <5> QED BY <2>1, <5>1 DEF Ended
      <4>3. CASE Enter(a)
        <5>1. reloading /\ ~overlap
          BY <1>2, <2>1, <4>3 DEF Enter
        <5>2. \A b \in Reloaders : rl[b].step \in Resting
          BY <2>1, <5>1 DEF Ended
        <5>3. ~reloading
          BY <2>1, <5>1 DEF Ended
        <5> QED BY <5>1, <5>3
      <4> QED BY <4>2, <4>3
    <3>2. CASE ~\E a \in Reloaders : Reload(a)
      <4>1. CASE UNCHANGED <<reloading, rl, overlap>>
        BY <1>2, <3>2, <4>1
      <4>2. CASE Hup \/ \E w \in Sources : Poll(w)
        BY <1>2, <3>2, <4>2 DEF Hup, Poll
      <4> QED BY <1>2, <3>2, <4>1, <4>2, OthersLeaveReloads
    <3> QED BY <3>1, <3>2
  <2>3. /\ \A a \in Reloaders : rl[a].step \in Resting
        /\ ~reloading
        /\ term.srv = active.srv /\ term.store = active.store
        /\ phase \in {"stopped", "exited"} => servers[term.srv].shut
        /\ phase = "exited" => ~stores[term.store].log.open
    BY <2>1, <2>2 DEF Ended
  <2>4. \A a \in Reloaders : ~Reload(a)
    BY <2>2, <2>3
  <2>5. ~Hup
    BY <2>1 DEF Hup
  <2>6. (\A a \in Reloaders : rl'[a].step \in Resting) /\ ~reloading'
    <3>1. CASE UNCHANGED <<reloading, rl, overlap>>
      BY <2>3, <3>1
    <3>2. ASSUME NEW w \in Sources, Poll(w)
          PROVE  (\A a \in Reloaders : rl'[a].step \in Resting) /\ ~reloading'
      <4>1. UNCHANGED reloading
            /\ (UNCHANGED rl \/ rl' = [rl EXCEPT ![w] = [step |-> "enter"]])
        BY <3>2 DEF Poll
      <4>2. \A a \in Reloaders : rl'[a] = rl[a] \/ rl'[a].step = "enter"
        BY <4>1 DEF TypeOK, ReloadsTyped
      <4> QED BY <2>3, <4>1, <4>2 DEF Resting
    <3> QED BY <1>2, <2>4, <2>5, <3>1, <3>2, OthersLeaveReloads
  <2>7. Kept
    BY <2>4, Keeps DEF Reload
  <2>8. term.srv \in 1 .. Len(servers) /\ term.store \in 1 .. Len(stores)
    BY DEF TypeOK, ActiveTyped
  <2>9. /\ term'.srv = active'.srv /\ term'.store = active'.store
        /\ servers[term.srv].shut => servers'[term'.srv].shut
        /\ ~stores[term.store].log.open => ~stores'[term'.store].log.open
    BY <2>1, <2>3, <2>7, <2>8 DEF Kept
  <2>10. phase' \in {"stopped", "exited"} => servers'[term'.srv].shut
    <3>1. CASE UNCHANGED phase
      BY <2>3, <2>9, <3>1
    <3>2. CASE CloseStreams
      BY <3>2 DEF CloseStreams
    <3>3. CASE ShutdownActive
      <4>1. servers' = ShutdownServer(term.srv)
        BY <3>3 DEF ShutdownActive
      <4> QED BY <2>1, <2>8, <4>1, ShutLeaves DEF TypeOK
    <3>4. CASE Exit
      BY <2>3, <2>9, <3>4 DEF Exit
    <3> QED BY <1>2, <3>1, <3>2, <3>3, <3>4, OthersLeaveEnding DEF Shutdown, ending
  <2>11. phase' = "exited" => ~stores'[term'.store].log.open
    <3>1. CASE UNCHANGED phase
      BY <2>3, <2>9, <3>1
    <3>2. CASE CloseStreams \/ ShutdownActive
      BY <3>2 DEF CloseStreams, ShutdownActive
    <3>3. CASE Exit
      <4>1. stores' = [stores EXCEPT ![term.store].log = CloseStore(@)]
        BY <3>3 DEF Exit
      <4> QED BY <2>1, <2>8, <4>1, CloseLeaves DEF TypeOK
    <3> QED BY <1>2, <3>1, <3>2, <3>3, OthersLeaveEnding DEF Shutdown, ending
  <2> QED BY <2>6, <2>9, <2>10, <2>11
<1> QED BY <1>1, <1>2 DEF Ended

-----------------------------------------------------------------------------
(* Rows and captures.                                                      *)

(* The log of a server after the step.                                     *)
LogNext(s) == stores'[servers'[s].store].log

(* Steps that change neither a row, nor a capture, nor a request.          *)
LEMMA DataStays ==
    ASSUME TypeOK, RowsAndCaptures, UNCHANGED req,
           Len(servers') = Len(servers), Len(stores') = Len(stores),
           \A s \in 1 .. Len(servers) :
             servers'[s].store = servers[s].store /\ servers'[s].captures = servers[s].captures,
           \A i \in 1 .. Len(stores) :
             stores'[i].log.rows = stores[i].log.rows /\ stores'[i].log.lastId = stores[i].log.lastId
    PROVE  RowsAndCaptures'
<1>1. \A s \in 1 .. Len(servers) :
        LogNext(s).rows = LogOf(s).rows /\ LogNext(s).lastId = LogOf(s).lastId
  BY DEF LogOf, LogNext, TypeOK, ServersTyped
<1>2. \A r \in Requests : req[r].step \in {"prune", "capture"} => req[r].srv \in 1 .. Len(servers)
  BY DEF TypeOK, RequestsTyped, Serving
<1>3. \A i \in 1 .. Len(stores') : \A row \in stores'[i].log.rows : row.id <= stores'[i].log.lastId
  BY DEF RowsAndCaptures
<1>4. \A s \in 1 .. Len(servers') : \A id \in DOMAIN servers'[s].captures.items :
        /\ id \in Nat /\ id <= LogNext(s).lastId
        /\ \A row \in LogNext(s).rows : row.id = id =>
             servers'[s].captures.items[id] = CaptureSize[row.req]
  BY <1>1 DEF RowsAndCaptures
<1>5. \A r \in Requests : req'[r].step \in {"prune", "capture"} =>
        /\ req'[r].id <= LogNext(req'[r].srv).lastId
        /\ \A row \in LogNext(req'[r].srv).rows : row.id = req'[r].id => row.req = r
  BY <1>1, <1>2 DEF RowsAndCaptures
<1> QED BY <1>3, <1>4, <1>5 DEF RowsAndCaptures, LogOf, LogNext

(* A row is new under its id, a pruned row is gone, and a capture is       *)
(* stored under the id of its own row; a new server has no capture.        *)
LEMMA RowsAndCapturesStay ==
    ASSUME TypeOK, RowsAndCaptures, [Next]_vars
    PROVE  RowsAndCaptures'
<1>0. /\ Len(servers) \in Nat /\ Len(stores) \in Nat
      /\ \A s \in 1 .. Len(servers) : servers[s].store \in 1 .. Len(stores)
      /\ \A i \in 1 .. Len(stores) : stores[i].log \in LogType
  BY ObjectsGrow DEF TypeOK, ServersTyped, StoresTyped, IsStore
<1>1. \A r \in Requests : req[r].step \in {"prune", "capture"} => req[r].srv \in 1 .. Len(servers)
  BY DEF TypeOK, RequestsTyped, Serving
<1>2. CASE UNCHANGED <<objects, req>>
  BY <1>2, DataStays DEF objects
<1>3. ASSUME NEW r \in Requests, Arrive(r)
      PROVE  RowsAndCaptures'
  <2>1. req'[r].step = "serve" /\ \A q \in Requests : q # r => req'[q] = req[q]
    BY <1>3 DEF Arrive, TypeOK, RequestsTyped
  <2>2. UNCHANGED <<servers, stores>>
    BY <1>3 DEF Arrive, objects
  <2> QED BY <2>1, <2>2 DEF RowsAndCaptures, LogOf
<1>4. ASSUME NEW a \in Reloaders, Exchange(a)
      PROVE  RowsAndCaptures'
  <2> DEFINE n == Len(servers) + 1
  <2>1. /\ Len(servers') = n
        /\ \A s \in 1 .. Len(servers) : servers'[s] = servers[s]
        /\ DOMAIN servers'[n].captures.items = {}
        /\ \A i \in 1 .. Len(stores) : stores'[i] = stores[i]
    BY <1>4, ExchangeAdds
  <2>2. \A i \in 1 .. Len(stores') : \A row \in stores'[i].log.rows : row.id <= stores'[i].log.lastId
    <3>1. CASE StorePath(rl[a].cfg) # active.path
      <4> DEFINE m == Len(stores) + 1
      <4>1. Len(stores') = m /\ stores'[m] = OpenStore(active'.path, stores)
        BY <1>4, <3>1, ExchangeAdds
      <4>2. \/ stores'[m].log.rows = {}
            \/ \E i \in 1 .. Len(stores) :
                 /\ stores'[m].log.rows = stores[i].log.rows
                 /\ stores'[m].log.lastId = stores[i].log.lastId
        BY <4>1, OpenTyped DEF TypeOK
      <4>3. \A i \in 1 .. Len(stores') : i \in 1 .. Len(stores) \/ i = m
        BY <1>0, <4>1
      <4>4. \A row \in stores'[m].log.rows : row.id <= stores'[m].log.lastId
        BY <4>2 DEF RowsAndCaptures
      <4> QED BY <2>1, <4>3, <4>4 DEF RowsAndCaptures
    <3>2. CASE ~(StorePath(rl[a].cfg) # active.path)
      <4>1. stores' = stores
        BY <1>4, <3>2, ExchangeAdds
      <4> QED BY <4>1 DEF RowsAndCaptures
    <3> QED BY <3>1, <3>2
  <2>3. \A s \in 1 .. Len(servers) : LogNext(s) = LogOf(s)
    BY <1>0, <2>1 DEF LogOf, LogNext
  <2>4. \A s \in 1 .. Len(servers') : s \in 1 .. Len(servers) \/ s = n
    BY <1>0, <2>1
  <2>5. \A s \in 1 .. Len(servers') : \A id \in DOMAIN servers'[s].captures.items :
          /\ id \in Nat /\ id <= LogNext(s).lastId
          /\ \A row \in LogNext(s).rows : row.id = id =>
               servers'[s].captures.items[id] = CaptureSize[row.req]
    BY <2>1, <2>3, <2>4 DEF RowsAndCaptures
  <2>6. UNCHANGED req
    BY <1>4 DEF Exchange
  <2> QED BY <1>1, <2>2, <2>3, <2>5, <2>6 DEF RowsAndCaptures, LogOf, LogNext
<1>5. ASSUME NEW a \in Reloaders, ShutdownOld(a)
      PROVE  RowsAndCaptures'
  <2>1. rl[a].srv \in 1 .. Len(servers)
    BY <1>5 DEF ShutdownOld, TypeOK, ReloadsTyped, Ending
  <2>2. servers' = ShutdownServer(rl[a].srv) /\ UNCHANGED <<stores, req>>
    BY <1>5 DEF ShutdownOld
  <2>3. /\ Len(servers') = Len(servers)
        /\ \A s \in 1 .. Len(servers) :
             servers'[s].store = servers[s].store /\ servers'[s].captures = servers[s].captures
    BY <2>1, <2>2, ShutLeaves DEF TypeOK
  <2> QED BY <2>2, <2>3, DataStays
<1>6. ASSUME NEW a \in Reloaders, CloseOld(a)
      PROVE  RowsAndCaptures'
  <2>1. rl[a].store \in 1 .. Len(stores) /\ UNCHANGED <<servers, req>>
    BY <1>6 DEF CloseOld, TypeOK, ReloadsTyped, Ending
  <2>2. CASE rl[a].changed
    <3>1. stores' = [stores EXCEPT ![rl[a].store].log = CloseStore(@)]
      BY <1>6, <2>2 DEF CloseOld
    <3>2. /\ Len(stores') = Len(stores)
          /\ \A i \in 1 .. Len(stores) :
               /\ stores'[i].log.rows = stores[i].log.rows
               /\ stores'[i].log.lastId = stores[i].log.lastId
      BY <2>1, <3>1, CloseLeaves DEF TypeOK
    <3> QED BY <2>1, <3>2, DataStays
  <2>3. CASE ~rl[a].changed
    <3>1. UNCHANGED stores
      BY <1>6, <2>3 DEF CloseOld
    <3> QED BY <2>1, <3>1, DataStays
  <2> QED BY <2>2, <2>3
<1>7. ASSUME NEW r \in Requests, Insert(r), Log(r).open
      PROVE  RowsAndCaptures'
  <2> DEFINE at == servers[req[r].srv].store
             last == stores[at].log.lastId
             new == [id |-> last + 1, req |-> r]
  <2>0. UNCHANGED servers /\ Log(r) = stores[at].log
    BY <1>7 DEF Insert, Log
  <2>1. /\ Len(stores') = Len(stores)
        /\ stores'[at].log.rows = stores[at].log.rows \union {new}
        /\ stores'[at].log.lastId = last + 1
        /\ \A j \in 1 .. Len(stores) : j # at => stores'[j] = stores[j]
    BY <1>7, <2>0, InsertLeaves
  <2>2. req[r].step \in Serving
    BY <1>7 DEF Insert, Serving
  <2>3. at \in 1 .. Len(stores) /\ last \in Nat /\ req[r].srv \in 1 .. Len(servers)
    <3>1. at \in 1 .. Len(stores) /\ req[r].srv \in 1 .. Len(servers)
      BY <2>2, ServedTyped
    <3> QED BY <1>0, <3>1 DEF LogType
  <2>4. /\ req'[r].id = last + 1 /\ req'[r].srv = req[r].srv
        /\ \A q \in Requests : q # r => req'[q] = req[q]
    <3> DEFINE st == IF Log(r).memory THEN "prune" ELSE "capture"
               mid == [req[r] EXCEPT !.step = st]
    <3>1. req[r] \in [step : Serving, srv : Nat, id : Nat]
      BY <2>2 DEF TypeOK, RequestsTyped, ReqType, Serving
    <3>2. req' = [[req EXCEPT ![r] = mid] EXCEPT ![r].id = last + 1]
      BY <1>7, <2>0 DEF Insert
    <3>3. DOMAIN req = Requests
      BY DEF TypeOK, RequestsTyped
    <3>4. mid.srv = req[r].srv /\ DOMAIN mid = {"step", "srv", "id"} /\ mid \in [step : {st}, srv : Nat, id : Nat]
      BY <3>1
    <3> HIDE DEF mid, last
    <3>5. req'[r] = [mid EXCEPT !.id = last + 1] /\ \A q \in Requests : q # r => req'[q] = req[q]
      BY <3>2, <3>3
    <3> QED BY <3>4, <3>5
  <2>5. \A row \in stores[at].log.rows : row.id <= last /\ row.id \in Nat
    BY <1>0, <2>3 DEF RowsAndCaptures, LogType, RowType
  <2> HIDE DEF at
  <2>6. \A s \in 1 .. Len(servers) :
          \/ servers[s].store # at /\ LogNext(s) = LogOf(s)
          \/ /\ servers[s].store = at /\ LogOf(s).lastId = last
             /\ LogNext(s).rows = LogOf(s).rows \union {new} /\ LogNext(s).lastId = last + 1
    BY <1>0, <2>0, <2>1 DEF LogOf, LogNext
  <2>7. \A i \in 1 .. Len(stores') : \A row \in stores'[i].log.rows : row.id <= stores'[i].log.lastId
    <3> SUFFICES ASSUME NEW i \in 1 .. Len(stores'), NEW row \in stores'[i].log.rows
                 PROVE  row.id <= stores'[i].log.lastId
      OBVIOUS
    <3>1. CASE i = at
      <4>1. row \in stores[at].log.rows \/ row.id = last + 1
        BY <2>1, <3>1
      <4>2. row.id <= last + 1
        BY <2>3, <2>5, <4>1
      <4> QED BY <2>1, <3>1, <4>2
    <3>2. CASE i # at
      BY <2>1, <3>2 DEF RowsAndCaptures
    <3> QED BY <3>1, <3>2
  <2>8. \A s \in 1 .. Len(servers') : \A id \in DOMAIN servers'[s].captures.items :
          /\ id \in Nat /\ id <= LogNext(s).lastId
          /\ \A row \in LogNext(s).rows : row.id = id =>
               servers'[s].captures.items[id] = CaptureSize[row.req]
    <3> SUFFICES ASSUME NEW s \in 1 .. Len(servers), NEW id \in DOMAIN servers[s].captures.items
                 PROVE  /\ id \in Nat /\ id <= LogNext(s).lastId
                        /\ \A row \in LogNext(s).rows : row.id = id =>
                             servers[s].captures.items[id] = CaptureSize[row.req]
      BY <2>0
    <3>1. /\ id \in Nat /\ id <= LogOf(s).lastId
          /\ \A row \in LogOf(s).rows : row.id = id =>
               servers[s].captures.items[id] = CaptureSize[row.req]
      BY DEF RowsAndCaptures
    <3>2. CASE LogNext(s) = LogOf(s)
      BY <3>1, <3>2
    <3>3. CASE /\ LogOf(s).lastId = last
               /\ LogNext(s).rows = LogOf(s).rows \union {new} /\ LogNext(s).lastId = last + 1
      <4>1. new.id # id /\ id <= last + 1
        BY <2>3, <3>1, <3>3
      <4> HIDE DEF new
      <4> QED BY <3>1, <3>3, <4>1
    <3> QED BY <2>6, <3>2, <3>3
  <2>9. \A q \in Requests : req'[q].step \in {"prune", "capture"} =>
          /\ req'[q].id <= LogNext(req'[q].srv).lastId
          /\ \A row \in LogNext(req'[q].srv).rows : row.id = req'[q].id => row.req = q
    <3> SUFFICES ASSUME NEW q \in Requests, req'[q].step \in {"prune", "capture"}
                 PROVE  /\ req'[q].id <= LogNext(req'[q].srv).lastId
                        /\ \A row \in LogNext(req'[q].srv).rows : row.id = req'[q].id => row.req = q
      OBVIOUS
    <3>1. CASE q = r
      <4>1. /\ LogNext(req[r].srv).rows = stores[at].log.rows \union {new}
            /\ LogNext(req[r].srv).lastId = last + 1
        BY <2>0, <2>1 DEF LogOf, LogNext, at
      <4>2. \A row \in stores[at].log.rows : row.id # last + 1
        BY <2>3, <2>5
      <4>3. new.req = r /\ last + 1 <= last + 1
        BY <2>3
      <4> HIDE DEF new, last
      <4> QED BY <2>4, <3>1, <4>1, <4>2, <4>3
    <3>2. CASE q # r
      <4>1. req'[q] = req[q] /\ req[q].srv \in 1 .. Len(servers)
        BY <1>1, <2>4, <3>2
      <4>2. /\ req[q].id <= LogOf(req[q].srv).lastId /\ req[q].id \in Nat
            /\ \A row \in LogOf(req[q].srv).rows : row.id = req[q].id => row.req = q
        BY <4>1, ServedTyped DEF RowsAndCaptures, Serving
      <4>3. CASE LogNext(req[q].srv) = LogOf(req[q].srv)
        BY <4>1, <4>2, <4>3
      <4>4. CASE /\ LogOf(req[q].srv).lastId = last
                 /\ LogNext(req[q].srv).rows = LogOf(req[q].srv).rows \union {new}
                 /\ LogNext(req[q].srv).lastId = last + 1
        <5>1. new.id # req[q].id /\ req[q].id <= last + 1
          BY <2>3, <4>2, <4>4
        <5> HIDE DEF new
        <5> QED BY <4>1, <4>2, <4>4, <5>1
      <4> QED BY <2>6, <4>1, <4>3, <4>4
    <3> QED BY <3>1, <3>2
  <2> QED BY <2>7, <2>8, <2>9 DEF RowsAndCaptures, LogOf, LogNext
<1>8. ASSUME NEW r \in Requests, Insert(r), ~Log(r).open
      PROVE  RowsAndCaptures'
  <2>1. req'[r].step = "done" /\ \A q \in Requests : q # r => req'[q] = req[q]
    BY <1>8 DEF Insert, TypeOK, RequestsTyped
  <2>2. UNCHANGED <<servers, stores>>
    BY <1>8 DEF Insert
  <2> QED BY <2>1, <2>2 DEF RowsAndCaptures, LogOf
<1>9. ASSUME NEW r \in Requests, Prune(r)
      PROVE  RowsAndCaptures'
  <2>1. UNCHANGED servers /\ req[r].step = "prune"
    BY <1>9 DEF Prune
  <2>2. /\ Len(stores') = Len(stores)
        /\ \A i \in 1 .. Len(stores) :
             /\ stores'[i].log.rows \subseteq stores[i].log.rows
             /\ stores'[i].log.lastId = stores[i].log.lastId
    BY <1>9, PruneLeaves
  <2>3. req' = [req EXCEPT ![r] = [req[r] EXCEPT !.step = "capture"]]
    BY <1>9 DEF Prune
  <2>4. req[r] \in [step : Serving, srv : Nat, id : Nat]
    BY <2>1 DEF TypeOK, RequestsTyped, ReqType, Serving
  <2>5. \A q \in Requests : req'[q].step \in {"prune", "capture"} =>
          /\ req[q].step \in {"prune", "capture"}
          /\ req'[q].id = req[q].id /\ req'[q].srv = req[q].srv
    <3>1. req'[r] = [req[r] EXCEPT !.step = "capture"] /\ \A q \in Requests : q # r => req'[q] = req[q]
      BY <2>3 DEF TypeOK, RequestsTyped
    <3>2. req'[r].id = req[r].id /\ req'[r].srv = req[r].srv
      BY <2>4, <3>1
    <3> QED BY <2>1, <3>1, <3>2
  <2>6. \A s \in 1 .. Len(servers) :
          LogNext(s).rows \subseteq LogOf(s).rows /\ LogNext(s).lastId = LogOf(s).lastId
    BY <1>0, <2>1, <2>2 DEF LogOf, LogNext
  <2>7. \A i \in 1 .. Len(stores') : \A row \in stores'[i].log.rows : row.id <= stores'[i].log.lastId
    BY <2>2 DEF RowsAndCaptures
  <2>8. \A s \in 1 .. Len(servers') : \A id \in DOMAIN servers'[s].captures.items :
          /\ id \in Nat /\ id <= LogNext(s).lastId
          /\ \A row \in LogNext(s).rows : row.id = id =>
               servers'[s].captures.items[id] = CaptureSize[row.req]
    BY <2>1, <2>6 DEF RowsAndCaptures
  <2>9. \A q \in Requests : req'[q].step \in {"prune", "capture"} =>
          /\ req'[q].id <= LogNext(req'[q].srv).lastId
          /\ \A row \in LogNext(req'[q].srv).rows : row.id = req'[q].id => row.req = q
    BY <1>1, <2>5, <2>6 DEF RowsAndCaptures
  <2> QED BY <2>7, <2>8, <2>9 DEF RowsAndCaptures, LogOf, LogNext
<1>10. ASSUME NEW r \in Requests, Capture(r)
       PROVE  RowsAndCaptures'
  <2> DEFINE at == req[r].srv
             old == servers[at].captures
             c == CacheAdd(old, req[r].id, CaptureSize[r])
  <2>1. UNCHANGED stores /\ req[r].step = "capture"
    BY <1>10 DEF Capture
  <2>2. /\ Len(servers') = Len(servers)
        /\ \A t \in 1 .. Len(servers) :
             /\ servers'[t].store = servers[t].store
             /\ servers'[t].captures = IF t = at THEN c ELSE servers[t].captures
    BY <1>10, CaptureGoes
  <2>3. at \in 1 .. Len(servers) /\ req[r].id \in Nat
    BY <2>1, ServedTyped DEF Serving
  <2>4. IsCache(old)
    BY <2>3 DEF TypeOK, ServersTyped, IsServer
  <2>5. \/ c = old
        \/ /\ DOMAIN c.items \subseteq DOMAIN old.items \union {req[r].id}
           /\ c.items[req[r].id] = CaptureSize[r]
           /\ \A k \in DOMAIN c.items : k # req[r].id => c.items[k] = old.items[k]
    BY <2>4, CacheAddKeeps
  <2>6. /\ req[r].id <= LogOf(at).lastId
        /\ \A row \in LogOf(at).rows : row.id = req[r].id => row.req = r
    BY <2>1 DEF RowsAndCaptures
  <2>7. \A id \in DOMAIN old.items :
          /\ id \in Nat /\ id <= LogOf(at).lastId
          /\ \A row \in LogOf(at).rows : row.id = id => old.items[id] = CaptureSize[row.req]
    BY <2>3 DEF RowsAndCaptures
  <2> HIDE DEF c, old
  <2>8. \A id \in DOMAIN c.items :
          /\ id \in Nat /\ id <= LogOf(at).lastId
          /\ \A row \in LogOf(at).rows : row.id = id => c.items[id] = CaptureSize[row.req]
    BY <2>3, <2>5, <2>6, <2>7
  <2>9. \A s \in 1 .. Len(servers) : LogNext(s) = LogOf(s)
    BY <2>1, <2>2 DEF LogOf, LogNext
  <2> HIDE DEF at
  <2>10. \A s \in 1 .. Len(servers') : \A id \in DOMAIN servers'[s].captures.items :
           /\ id \in Nat /\ id <= LogNext(s).lastId
           /\ \A row \in LogNext(s).rows : row.id = id =>
                servers'[s].captures.items[id] = CaptureSize[row.req]
    BY <2>2, <2>8, <2>9 DEF RowsAndCaptures
  <2>11. \A q \in Requests : req'[q].step \in {"prune", "capture"} => req'[q] = req[q]
    BY <1>10 DEF Capture, TypeOK, RequestsTyped
  <2>12. \A q \in Requests : req'[q].step \in {"prune", "capture"} =>
           /\ req'[q].id <= LogNext(req'[q].srv).lastId
           /\ \A row \in LogNext(req'[q].srv).rows : row.id = req'[q].id => row.req = q
    BY <1>1, <2>9, <2>11 DEF RowsAndCaptures
  <2> QED BY <2>1, <2>10, <2>12 DEF RowsAndCaptures, LogOf, LogNext
<1>11. CASE ShutdownActive
  <2>1. term.srv \in 1 .. Len(servers)
    BY DEF TypeOK, ActiveTyped
  <2>2. servers' = ShutdownServer(term.srv) /\ UNCHANGED <<stores, req>>
    BY <1>11 DEF ShutdownActive
  <2>3. /\ Len(servers') = Len(servers)
        /\ \A s \in 1 .. Len(servers) :
             servers'[s].store = servers[s].store /\ servers'[s].captures = servers[s].captures
    BY <2>1, <2>2, ShutLeaves DEF TypeOK
  <2> QED BY <2>2, <2>3, DataStays
<1>12. CASE Exit
  <2>1. term.store \in 1 .. Len(stores)
    BY DEF TypeOK, ActiveTyped
  <2>2. /\ stores' = [stores EXCEPT ![term.store].log = CloseStore(@)] /\ UNCHANGED <<servers, req>>
    BY <1>12 DEF Exit
  <2>3. /\ Len(stores') = Len(stores)
        /\ \A i \in 1 .. Len(stores) :
             /\ stores'[i].log.rows = stores[i].log.rows
             /\ stores'[i].log.lastId = stores[i].log.lastId
    BY <2>1, <2>2, CloseLeaves DEF TypeOK
  <2> QED BY <2>2, <2>3, DataStays
<1> QED BY <1>2, <1>3, <1>4, <1>5, <1>6, <1>7, <1>8, <1>9, <1>10, <1>11, <1>12,
   OthersLeaveObjects, OthersLeaveRequests DEF Serve

-----------------------------------------------------------------------------
(* The invariant.                                                          *)

(* A sequence of one value.                                                *)
LEMMA OneLong ==
    ASSUME NEW x
    PROVE  /\ Len(<<x>>) = 1 /\ <<x>>[1] = x /\ DOMAIN <<x>> = 1 .. 1
           /\ IsSeq(<<x>>)
<1> DEFINE s == <<x>>
<1>1. /\ s \in Seq({x}) /\ Len(s) = 1 /\ s[1] = x /\ DOMAIN s = 1 .. 1
  OBVIOUS
<1> HIDE DEF s
<1>2. IsSeq(s)
  BY <1>1, SeqIsSeq
<1> QED BY <1>1, <1>2 DEF s

(* What the program starts with: one server over one store, both open, at  *)
(* version zero of every source.                                           *)
LEMMA StartsRight ==
    Init => IInv
<1> SUFFICES ASSUME Init PROVE IInv
  OBVIOUS
<1> DEFINE config == [w \in Sources |-> 0]
           log == NewStore(StorePath(config) = "")
           store == [path |-> StorePath(config), log |-> log]
           server == [cfg |-> config, store |-> 1, captures |-> NewCache(CaptureBuffer),
                      shut |-> FALSE]
<1>1. OpenStore(StorePath(config), <<>>) = store
  <2>1. {i \in DOMAIN <<>> : StorePath(config) # "" /\ <<>>[i].path = StorePath(config)} = {}
    OBVIOUS
  <2> QED BY <2>1 DEF OpenStore
<1>2. stores = <<store>> /\ servers = <<server>>
  BY <1>1 DEF Init
<1>3. /\ Len(stores) = 1 /\ stores[1] = store /\ DOMAIN stores = 1 .. 1 /\ IsSeq(stores)
      /\ Len(servers) = 1 /\ servers[1] = server /\ DOMAIN servers = 1 .. 1 /\ IsSeq(servers)
  <2> HIDE DEF store, server
  <2> QED BY <1>2, OneLong
<1>4. log \in LogType /\ log.rows = {} /\ log.open
  BY DEF NewStore, LogType
<1>5. IsStore(store)
  BY <1>4 DEF IsStore
<1>6. IsServer(server) /\ server.captures.items = <<>>
  BY DEF IsServer, IsCache, NewCache, Configs
<1>7. /\ server.cfg = config /\ server.store = 1 /\ ~server.shut /\ store.log = log
      /\ \A i \in 1 .. Len(stores) : stores[i] = store
      /\ \A s \in 1 .. Len(servers) : servers[s] = server
  <2>1. server.cfg = config /\ server.store = 1 /\ ~server.shut /\ store.log = log
    OBVIOUS
  <2> HIDE DEF store, server
  <2>2. \A i \in 1 .. 1 : i = 1
    OBVIOUS
  <2>3. \A i \in 1 .. Len(stores) : stores[i] = store
    BY <1>3, <2>2
  <2>4. \A s \in 1 .. Len(servers) : servers[s] = server
    BY <1>3, <2>2
  <2> QED BY <2>1, <2>3, <2>4
<1> HIDE DEF log, store, server
<1>8. active = [srv |-> 1, store |-> 1, path |-> StorePath(config)]
      /\ active.srv = 1 /\ active.store = 1
  BY DEF Init
<1>9. \A a \in Reloaders : rl[a] = [step |-> "none"]
  BY DEF Init, NoReload
<1>10. \A r \in Requests : req[r] = [step |-> "none"]
  BY DEF Init
<1>11. \A w \in Sources : disk[w] = 0 /\ prev[w] = 0 /\ cur[w] = Missing /\ watcher[w] = "start"
  BY DEF Init
<1>12. edits = 0 /\ phase = "run" /\ reloading = FALSE /\ overlap = FALSE /\ cancelled = {}
  BY DEF Init
<1>13. TypeOK
  <2>1. FilesTyped
    BY DEF Init, FilesTyped, Versions, Missing
  <2>2. ReloadsTyped
    <3>1. rl \in [Reloaders -> RlType]
      BY DEF Init, NoReload, RlType, Resting
    <3>2. \A a \in Reloaders : rl[a].step \notin Ending
      BY <1>9 DEF Ending
    <3> QED BY <1>12, <3>1, <3>2 DEF ReloadsTyped
  <2>3. ServersTyped
    BY <1>3, <1>6, <1>7 DEF ServersTyped
  <2>4. StoresTyped
    BY <1>3, <1>5, <1>7 DEF StoresTyped
  <2>5. ActiveTyped
    <3>1. term = [srv |-> 1, store |-> 1]
      BY DEF Init
    <3> QED BY <1>3, <1>8, <1>12, <3>1 DEF ActiveTyped
  <2>6. RequestsTyped
    <3>1. req \in [Requests -> ReqType]
      BY DEF Init, ReqType
    <3> QED BY <1>10, <3>1 DEF RequestsTyped, Serving
  <2>7. MonitorTyped
    BY DEF Init, MonitorTyped, Off
  <2> QED BY <2>1, <2>2, <2>3, <2>4, <2>5, <2>6, <2>7 DEF TypeOK
<1>14. ActiveStoreOpen
  BY <1>3, <1>4, <1>7, <1>8 DEF ActiveStoreOpen
<1>15. OneReload
  BY <1>9 DEF OneReload, Resting, Reloaders
<1>16. SamplersEnd
  <2>1. CASE PerfOf(config) # "off"
    <3>1. sampler = <<1>> /\ perf.running /\ perf.ctx = 1
      BY <2>1 DEF Init
    <3>2. Len(sampler) = 1 /\ sampler[1] = 1
      BY <3>1
    <3> QED BY <3>1, <3>2 DEF SamplersEnd
  <2>2. CASE PerfOf(config) = "off"
    BY <2>2 DEF Init, SamplersEnd, Off
  <2> QED BY <2>1, <2>2
<1>17. NothingFromTheFuture
  <2>1. \A w \in Sources : servers[active.srv].cfg[w] = 0
    BY <1>3, <1>7, <1>8
  <2> QED BY <1>9, <1>11, <1>12, <2>1 DEF NothingFromTheFuture, Past, Missing, Reading
<1>18. NothingMissed
  BY <1>9, <1>11 DEF NothingMissed, Covers, Reading
<1>19. OldStoreIsOld
  BY <1>9 DEF OldStoreIsOld, Ending
<1>20. Cleaned
  BY <1>3, <1>8 DEF Cleaned
<1>21. Ended
  BY <1>12 DEF Ended
<1>22. RowsAndCaptures
  <2>1. \A i \in 1 .. Len(stores) : stores[i].log.rows = {}
    BY <1>4, <1>7
  <2>2. \A s \in 1 .. Len(servers) : DOMAIN servers[s].captures.items = {}
    BY <1>6, <1>7
  <2> QED BY <1>10, <2>1, <2>2 DEF RowsAndCaptures
<1> QED BY <1>13, <1>14, <1>15, <1>16, <1>17, <1>18, <1>19, <1>20, <1>21, <1>22 DEF IInv

(* The program's invariant is inductive.                                   *)
THEOREM ProgramInvariant == Spec => []IInv
<1>1. IInv /\ [Next]_vars => IInv'
  <2> SUFFICES ASSUME IInv, [Next]_vars PROVE IInv'
    OBVIOUS
  <2>1. /\ TypeOK /\ ActiveStoreOpen /\ OneReload /\ SamplersEnd /\ NothingFromTheFuture
        /\ NothingMissed /\ OldStoreIsOld /\ Cleaned /\ Ended /\ RowsAndCaptures
    BY DEF IInv
  <2>2. TypeOK' /\ ActiveStoreOpen' /\ OneReload'
    BY <2>1, TypesStay, ActiveStoreStaysOpen, OneReloadStays
  <2>3. SamplersEnd' /\ NothingFromTheFuture' /\ NothingMissed'
    BY <2>1, SamplersKeepEnding, FutureStaysOut, NothingMissedStays
  <2>4. OldStoreIsOld' /\ Cleaned' /\ Ended' /\ RowsAndCaptures'
    BY <2>1, OldStoreStaysOld, CleanedStays, EndedStays, RowsAndCapturesStay
  <2> QED BY <2>2, <2>3, <2>4 DEF IInv
<1> QED BY <1>1, StartsRight, PTL DEF Spec

-----------------------------------------------------------------------------
(* What it gives.                                                          *)

(* No request that reaches the active server goes unrecorded: its store is *)
(* open until the exit closes it (llama-swap.go:229).                      *)
THEOREM TheActiveStoreIsOpen == Spec => []ActiveStoreOpen
<1>1. IInv => ActiveStoreOpen
  BY DEF IInv
<1> QED BY <1>1, ProgramInvariant, PTL

(* Every sampler of a stopped monitor waits on a cancelled context, however *)
(* many updates it lived through (perf/monitor.go:128).                    *)
THEOREM NoSamplerStays == Spec => []NoSamplerLeft
<1>1. IInv => NoSamplerLeft
  <2> SUFFICES ASSUME IInv, ~perf.running
               PROVE  \A i \in DOMAIN sampler : sampler[i] \in cancelled \union {Off}
    BY DEF NoSamplerLeft
  <2>1. DOMAIN sampler = 1 .. Len(sampler)
    BY DEF IInv, TypeOK, MonitorTyped
  <2>2. \A i \in 1 .. Len(sampler) : sampler[i] \in cancelled \union {Off}
    BY DEF IInv, SamplersEnd
  <2> QED BY <2>1, <2>2
<1> QED BY <1>1, ProgramInvariant, PTL

(* An exit that no reload overlapped leaves no server running and no store *)
(* open (llama-swap.go:226-233, 331-372).                                  *)
THEOREM TheExitCleansUp == Spec => []ExitCleansUp
<1>1. IInv => ExitCleansUp
  <2> SUFFICES ASSUME IInv, phase = "exited", ~overlap
               PROVE  /\ \A s \in DOMAIN servers : servers[s].shut
                      /\ \A i \in DOMAIN stores : ~stores[i].log.open
    BY DEF ExitCleansUp
  <2>1. DOMAIN servers = 1 .. Len(servers) /\ DOMAIN stores = 1 .. Len(stores)
    BY SeqShape DEF IInv, TypeOK, ServersTyped, StoresTyped
  <2>2. /\ \A a \in Reloaders : rl[a].step \in Resting
        /\ servers[active.srv].shut /\ ~stores[active.store].log.open
    BY DEF IInv, Ended
  <2>3. \A a \in Reloaders : rl[a].step # "shutdown" /\ rl[a].step \notin Ending
    BY <2>2 DEF Resting, Ending
  <2>4. /\ \A s \in 1 .. Len(servers) : servers[s].shut \/ s = active.srv
        /\ \A i \in 1 .. Len(stores) : ~stores[i].log.open \/ i = active.store
    BY <2>3 DEF IInv, Cleaned
  <2> QED BY <2>1, <2>2, <2>4
<1> QED BY <1>1, ProgramInvariant, PTL

(* Watchers at rest that let nothing go have the versions on disk running, *)
(* whichever reloads and signals came between (watcher.go, llama-swap.go:  *)
(* 176).                                                                   *)
THEOREM TheWatchersSeeTheLast == Spec => []WatcherSeesLast
<1>1. IInv => WatcherSeesLast
  <2> SUFFICES ASSUME IInv, AtRest, missed = {}, AllThere(disk)
               PROVE  servers[active.srv].cfg = disk
    BY DEF WatcherSeesLast
  <2> DEFINE cfg == servers[active.srv].cfg
  <2>1. disk \in [Sources -> Versions] /\ cfg \in [Sources -> Nat]
    BY DEF IInv, TypeOK, FilesTyped, ServersTyped, ActiveTyped, IsServer, Configs
  <2>2. \A a \in Reloaders : rl[a].step # "load" /\ rl[a].step \notin Reading
    BY DEF AtRest, Idle, Reading
  <2>3. Covers(cfg)
    BY <2>2 DEF IInv, NothingMissed
  <2>4. \A w \in Sources : disk[w] <= cfg[w]
    BY <2>3 DEF Covers, AtRest
  <2>5. \A w \in Sources : cfg[w] <= disk[w]
    BY DEF IInv, NothingFromTheFuture, Past, AllThere
  <2>6. \A w \in Sources : disk[w] \in Nat
    BY <2>1 DEF Versions, AllThere
  <2> HIDE DEF cfg
  <2>7. \A w \in Sources : cfg[w] = disk[w]
    BY <2>1, <2>4, <2>5, <2>6
  <2>8. cfg = disk
    BY <2>1, <2>7
  <2> QED BY <2>8 DEF cfg
<1> QED BY <1>1, ProgramInvariant, PTL

(* The capture found under the id of a row is that of the row's request,   *)
(* across reloads and changes of the store (metrics.go:98).                *)
THEOREM CapturesMatchRows == Spec => []CaptureMatchesRow
<1>1. IInv => CaptureMatchesRow
  <2> SUFFICES ASSUME IInv PROVE CaptureMatchesRow
    OBVIOUS
  <2>1. DOMAIN servers = 1 .. Len(servers)
    BY SeqShape DEF IInv, TypeOK, ServersTyped
  <2> QED BY <2>1 DEF CaptureMatchesRow, IInv, RowsAndCaptures, LogOf
<1> QED BY <1>1, ProgramInvariant, PTL

=============================================================================
