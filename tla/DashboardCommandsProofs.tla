---------------------- MODULE DashboardCommandsProofs ----------------------
(* Proofs about DashboardCommands, for any number of runs, requests, server *)
(* processes and faults and any size of the table of recent commands.       *)
(*                                                                          *)
(* Shape is the types.  Recorded ties the effects of a request to its       *)
(* receipt: a request whose execution may still begin has had no effect, or *)
(* its run is deleted and the version check refuses it.  Reported ties the  *)
(* answers on their way, in the table and with the page to the effects.     *)
(* Locks is about the page: its token and those of the requests, what the   *)
(* refresh under way has read, whose request each lock and link names, and  *)
(* that a command without an end keeps its lock and its link.               *)
EXTENDS DashboardCommands, TLAPS

Threads == {"idle", "runtime", "execute", "ok", "err"}
Receipts == {"none", "INTENT", "ok", "err"}
Words == {"none", "ok", "err", "refused", "NOT_FOUND", "PROCESSING", "UNAVAILABLE"}
Entries == [st : {"free", "RUNNING", "UNKNOWN"}, req : Nat]
Requests == [kind : Kinds \cup {"prep"}, run : Runs \cup {NoRun}, ver : Nat, tok : Nat]

\* The types of the variables
ServerShape ==
  /\ srv = [life |-> srv.life, ready |-> srv.ready, mem |-> srv.mem, th |-> srv.th, res |-> srv.res]
  /\ srv.life \in Nat /\ srv.ready \in BOOLEAN
  /\ srv.th \in [Req -> Threads] /\ srv.res \in [Req -> {"none", "ok", "err"}]
Disks == [rcpt : [Req -> Receipts], ver : [Runs -> Nat]]
Nets == [Req -> {"none", "way", "there"} \cup Answers]
Calls == [Req -> {"none", "waiting", "done"}]
Hists == [effects : [Req -> Nat], told : [Req -> Words], stray : BOOLEAN]
Pages == [tok : Nat, scope : Nat, lock : [Runs -> Entries], prep : Entries,
          view : [run : Runs \cup {NoRun}, ver : Nat, runs : SUBSET Runs],
          conn : BOOLEAN, rd : {"idle", "session", "state", "digest", "loop"},
          todo : SUBSET (Runs \cup {NoRun})]
Stores == [scope : Nat, links : SUBSET [run : Runs, req : Nat]]
Shape ==
  /\ reqs \in Seq(Requests) /\ Len(reqs) <= MaxReq
  /\ \A r \in Sent : reqs[r].kind = "prep" <=> reqs[r].run = NoRun
  /\ disk \in Disks
  /\ ServerShape
  /\ net \in Nets
  /\ call \in Calls
  /\ page \in Pages
  /\ store \in Stores
  /\ faults \in Nat
  /\ hist \in Hists

\* A request that was never sent has left no trace on the server's side
Unborn(r) ==
  /\ srv.th[r] = "idle" /\ srv.res[r] = "none" /\ disk.rcpt[r] = "none"
  /\ net[r] = "none" /\ call[r] = "none"
  /\ hist.effects[r] = 0 /\ hist.told[r] \notin {"ok", "refused"}

\* Its run is deleted: the version check refuses whatever is sent to it
Buried(r) == reqs[r].kind # "prep" /\ disk.ver[reqs[r].run] = 0

\* Effects against receipts
Recorded(r) ==
  /\ srv.th[r] \in {"execute", "ok", "err"} => disk.rcpt[r] = "INTENT"
  /\ hist.effects[r] <= 1
  /\ hist.effects[r] = 1 /\ (srv.th[r] = "execute" \/ disk.rcpt[r] = "none") => Buried(r)

\* Answers against effects
Reported(r) ==
  /\ disk.rcpt[r] = "ok" \/ srv.th[r] = "ok" => hist.effects[r] = 1
  /\ net[r] = "ok" \/ srv.res[r] = "ok" \/ hist.told[r] = "ok" =>
       hist.effects[r] = 1 /\ (disk.rcpt[r] = "ok" \/ Buried(r))
  /\ hist.told[r] = "refused" => net[r] = "none"
  /\ faults = 0 /\ (net[r] \in {"way", "refused"} \/ hist.told[r] = "refused") =>
       hist.effects[r] = 0 /\ srv.th[r] = "idle"

\* The books of the requests
Books ==
  /\ \A r \in Req \ Sent : Unborn(r)
  /\ \A r \in Sent : Recorded(r) /\ Reported(r)

\* Tokens: the page's is of a process so far, and no request has a later one
Tokens ==
  /\ srv.life > 0 /\ page.tok <= srv.life /\ page.scope <= srv.life
  /\ \A r \in Sent : reqs[r].tok <= srv.life
  /\ page.tok # 0 => page.scope <= page.tok /\ \A r \in Sent : reqs[r].tok <= page.tok

\* What the refresh under way has read
Reading ==
  /\ page.conn => page.tok # 0
  /\ page.rd \in {"session", "state"} => ~page.conn
  /\ page.conn /\ page.view.run # NoRun /\ page.rd # "digest" => page.scope = page.tok
  /\ page.rd = "digest" => page.tok # 0 /\ page.scope # page.tok /\ Existing \subseteq page.view.runs
  /\ page.rd # "loop" => page.todo = {}
  /\ \A u \in page.todo : u = NoRun \/ page.lock[u].st = "UNKNOWN"

\* The locks of the page and the links in sessionStorage name requests of their runs
Named ==
  /\ \A u \in Runs : page.lock[u].st # "free" =>
       /\ page.lock[u].req \in Sent /\ reqs[page.lock[u].req].run = u
       /\ page.scope <= reqs[page.lock[u].req].tok
  /\ \A l \in store.links :
       /\ l.req \in Sent /\ reqs[l.req].run = l.run
       /\ store.scope <= reqs[l.req].tok
  /\ \A l, m \in store.links : l.run = m.run => l = m
  /\ page.scope # 0 => store.scope = page.scope

\* A command whose answer the page waits for holds the lock of its run
Holds(r, S) == page.lock[reqs[r].run].st \in S /\ page.lock[reqs[r].run].req = r
Waiting == ~hist.stray =>
  \A r \in Sent : call[r] = "waiting" /\ reqs[r].kind # "prep" => Holds(r, {"RUNNING"})

\* A command the page knows no end of has a link, and the page holds its
\* lock, or has been reloaded and not yet restored its locks
Undecided(r) ==
  /\ reqs[r].kind # "prep" /\ reqs[r].tok = srv.life /\ disk.ver[reqs[r].run] > 0
  /\ hist.told[r] = "none" /\ disk.rcpt[r] \in {"none", "INTENT"} /\ ~hist.stray
Link(r) == [run |-> reqs[r].run, req |-> r]
Kept(r) ==
  /\ Link(r) \in store.links
  /\ \/ page.scope = srv.life /\ Holds(r, {"RUNNING", "UNKNOWN"})
     \/ /\ page.scope = 0 /\ store.scope = srv.life
        /\ \A u \in Runs : page.lock[u].st = "free"
Linked == \A r \in Sent : Undecided(r) => Kept(r)

-----------------------------------------------------------------------------
(* Type correctness *)

\* What a refresh leaves of a page is a page
LEMMA RefreshedType == ASSUME NEW p \in Pages PROVE Refreshed(p) \in Pages
  BY DEF Refreshed, Pages

LEMMA LoopingType == ASSUME NEW p \in Pages PROVE Looping(p) \in Pages
  <1>1. Unknown(p) \in SUBSET (Runs \cup {NoRun})
    BY DEF Unknown
  <1> QED
    BY <1>1 DEF Looping, Pages

\* What is saved in sessionStorage: links of runs to requests
LEMMA LinksType == ASSUME NEW lock \in [Runs -> Entries] PROVE Links(lock) \in SUBSET [run : Runs, req : Nat]
  BY DEF Links, Entries

\* The locks that come back from sessionStorage
LEMMA RecoveredType ==
  ASSUME store \in Stores, NEW scope, NEW known PROVE Recovered(scope, known) \in [Runs -> Entries]
  <1> DEFINE kept(u) == {l \in store.links : l.run = u /\ u \in known /\ store.scope = scope}
  <1>1. SUFFICES ASSUME NEW u \in Runs
                 PROVE  (IF kept(u) = {} THEN Free ELSE Locked("UNKNOWN", (CHOOSE l \in kept(u) : TRUE).req)) \in Entries
    BY DEF Recovered
  <1>2. CASE kept(u) = {}
    BY <1>2 DEF Free, Entries
  <1>3. CASE kept(u) # {}
    <2>1. (CHOOSE l \in kept(u) : TRUE) \in kept(u)
      BY <1>3
    <2>2. (CHOOSE l \in kept(u) : TRUE).req \in Nat
      BY <2>1 DEF Stores
    <2> QED
      BY <1>3, <2>2 DEF Locked, Entries
  <1> QED
    BY <1>2, <1>3

\* The finally block of a command leaves a page and a store of their types
LEMMA SettledType ==
  ASSUME page \in Pages, store \in Stores, call \in Calls,
         NEW r \in Req, NEW unknown \in BOOLEAN, Settled(r, unknown)
  PROVE  page' \in Pages /\ store' \in Stores /\ call' \in Calls
  <1> DEFINE u == reqs[r].run
             mark(e) == IF unknown /\ e.st # "free" THEN [e EXCEPT !.st = "UNKNOWN"] ELSE e
             freed(e) == IF mark(e).st = "UNKNOWN" THEN mark(e) ELSE Free
             lock == IF u = NoRun THEN page.lock ELSE [page.lock EXCEPT ![u] = freed(@)]
  <1>1. \A e \in Entries : freed(e) \in Entries
    BY DEF Entries, Free
  <1>2. lock \in [Runs -> Entries] /\ freed(page.prep) \in Entries
    <2> HIDE DEF freed
    <2> QED
      BY <1>1 DEF Pages
  <1>3. CASE u = NoRun
    <2>1. page' = Refreshed([page EXCEPT !.prep = freed(@)]) /\ store' = store
      BY <1>3 DEF Settled
    <2>2. [page EXCEPT !.prep = freed(@)] \in Pages
      <3> HIDE DEF freed
      <3> QED
        BY <1>2 DEF Pages
    <2> QED
      BY <2>1, <2>2, RefreshedType DEF Settled, Calls
  <1>4. CASE u # NoRun
    <2>1. page' = Refreshed([page EXCEPT !.lock = lock]) /\ store' = [scope |-> page.scope, links |-> Links(lock)]
      BY <1>4 DEF Settled, Save
    <2>2. [page EXCEPT !.lock = lock] \in Pages
      <3> HIDE DEF lock
      <3> QED
        BY <1>2 DEF Pages
    <2>3. store' \in Stores
      <3> HIDE DEF lock
      <3> QED
        BY <1>2, <2>1, LinksType DEF Stores, Pages
    <2> QED
      BY <2>1, <2>2, <2>3, RefreshedType DEF Settled, Calls
  <1> QED
    BY <1>3, <1>4

LEMMA ShapeInit == Init => Shape
  BY SizesAssumption DEF Init, Shape, ServerShape, Disks, Nets, Calls, Hists, Pages, Stores, FreshPage, Free, NoView, Requests,
                         Entries, Receipts, Threads, Words, Answers, Sent, Req

\* One request more
LEMMA SentOneMore ==
  ASSUME NEW T, reqs \in Seq(T), NEW q \in T, reqs' = Append(reqs, q), Len(reqs) + 1 \in Req
  PROVE  /\ reqs' \in Seq(T) /\ Len(reqs') = Len(reqs) + 1 /\ Len(reqs') <= MaxReq
         /\ \A r \in Sent : reqs'[r] = reqs[r]
         /\ reqs'[Len(reqs) + 1] = q
         /\ Sent' = Sent \cup {Len(reqs) + 1} /\ Len(reqs) + 1 \notin Sent
  <1>1. Len(reqs) \in Nat
    OBVIOUS
  <1>2. reqs' \in Seq(T) /\ Len(reqs') = Len(reqs) + 1
    OBVIOUS
  <1>3. \A r \in Sent : reqs'[r] = reqs[r]
    BY DEF Sent
  <1> QED
    BY <1>1, <1>2, <1>3, SizesAssumption DEF Sent, Req

\* Single updates of the disk, the network, the server and the history
LEMMA DiskUpdates ==
  ASSUME NEW d \in Disks, NEW r \in Req, NEW u, NEW x \in Receipts
  PROVE  [d EXCEPT !.rcpt[r] = x] \in Disks /\ [d EXCEPT !.ver[u] = @ + 1] \in Disks
  BY DEF Disks

LEMMA DeletedType == ASSUME disk \in Disks, NEW u PROVE Deleted(u) \in Disks
  <1>1. [disk.ver EXCEPT ![u] = 0] \in [Runs -> Nat]
    BY DEF Disks
  <1> QED
    BY <1>1 DEF Deleted, Disks, Receipts

LEMMA NetUpdate ==
  ASSUME net \in Nets, NEW r \in Req, NEW x \in {"none", "way", "there"} \cup Answers
  PROVE  [net EXCEPT ![r] = x] \in Nets
  BY DEF Nets

LEMMA EffectType == ASSUME hist \in Hists, NEW r \in Req PROVE [hist EXCEPT !.effects[r] = @ + 1] \in Hists
  BY DEF Hists

\* An execution moves on, whatever else the table and the runtime do
LEMMA ThreadMoves ==
  ASSUME ServerShape, NEW r \in Req, NEW x \in Threads, NEW m, NEW b \in BOOLEAN,
         srv' = [srv EXCEPT !.th[r] = x] \/ srv' = [srv EXCEPT !.th[r] = x, !.ready = b]
         \/ srv' = [srv EXCEPT !.mem = m, !.th[r] = x]
  PROVE  /\ ServerShape' /\ srv'.res = srv.res
         /\ srv'.th[r] = x /\ \A s \in Req \ {r} : srv'.th[s] = srv.th[s]
  <1> USE DEF ServerShape
  <1>1. CASE srv' = [srv EXCEPT !.th[r] = x]
    BY <1>1
  <1>2. CASE srv' = [srv EXCEPT !.th[r] = x, !.ready = b]
    BY <1>2
  <1>3. CASE srv' = [srv EXCEPT !.mem = m, !.th[r] = x]
    BY <1>3
  <1> QED
    BY <1>1, <1>2, <1>3

LEMMA TakenType ==
  ASSUME disk \in Disks, ServerShape, NEW r \in Req, Taken(r)
  PROVE  disk' \in Disks /\ ServerShape'
  <1>1. CASE reqs[r].kind = "prep"
    <2>1. srv' = [srv EXCEPT !.th[r] = "execute"] /\ disk' = [disk EXCEPT !.rcpt[r] = "INTENT"]
      BY <1>1, Zenon DEF Taken
    <2> QED
      BY <2>1, DiskUpdates, ThreadMoves DEF Receipts, Threads
  <1>2. CASE reqs[r].kind # "prep"
    <2>1. srv' = [srv EXCEPT !.mem = Append(Evicted, r), !.th[r] = "runtime"] /\ disk' = disk
      BY <1>2, Zenon DEF Taken
    <2> QED
      BY <2>1, ThreadMoves DEF Threads
  <1> QED
    BY <1>1, <1>2

\* An execution ends with an answer
LEMMA RepliedMoves ==
  ASSUME ServerShape, net \in Nets, NEW r \in Req, NEW a \in {"ok", "err"}, Replied(r, a)
  PROVE  /\ ServerShape' /\ net' \in Nets
         /\ srv'.th[r] = "idle" /\ srv'.res[r] = a
         /\ \/ net[r] = "there" /\ net'[r] = a
            \/ net[r] # "there" /\ net'[r] = net[r]
         /\ \A s \in Req \ {r} : srv'.th[s] = srv.th[s] /\ srv'.res[s] = srv.res[s] /\ net'[s] = net[s]
  <1>1. srv' = [srv EXCEPT !.th[r] = "idle", !.res[r] = a]
    BY DEF Replied
  <1>2. /\ ServerShape' /\ srv'.th[r] = "idle" /\ srv'.res[r] = a
        /\ \A s \in Req \ {r} : srv'.th[s] = srv.th[s] /\ srv'.res[s] = srv.res[s]
    BY <1>1 DEF ServerShape, Threads
  <1>3. /\ net' \in Nets
        /\ net[r] = "there" => net'[r] = a
        /\ net[r] # "there" => net'[r] = net[r]
        /\ \A s \in Req \ {r} : net'[s] = net[s]
    BY DEF Replied, Nets, Answers
  <1> QED
    BY <1>2, <1>3

\* What the page sends
Issued(k) == [kind |-> k, run |-> page.view.run, ver |-> page.view.ver, tok |-> page.tok]
Prepared == [kind |-> "prep", run |-> NoRun, ver |-> 0, tok |-> page.tok]
Grows(q) ==
  /\ reqs' \in Seq(Requests) /\ Len(reqs') <= MaxReq
  /\ \A r \in Sent : reqs'[r] = reqs[r]
  /\ Sent' = Sent \cup {Len(reqs) + 1} /\ Len(reqs) + 1 \in Req \ Sent
  /\ q \in Requests /\ reqs'[Len(reqs) + 1] = q

LEMMA CommandGrows == ASSUME Shape, NEW k \in Kinds, Command(k)
                      PROVE  Grows(Issued(k)) /\ k # "prep" /\ page.view.run \in Runs \ {NoRun}
  <1>1. /\ page.view.run \in Runs /\ page.view.ver \in Nat /\ page.tok \in Nat
    BY DEF Command, Offered, Pages, Shape
  <1>2. k # "prep" /\ page.view.run # NoRun
    BY <1>1, NoRunAssumption, KindsAssumption DEF NoRun
  <1>3. reqs' = Append(reqs, Issued(k)) /\ Len(reqs) + 1 \in Req
    BY DEF Command, Issued
  <1>4. Issued(k) \in Requests
    BY <1>1 DEF Issued, Requests
  <1>5. reqs \in Seq(Requests)
    BY DEF Shape
  <1> QED
    BY <1>1, <1>2, <1>3, <1>4, <1>5, SentOneMore DEF Grows

LEMMA PrepareGrows == ASSUME Shape, Prepare PROVE Grows(Prepared)
  <1>1. reqs' = Append(reqs, Prepared) /\ Len(reqs) + 1 \in Req
    BY DEF Prepare, Prepared
  <1>2. Prepared \in Requests
    BY DEF Shape, Pages, Prepared, Requests
  <1>3. reqs \in Seq(Requests)
    BY DEF Shape
  <1> QED
    BY <1>1, <1>2, <1>3, SentOneMore DEF Grows

LEMMA ShapeStep == Shape /\ [Next]_vars => Shape'
  <1> SUFFICES ASSUME Shape, [Next]_vars PROVE Shape'
    OBVIOUS
  <1> USE NoRunAssumption, KindsAssumption, SizesAssumption
      DEF Shape, ServerShape, Sent
  <1>1. ASSUME NEW k \in Kinds, Command(k)
        PROVE  Shape'
    <2> DEFINE lock == [page.lock EXCEPT ![page.view.run] = Locked("RUNNING", Len(reqs) + 1)]
    <2>1. Grows(Issued(k)) /\ k # "prep" /\ page.view.run \in Runs \ {NoRun}
      BY <1>1, CommandGrows
    <2>2. /\ reqs' \in Seq(Requests) /\ Len(reqs') <= MaxReq
          /\ \A r \in Sent' : reqs'[r].kind = "prep" <=> reqs'[r].run = NoRun
      <3> HIDE DEF Sent
      <3> QED
        BY <2>1 DEF Grows, Issued
    <2>3. lock \in [Runs -> Entries]
      BY <2>1 DEF Pages, Locked, Entries, Grows, Req
    <2>4. page' \in Pages
      <3>1. page' = [page EXCEPT !.lock = lock]
        BY <1>1 DEF Command
      <3> HIDE DEF lock
      <3> QED
        BY <3>1, <2>3 DEF Pages
    <2>5. store' \in Stores
      <3>1. store' = [scope |-> page.scope, links |-> Links(lock)]
        BY <1>1 DEF Command, Save
      <3> HIDE DEF lock
      <3> QED
        BY <3>1, <2>3, LinksType DEF Pages, Stores
    <2>6. net' \in Nets /\ call' \in Calls /\ hist' \in Hists
      BY <1>1 DEF Command, Nets, Calls, Hists
    <2> QED
      BY <1>1, <2>2, <2>4, <2>5, <2>6 DEF Command
  <1>2. CASE Prepare
    <2>1. Grows(Prepared)
      BY <1>2, PrepareGrows
    <2>2. /\ reqs' \in Seq(Requests) /\ Len(reqs') <= MaxReq
          /\ \A r \in Sent' : reqs'[r].kind = "prep" <=> reqs'[r].run = NoRun
      <3> HIDE DEF Sent
      <3> QED
        BY <2>1 DEF Grows, Prepared
    <2>3. page' \in Pages
      <3>1. Locked("RUNNING", Len(reqs) + 1) \in Entries
        BY <2>1 DEF Locked, Entries, Grows, Req
      <3>2. page' = [page EXCEPT !.prep = Locked("RUNNING", Len(reqs) + 1)]
        BY <1>2 DEF Prepare
      <3> QED
        BY <3>1, <3>2 DEF Pages
    <2>4. net' \in Nets /\ call' \in Calls
      BY <1>2 DEF Prepare, Nets, Calls
    <2> QED
      BY <1>2, <2>2, <2>3, <2>4 DEF Prepare
  <1>3. CASE Reload
    BY <1>3 DEF Pages, Entries, Nets, Calls, Reload, FreshPage, Free, NoView, Hung
  <1>4. ASSUME NEW r \in Req, Answer(r)
        PROVE  Shape'
    <2>1. page' \in Pages /\ store' \in Stores /\ call' \in Calls
      BY <1>4, SettledType, Zenon DEF Answer
    <2> QED
      BY <1>4, <2>1 DEF Answer, Nets, Hists, Answers, Words
  <1>5. ASSUME NEW r \in Req, Unanswered(r)
        PROVE  Shape'
    <2>1. page' \in Pages /\ store' \in Stores /\ call' \in Calls
      BY <1>5, SettledType, Zenon DEF Unanswered
    <2> QED
      BY <1>5, <2>1 DEF Unanswered, Nets, Hung
  <1>6. CASE Refresh
    BY <1>6, RefreshedType DEF Refresh
  <1>7. CASE ReadFails
    BY <1>7 DEF Pages, ReadFails
  <1>8. CASE ReadSession
    BY <1>8 DEF Pages, ServerShape, ReadSession
  <1>9. CASE ReadRefused
    BY <1>9 DEF Pages, ReadRefused
  <1>10. CASE ReadState
    <2>1. PICK u \in Existing \cup {NoRun} :
            LET p == [page EXCEPT !.conn = TRUE, !.view = Viewed(u)] IN
            page' = IF p.scope = p.tok THEN Looping(p) ELSE [p EXCEPT !.rd = "digest"]
      BY <1>10 DEF ReadState
    <2> DEFINE p == [page EXCEPT !.conn = TRUE, !.view = Viewed(u)]
    <2>2. p \in Pages
      BY DEF Pages, Disks, NoRun, Viewed, Existing
    <2>3. page' \in Pages
      <3>1. page' = IF p.scope = p.tok THEN Looping(p) ELSE [p EXCEPT !.rd = "digest"]
        BY <2>1
      <3> HIDE DEF p
      <3> QED
        BY <2>2, <3>1, LoopingType DEF Pages
    <2> QED
      BY <1>10, <2>3 DEF ReadState, ServerShape
  <1>11. CASE ReadUnavailable
    <2>1. [page EXCEPT !.conn = TRUE, !.view = NoView] \in Pages
      BY DEF Pages, NoView
    <2> QED
      BY <1>11, <2>1, LoopingType DEF ReadUnavailable, Faulty
  <1>12. CASE Restore
    <2> DEFINE lock == Recovered(page.tok, page.view.runs)
    <2>1. lock \in [Runs -> Entries]
      BY RecoveredType
    <2>2. /\ page' = Looping([page EXCEPT !.scope = page.tok, !.lock = lock])
          /\ store' = [scope |-> page.tok, links |-> Links(lock)]
      BY <1>12 DEF Restore, Save
    <2>3. page' \in Pages /\ store' \in Stores
      <3> HIDE DEF lock
      <3>1. [page EXCEPT !.scope = page.tok, !.lock = lock] \in Pages
        BY <2>1 DEF Pages
      <3> QED
        BY <2>1, <2>2, <3>1, LoopingType, LinksType DEF Pages, Stores
    <2> QED
      BY <1>12, <2>3 DEF Restore, Hists
  <1>13. CASE ReadDone
    BY <1>13 DEF Pages, ReadDone
  <1>14. ASSUME NEW u \in Runs \cup {NoRun}, AskReceipt(u)
        PROVE  Shape'
    <2> DEFINE entry == IF u = NoRun THEN page.prep ELSE page.lock[u]
             s == Status(entry.req)
             freed == s \in {"COMPLETED", "FAILED"} \/ (u = NoRun /\ s = "NOT_FOUND")
             lock == IF freed /\ u # NoRun THEN [page.lock EXCEPT ![u] = Free] ELSE page.lock
    <2>1. lock \in [Runs -> Entries] /\ Free \in Entries
      BY DEF Pages, Free, Entries
    <2>2. page' \in Pages
      <3>1. page' = [page EXCEPT !.todo = @ \ {u}, !.lock = lock, !.prep = IF freed /\ u = NoRun THEN Free ELSE @]
        BY <1>14, Zenon DEF AskReceipt
      <3> HIDE DEF lock, freed, s, entry
      <3> QED
        BY <2>1, <3>1 DEF Pages
    <2>3. store' \in Stores
      <3>1. IF freed /\ u # NoRun THEN store' = [scope |-> page.scope, links |-> Links(lock)] ELSE store' = store
        BY <1>14, Zenon DEF AskReceipt, Save
      <3> HIDE DEF lock, freed, s, entry
      <3> QED
        BY <2>1, <3>1, LinksType DEF Pages, Stores
    <2>4. hist' \in Hists
      <3>1. freed => Told(s) \in Words
        BY DEF Told, Words
      <3>2. hist' = IF freed THEN [hist EXCEPT !.told[entry.req] = Told(s)] ELSE hist
        BY <1>14 DEF AskReceipt
      <3> HIDE DEF freed, s, entry
      <3> QED
        BY <3>1, <3>2 DEF Hists
    <2> QED
      BY <1>14, <2>2, <2>3, <2>4 DEF AskReceipt
  <1>15. ASSUME NEW r \in Req, Accept(r)
         PROVE  Shape'
    BY <1>15, TakenType, NetUpdate DEF Accept, Heard
  <1>16. ASSUME NEW r \in Req, Join(r)
         PROVE  Shape'
    BY <1>16, NetUpdate DEF Join, Heard, Done, ServerShape, Answers
  <1>17. ASSUME NEW r \in Req, Refuse(r)
         PROVE  Shape'
    BY <1>17, NetUpdate DEF Refuse, Heard, Answers
  <1>18. ASSUME NEW r \in Req, Copy(r)
         PROVE  Shape'
    BY <1>18, TakenType DEF Copy, Faulty
  <1>19. ASSUME NEW r \in Req, Begin(r)
         PROVE  Shape'
    BY <1>19, DiskUpdates, ThreadMoves DEF Begin, Receipts, Threads
  <1>20. ASSUME NEW r \in Req, Replay(r)
         PROVE  Shape'
    BY <1>20, RepliedMoves DEF Replay, Answered
  <1>21. ASSUME NEW r \in Req, NoRuntime(r)
         PROVE  Shape'
    BY <1>21, RepliedMoves DEF NoRuntime
  <1>22. ASSUME NEW r \in Req, Execute(r)
         PROVE  Shape'
    <2>1. PICK out \in {"ok", "err"} : srv' = [srv EXCEPT !.th[r] = out]
      BY <1>22, Zenon DEF Execute
    <2>2. ServerShape'
      BY <2>1, ThreadMoves DEF Threads
    <2>3. disk' \in {Deleted(reqs[r].run), [disk EXCEPT !.ver[reqs[r].run] = @ + 1], disk}
      BY <1>22 DEF Execute
    <2>4. disk' \in Disks
      <3>1. [disk EXCEPT !.ver[reqs[r].run] = @ + 1] \in Disks
        BY DiskUpdates DEF Receipts
      <3> QED
        BY <2>3, <3>1, DeletedType
    <2>5. hist' \in Hists
      BY <1>22, EffectType DEF Execute
    <2> QED
      BY <1>22, <2>2, <2>4, <2>5 DEF Execute
  <1>23. ASSUME NEW r \in Req, Reject(r)
         PROVE  Shape'
    BY <1>23, ThreadMoves DEF Reject, Threads
  <1>24. ASSUME NEW r \in Req, Finish(r)
         PROVE  Shape'
    BY <1>24, DiskUpdates, RepliedMoves DEF Finish, Receipts
  <1>25. ASSUME NEW r \in Req, FinishFails(r)
         PROVE  Shape'
    BY <1>25, RepliedMoves DEF FinishFails, Faulty
  <1>26. CASE Restart
    BY <1>26 DEF ServerShape, Nets, Threads, Restart
  <1>27. CASE UNCHANGED vars
    BY <1>27 DEF vars
  <1> QED
    BY <1>1, <1>2, <1>3, <1>4, <1>5, <1>6, <1>7, <1>8, <1>9, <1>10, <1>11, <1>12, <1>13, <1>14, <1>15, <1>16, <1>17, <1>18, <1>19, <1>20, <1>21, <1>22, <1>23, <1>24, <1>25, <1>26, <1>27 DEF Next
-----------------------------------------------------------------------------
(* A request takes effect at most once, and what the page is told is so *)

LEMMA SentSame == Shape => Sent \subseteq Req /\ (reqs' = reqs => Sent' = Sent)
  <1> SUFFICES ASSUME Shape PROVE Sent \subseteq Req /\ (reqs' = reqs => Sent' = Sent)
    OBVIOUS
  <1>1. Len(reqs) \in Nat /\ Len(reqs) <= MaxReq
    BY DEF Shape
  <1> QED
    BY <1>1, SizesAssumption DEF Sent, Req

\* A command, as opposed to a preparation, names a run
LEMMA RunOfCommand == Shape => \A r \in Sent : reqs[r].kind # "prep" => reqs[r].run \in Runs
  <1> SUFFICES ASSUME Shape, NEW r \in Sent, reqs[r].kind # "prep" PROVE reqs[r].run \in Runs
    OBVIOUS
  <1>1. reqs[r] \in Requests
    BY DEF Shape, Sent
  <1>2. reqs[r].run # NoRun
    BY DEF Shape
  <1> QED
    BY <1>1, <1>2 DEF Requests

LEMMA TakenMoves ==
  ASSUME Shape, NEW r \in Req, Taken(r)
  PROVE  /\ disk'.ver = disk.ver /\ srv'.res = srv.res
         /\ \A s \in Req \ {r} : disk'.rcpt[s] = disk.rcpt[s] /\ srv'.th[s] = srv.th[s]
         /\ \/ reqs[r].kind = "prep" /\ disk.rcpt[r] = "none" /\ disk'.rcpt[r] = "INTENT" /\ srv'.th[r] = "execute"
            \/ disk'.rcpt[r] = disk.rcpt[r] /\ srv'.th[r] = "runtime"
  <1>1. CASE reqs[r].kind = "prep"
    BY <1>1 DEF Taken, Shape, Disks, ServerShape
  <1>2. CASE reqs[r].kind # "prep"
    <2>1. srv' = [srv EXCEPT !.mem = Append(Evicted, r), !.th[r] = "runtime"] /\ disk' = disk
      BY <1>2, Zenon DEF Taken
    <2> QED
      BY <2>1 DEF Shape, ServerShape
  <1> QED
    BY <1>1, <1>2

\* The disk when a command executes: a deleted run stays deleted, and only the deletion of its run removes a receipt
LEMMA ExecuteMoves ==
  ASSUME Shape, NEW r \in Req, Execute(r)
  PROVE  /\ \A v \in Runs : disk.ver[v] = 0 => disk'.ver[v] = 0
         /\ \A s \in Req : \/ disk'.rcpt[s] = disk.rcpt[s]
                            \/ /\ disk.rcpt[s] \in {"ok", "err"} /\ disk'.rcpt[s] = "none"
                               /\ s \in Sent /\ reqs[s].kind # "prep" /\ disk'.ver[reqs[s].run] = 0
  <1> DEFINE q == reqs[r]
  <1>1. /\ r \in Sent /\ Current(q)
        /\ \/ q.kind = "delete" /\ disk' = Deleted(q.run)
           \/ q.kind \in {"act", "note"} /\ disk' = [disk EXCEPT !.ver[q.run] = @ + 1]
           \/ disk' = disk
    BY DEF Execute
  <1>2. q.kind # "prep" => q.run \in Runs
    BY <1>1, RunOfCommand
  <1>3. CASE q.kind = "delete" /\ disk' = Deleted(q.run)
    <2>1. q.run \in Runs
      BY <1>2, <1>3
    <2>2. disk'.ver = [disk.ver EXCEPT ![q.run] = 0]
      BY <1>3 DEF Deleted
    <2>3. \A s \in Req : disk'.rcpt[s] = IF s \in Sent /\ reqs[s].run = q.run /\ disk.rcpt[s] \in {"ok", "err"}
                                       THEN "none" ELSE disk.rcpt[s]
      BY <1>3 DEF Deleted
    <2>4. \A s \in Sent : reqs[s].run = q.run => reqs[s].kind # "prep"
      BY <2>1, NoRunAssumption DEF Shape, NoRun
    <2>5. disk.ver \in [Runs -> Nat]
      BY DEF Shape, Disks
    <2> HIDE DEF q
    <2> QED
      BY <2>1, <2>2, <2>3, <2>4, <2>5
  <1>4. CASE q.kind \in {"act", "note"} /\ disk' = [disk EXCEPT !.ver[q.run] = @ + 1]
    <2>1. q.run \in Runs /\ disk.ver[q.run] > 0
      BY <1>1, <1>2, <1>4 DEF Current
    <2> HIDE DEF q
    <2> QED
      BY <1>4, <2>1 DEF Shape, Disks
  <1> QED
    BY <1>1, <1>3, <1>4

\* The step leaves the runs alone, and every request but r
Touches(r) ==
  /\ r \in Sent /\ reqs' = reqs /\ disk'.ver = disk.ver /\ (faults' = 0 => faults = 0)
  /\ \A s \in Req \ {r} :
       /\ disk'.rcpt[s] = disk.rcpt[s] /\ srv'.th[s] = srv.th[s] /\ srv'.res[s] = srv.res[s]
       /\ net'[s] = net[s] /\ call'[s] = call[s]
       /\ hist'.effects[s] = hist.effects[s] /\ hist'.told[s] = hist.told[s]

\* Then the books are kept if those of r are
LEMMA TouchesOne ==
  ASSUME Shape, Books, NEW r \in Req, Touches(r),
         Recorded(r) /\ Reported(r) => (Recorded(r) /\ Reported(r))'
  PROVE  Books'
  <1>1. Sent \subseteq Req /\ Sent' = Sent
    BY SentSame DEF Touches
  <1>2. \A s \in Req \ Sent : Unborn(s)'
    BY DEF Books, Unborn, Touches
  <1>3. \A s \in Sent \ {r} : (Recorded(s) /\ Reported(s))'
    BY <1>1 DEF Books, Recorded, Reported, Buried, Touches
  <1> QED
    BY <1>1, <1>2, <1>3 DEF Books, Touches

LEMMA BooksStep == Shape /\ Books /\ [Next]_vars => Books'
  <1> SUFFICES ASSUME Shape, Books, [Next]_vars PROVE Books'
    OBVIOUS
  <1>1. ASSUME NEW k \in Kinds, Command(k)
        PROVE  Books'
    <2>0. PICK n \in Req : n = Len(reqs) + 1
      BY <1>1, CommandGrows DEF Grows
    <2>1. n \in Req /\ n \notin Sent /\ Sent' = Sent \cup {n} /\ (\A r \in Sent : reqs'[r] = reqs[r])
      BY <1>1, <2>0, CommandGrows DEF Grows
    <2>2. /\ disk' = disk /\ srv' = srv /\ faults' = faults
          /\ hist'.effects = hist.effects /\ hist'.told = hist.told
          /\ \A r \in Req \ {n} : net'[r] = net[r] /\ call'[r] = call[r]
          /\ net'[n] = "way"
      BY <1>1, <2>0, <2>1 DEF Command, Shape, Nets, Calls, Hists
    <2>3. Sent \subseteq Req
      BY SentSame
    <2>4. \A s \in Req \ Sent' : Unborn(s)'
      BY <2>1, <2>2 DEF Books, Unborn
    <2>5. \A s \in Sent : (Recorded(s) /\ Reported(s))'
      BY <2>1, <2>2, <2>3 DEF Books, Recorded, Reported, Buried
    <2>6. (Recorded(n) /\ Reported(n))'
      BY <2>1, <2>2 DEF Books, Unborn, Recorded, Reported
    <2> QED
      BY <2>1, <2>4, <2>5, <2>6 DEF Books
  <1>2. CASE Prepare
    <2>0. PICK n \in Req : n = Len(reqs) + 1
      BY <1>2, PrepareGrows DEF Grows
    <2>1. n \in Req /\ n \notin Sent /\ Sent' = Sent \cup {n} /\ (\A r \in Sent : reqs'[r] = reqs[r])
      BY <1>2, <2>0, PrepareGrows DEF Grows
    <2>2. /\ disk' = disk /\ srv' = srv /\ faults' = faults
          /\ hist'.effects = hist.effects /\ hist'.told = hist.told
          /\ \A r \in Req \ {n} : net'[r] = net[r] /\ call'[r] = call[r]
          /\ net'[n] = "way"
      BY <1>2, <2>0, <2>1 DEF Prepare, Shape, Nets, Calls, Hists
    <2>3. Sent \subseteq Req
      BY SentSame
    <2>4. \A s \in Req \ Sent' : Unborn(s)'
      BY <2>1, <2>2 DEF Books, Unborn
    <2>5. \A s \in Sent : (Recorded(s) /\ Reported(s))'
      BY <2>1, <2>2, <2>3 DEF Books, Recorded, Reported, Buried
    <2>6. (Recorded(n) /\ Reported(n))'
      BY <2>1, <2>2 DEF Books, Unborn, Recorded, Reported
    <2> QED
      BY <2>1, <2>4, <2>5, <2>6 DEF Books
  <1>3. CASE Reload
    <2>1. UNCHANGED <<reqs, disk, srv, faults, hist>>
      BY <1>3, Zenon DEF Reload
    <2>2. \A s \in Req : net'[s] = Hung(s) /\ (call[s] = "none" => call'[s] = "none")
      BY <1>3 DEF Reload
    <2> QED
      BY <1>3, SentSame, <2>1, <2>2 DEF Books, Unborn, Recorded, Reported, Buried, Hung
  <1>4. ASSUME NEW r \in Req, Answer(r)
        PROVE  Books'
    <2>1. Touches(r)
      BY <1>4 DEF Answer, Settled, Touches, Shape, Nets, Hists, Calls
    <2>2. UNCHANGED <<reqs, faults>>
      BY <1>4, Zenon DEF Answer
    <2>3. disk' = disk /\ srv' = srv /\ net[r] \in Answers
      BY <1>4, Zenon DEF Answer
    <2>4. net'[r] = "none" /\ hist'.told[r] = net[r] /\ hist'.effects[r] = hist.effects[r]
      BY <1>4 DEF Answer, Shape, Nets, Hists
    <2> QED
      BY TouchesOne, <2>1, <2>2, <2>3, <2>4 DEF Recorded, Reported, Buried, Answers
  <1>5. ASSUME NEW r \in Req, Unanswered(r)
        PROVE  Books'
    <2>1. Touches(r)
      BY <1>5 DEF Unanswered, Settled, Touches, Shape, Nets, Calls
    <2>2. UNCHANGED <<reqs, faults>>
      BY <1>5, Zenon DEF Unanswered
    <2>3. disk' = disk /\ srv' = srv /\ hist' = hist
      BY <1>5, Zenon DEF Unanswered
    <2>4. net'[r] = net[r] \/ net'[r] = "none"
      BY <1>5 DEF Unanswered, Shape, Nets, Hung
    <2> QED
      BY TouchesOne, <2>1, <2>2, <2>3, <2>4 DEF Recorded, Reported, Buried
  <1>6. CASE Refresh
    <2>1. UNCHANGED <<reqs, disk, srv, net, call, hist>> /\ (faults' = 0 => faults = 0)
      BY <1>6, Zenon DEF Refresh
    <2> QED
      BY <1>6, SentSame, <2>1 DEF Books, Unborn, Recorded, Reported, Buried
  <1>7. CASE ReadFails
    <2>1. UNCHANGED <<reqs, disk, srv, net, call, hist>> /\ (faults' = 0 => faults = 0)
      BY <1>7, Zenon DEF ReadFails
    <2> QED
      BY <1>7, SentSame, <2>1 DEF Books, Unborn, Recorded, Reported, Buried
  <1>8. CASE ReadSession
    <2>1. UNCHANGED <<reqs, disk, srv, net, call, hist>> /\ (faults' = 0 => faults = 0)
      BY <1>8, Zenon DEF ReadSession
    <2> QED
      BY <1>8, SentSame, <2>1 DEF Books, Unborn, Recorded, Reported, Buried
  <1>9. CASE ReadRefused
    <2>1. UNCHANGED <<reqs, disk, srv, net, call, hist>> /\ (faults' = 0 => faults = 0)
      BY <1>9, Zenon DEF ReadRefused
    <2> QED
      BY <1>9, SentSame, <2>1 DEF Books, Unborn, Recorded, Reported, Buried
  <1>10. CASE ReadState
    <2>1. UNCHANGED <<reqs, disk, net, call, faults, hist>>
      BY <1>10, Zenon DEF ReadState
    <2>2. \A s \in Req : srv'.th[s] = srv.th[s] /\ srv'.res[s] = srv.res[s]
      BY <1>10 DEF ReadState, Shape, ServerShape
    <2> QED
      BY <1>10, SentSame, <2>1, <2>2 DEF Books, Unborn, Recorded, Reported, Buried
  <1>11. CASE ReadUnavailable
    <2>1. UNCHANGED <<reqs, disk, srv, net, call, hist>> /\ (faults' = 0 => faults = 0)
      BY <1>11 DEF ReadUnavailable, Faulty, Shape
    <2> QED
      BY <1>11, SentSame, <2>1 DEF Books, Unborn, Recorded, Reported, Buried
  <1>12. CASE Restore
    <2>1. UNCHANGED <<reqs, disk, srv, net, call, faults>>
      BY <1>12, Zenon DEF Restore
    <2>2. \A s \in Req : hist'.told[s] = hist.told[s] /\ hist'.effects[s] = hist.effects[s]
      BY <1>12 DEF Restore, Shape, Hists
    <2> QED
      BY <1>12, SentSame, <2>1, <2>2 DEF Books, Unborn, Recorded, Reported, Buried
  <1>13. CASE ReadDone
    <2>1. UNCHANGED <<reqs, disk, srv, net, call, hist>> /\ (faults' = 0 => faults = 0)
      BY <1>13, Zenon DEF ReadDone
    <2> QED
      BY <1>13, SentSame, <2>1 DEF Books, Unborn, Recorded, Reported, Buried
  <1>14. ASSUME NEW u \in Runs \cup {NoRun}, AskReceipt(u)
        PROVE  Books'
    <2>1. UNCHANGED <<reqs, disk, srv, net, call, faults>>
      BY <1>14, Zenon DEF AskReceipt
    <2>2. \A s \in Req : /\ hist'.effects[s] = hist.effects[s]
                       /\ \/ hist'.told[s] = hist.told[s]
                          \/ hist'.told[s] \in {"err", "NOT_FOUND"}
                          \/ hist'.told[s] = "ok" /\ disk.rcpt[s] = "ok"
      <3> DEFINE entry == IF u = NoRun THEN page.prep ELSE page.lock[u]
                 c == Status(entry.req)
                 freed == c \in {"COMPLETED", "FAILED"} \/ (u = NoRun /\ c = "NOT_FOUND")
      <3>1. hist' = IF freed THEN [hist EXCEPT !.told[entry.req] = Told(c)] ELSE hist
        BY <1>14, Zenon DEF AskReceipt
      <3>2. freed => Told(c) \in {"err", "NOT_FOUND"} \/ (Told(c) = "ok" /\ disk.rcpt[entry.req] = "ok")
        BY DEF Told, Status
      <3> HIDE DEF freed, c, entry
      <3> QED
        BY <3>1, <3>2 DEF Shape, Hists
    <2>3. \A s \in Req \ Sent : disk.rcpt[s] # "ok"
      BY DEF Books, Unborn
    <2> QED
      BY <1>14, SentSame, <2>1, <2>2, <2>3 DEF Books, Unborn, Recorded, Reported, Buried
  <1>15. ASSUME NEW r \in Req, Accept(r)
        PROVE  Books'
    <2>1. Touches(r)
      BY <1>15, TakenMoves DEF Accept, Touches, Shape, Nets
    <2>2. UNCHANGED <<reqs, faults>>
      BY <1>15, Zenon DEF Accept
    <2>3. hist' = hist /\ faults' = faults /\ net[r] = "way" /\ Taken(r)
      BY <1>15, Zenon DEF Accept
    <2>4. net'[r] \in {"there", "none"}
      BY <1>15 DEF Accept, Heard, Shape, Nets
    <2> QED
      BY TouchesOne, TakenMoves, <2>1, <2>2, <2>3, <2>4 DEF Recorded, Reported, Buried
  <1>16. ASSUME NEW r \in Req, Join(r)
        PROVE  Books'
    <2>1. Touches(r)
      BY <1>16 DEF Join, Touches, Shape, Nets
    <2>2. UNCHANGED <<reqs, faults>>
      BY <1>16, Zenon DEF Join
    <2>3. disk' = disk /\ srv' = srv /\ hist' = hist /\ net[r] = "way"
      BY <1>16, Zenon DEF Join
    <2>4. net'[r] \in {srv.res[r], "there", "none"}
      BY <1>16 DEF Join, Heard, Shape, Nets
    <2> QED
      BY TouchesOne, <2>1, <2>2, <2>3, <2>4 DEF Recorded, Reported, Buried
  <1>17. ASSUME NEW r \in Req, Refuse(r)
        PROVE  Books'
    <2>1. Touches(r)
      BY <1>17 DEF Refuse, Touches, Shape, Nets
    <2>2. UNCHANGED <<reqs, faults>>
      BY <1>17, Zenon DEF Refuse
    <2>3. disk' = disk /\ srv' = srv /\ hist' = hist /\ net[r] = "way"
      BY <1>17, Zenon DEF Refuse
    <2>4. net'[r] \in {"refused", "none"}
      BY <1>17 DEF Refuse, Heard, Shape, Nets
    <2> QED
      BY TouchesOne, <2>1, <2>2, <2>3, <2>4 DEF Recorded, Reported, Buried
  <1>18. ASSUME NEW r \in Req, Copy(r)
        PROVE  Books'
    <2>1. Touches(r)
      BY <1>18, TakenMoves DEF Copy, Touches, Faulty, Shape
    <2>2. reqs' = reqs /\ faults' # 0
      BY <1>18 DEF Copy, Faulty, Shape
    <2>3. hist' = hist /\ net' = net /\ Taken(r)
      BY <1>18, Zenon DEF Copy
    <2> QED
      BY TouchesOne, TakenMoves, <2>1, <2>2, <2>3 DEF Recorded, Reported, Buried
  <1>19. ASSUME NEW r \in Req, Begin(r)
        PROVE  Books'
    <2>1. /\ UNCHANGED <<reqs, net, call, faults, hist>> /\ r \in Sent
          /\ srv.th[r] = "runtime" /\ disk.rcpt[r] = "none"
          /\ srv' = [srv EXCEPT !.th[r] = "execute", !.ready = TRUE]
          /\ disk' = [disk EXCEPT !.rcpt[r] = "INTENT"]
      BY <1>19, Zenon DEF Begin
    <2>2. /\ srv'.res = srv.res /\ srv'.th[r] = "execute"
          /\ \A s \in Req \ {r} : srv'.th[s] = srv.th[s]
      BY <2>1, ThreadMoves DEF Shape, Threads
    <2>3. /\ disk'.ver = disk.ver /\ disk'.rcpt[r] = "INTENT"
          /\ \A s \in Req \ {r} : disk'.rcpt[s] = disk.rcpt[s]
      BY <2>1 DEF Shape, Disks
    <2>4. Touches(r)
      BY <2>1, <2>2, <2>3 DEF Touches
    <2> QED
      BY TouchesOne, <2>1, <2>2, <2>3, <2>4 DEF Recorded, Reported, Buried
  <1>20. ASSUME NEW r \in Req, Replay(r)
        PROVE  Books'
    <2>1. UNCHANGED <<reqs, disk, call, hist>> /\ r \in Sent /\ srv.th[r] = "runtime"
      BY <1>20, Zenon DEF Replay
    <2>2. faults' = 0 => faults = 0
      BY <1>20 DEF Replay, Faulty, Shape
    <2>3. Replied(r, Answered(r)) /\ Answered(r) \in {"ok", "err"}
      BY <1>20, Zenon DEF Replay, Answered
    <2>4. Touches(r)
      BY <2>1, <2>2, <2>3, RepliedMoves DEF Touches, Shape
    <2>5. /\ srv'.th[r] = "idle" /\ srv'.res[r] = Answered(r)
          /\ \/ net[r] = "there" /\ net'[r] = Answered(r)
             \/ net[r] # "there" /\ net'[r] = net[r]
      BY <2>3, RepliedMoves DEF Shape
    <2> QED
      BY TouchesOne, <2>1, <2>2, <2>4, <2>5 DEF Recorded, Reported, Buried, Answered
  <1>21. ASSUME NEW r \in Req, NoRuntime(r)
        PROVE  Books'
    <2>1. UNCHANGED <<reqs, disk, call, hist>> /\ r \in Sent /\ srv.th[r] = "runtime"
      BY <1>21, Zenon DEF NoRuntime
    <2>2. faults' = 0 => faults = 0
      BY <1>21 DEF NoRuntime, Faulty, Shape
    <2>3. Replied(r, "err") /\ "err" \in {"ok", "err"}
      BY <1>21, Zenon DEF NoRuntime, Answered
    <2>4. Touches(r)
      BY <2>1, <2>2, <2>3, RepliedMoves DEF Touches, Shape
    <2>5. /\ srv'.th[r] = "idle" /\ srv'.res[r] = "err"
          /\ \/ net[r] = "there" /\ net'[r] = "err"
             \/ net[r] # "there" /\ net'[r] = net[r]
      BY <2>3, RepliedMoves DEF Shape
    <2> QED
      BY TouchesOne, <2>1, <2>2, <2>4, <2>5 DEF Recorded, Reported, Buried
  <1>22. ASSUME NEW r \in Req, Execute(r)
        PROVE  Books'
    <2>1. /\ UNCHANGED <<reqs, net, call, faults>> /\ r \in Sent
          /\ srv.th[r] = "execute" /\ Current(reqs[r])
      BY <1>22, Zenon DEF Execute
    <2>2. /\ srv'.res = srv.res /\ srv'.th[r] \in {"ok", "err"}
          /\ \A s \in Req \ {r} : srv'.th[s] = srv.th[s]
      <3>1. PICK out \in {"ok", "err"} : srv' = [srv EXCEPT !.th[r] = out]
        BY <1>22, Zenon DEF Execute
      <3> QED
        BY <3>1, ThreadMoves DEF Shape, Threads
    <2>3. /\ hist'.effects[r] = hist.effects[r] + 1 /\ hist'.told = hist.told
          /\ \A s \in Req \ {r} : hist'.effects[s] = hist.effects[s]
      BY <1>22 DEF Execute, Shape, Hists
    <2>4. hist.effects[r] = 0
      BY <2>1 DEF Books, Recorded, Buried, Current, Shape, Hists
    <2>5. \A v \in Runs : disk.ver[v] = 0 => disk'.ver[v] = 0
      BY <1>22, ExecuteMoves
    <2>6. \A s \in Req : \/ disk'.rcpt[s] = disk.rcpt[s]
                       \/ /\ disk.rcpt[s] \in {"ok", "err"} /\ disk'.rcpt[s] = "none"
                          /\ s \in Sent /\ reqs[s].kind # "prep" /\ disk'.ver[reqs[s].run] = 0
      BY <1>22, ExecuteMoves
    <2>7. \A s \in Sent : Buried(s) => Buried(s)'
      BY <2>1, <2>5, RunOfCommand DEF Buried
    <2>8. \A s \in Req \ Sent : Unborn(s) /\ s # r
      BY <2>1 DEF Books
    <2>11. Sent \subseteq Req /\ Sent' = Sent
      BY <2>1, SentSame
    <2>9. \A s \in Sent \ {r} : (Recorded(s) /\ Reported(s))'
      BY <2>1, <2>2, <2>3, <2>6, <2>7, <2>11 DEF Books, Recorded, Reported, Buried
    <2>10. (Recorded(r) /\ Reported(r))'
      BY <2>1, <2>2, <2>3, <2>4, <2>6, <2>7 DEF Books, Recorded, Reported, Buried
    <2> QED
      BY <2>1, <2>2, <2>3, <2>6, <2>8, <2>9, <2>10, <2>11 DEF Books, Unborn
  <1>23. ASSUME NEW r \in Req, Reject(r)
        PROVE  Books'
    <2>1. /\ UNCHANGED <<reqs, disk, net, call, hist, faults>> /\ r \in Sent
          /\ srv.th[r] = "execute" /\ srv' = [srv EXCEPT !.th[r] = "err"]
      BY <1>23, Zenon DEF Reject
    <2>2. srv'.res = srv.res /\ srv'.th[r] = "err" /\ \A s \in Req \ {r} : srv'.th[s] = srv.th[s]
      BY <2>1, ThreadMoves DEF Shape, Threads
    <2>3. Touches(r)
      BY <2>1, <2>2 DEF Touches
    <2> QED
      BY TouchesOne, <2>1, <2>2, <2>3 DEF Recorded, Reported, Buried
  <1>24. ASSUME NEW r \in Req, Finish(r)
        PROVE  Books'
    <2>1. /\ UNCHANGED <<reqs, call, hist, faults>> /\ r \in Sent /\ srv.th[r] \in {"ok", "err"}
          /\ Replied(r, srv.th[r]) /\ disk' = [disk EXCEPT !.rcpt[r] = srv.th[r]]
      BY <1>24, Zenon DEF Finish
    <2>2. /\ srv'.th[r] = "idle" /\ srv'.res[r] = srv.th[r]
          /\ \/ net[r] = "there" /\ net'[r] = srv.th[r]
             \/ net[r] # "there" /\ net'[r] = net[r]
          /\ \A s \in Req \ {r} : srv'.th[s] = srv.th[s] /\ srv'.res[s] = srv.res[s] /\ net'[s] = net[s]
      BY <2>1, RepliedMoves DEF Shape
    <2>3. /\ disk'.ver = disk.ver /\ disk'.rcpt[r] = srv.th[r]
          /\ \A s \in Req \ {r} : disk'.rcpt[s] = disk.rcpt[s]
      BY <2>1 DEF Shape, Disks
    <2>4. Touches(r)
      BY <2>1, <2>2, <2>3 DEF Touches
    <2> QED
      BY TouchesOne, <2>1, <2>2, <2>3, <2>4 DEF Recorded, Reported, Buried
  <1>25. ASSUME NEW r \in Req, FinishFails(r)
        PROVE  Books'
    <2>1. UNCHANGED <<reqs, disk, call, hist>> /\ r \in Sent /\ srv.th[r] \in {"ok", "err"}
      BY <1>25, Zenon DEF FinishFails
    <2>2. faults' = 0 => faults = 0
      BY <1>25 DEF FinishFails, Faulty, Shape
    <2>3. Replied(r, "err") /\ "err" \in {"ok", "err"}
      BY <1>25, Zenon DEF FinishFails, Answered
    <2>4. Touches(r)
      BY <2>1, <2>2, <2>3, RepliedMoves DEF Touches, Shape
    <2>5. /\ srv'.th[r] = "idle" /\ srv'.res[r] = "err"
          /\ \/ net[r] = "there" /\ net'[r] = "err"
             \/ net[r] # "there" /\ net'[r] = net[r]
      BY <2>3, RepliedMoves DEF Shape
    <2> QED
      BY TouchesOne, <2>1, <2>2, <2>4, <2>5 DEF Recorded, Reported, Buried
  <1>26. CASE Restart
    <2>1. UNCHANGED <<reqs, disk, call, hist, faults>>
      BY <1>26, Zenon DEF Restart
    <2>2. \A s \in Req : /\ srv'.th[s] = "idle" /\ srv'.res[s] = "none"
                       /\ (net'[s] = net[s] \/ net'[s] = "none")
      BY <1>26 DEF Restart
    <2> QED
      BY <1>26, SentSame, <2>1, <2>2 DEF Books, Unborn, Recorded, Reported, Buried
  <1>27. CASE UNCHANGED vars
    BY <1>27, SentSame DEF vars, Books, Unborn, Recorded, Reported, Buried
  <1> QED
    BY <1>1, <1>2, <1>3, <1>4, <1>5, <1>6, <1>7, <1>8, <1>9, <1>10, <1>11, <1>12, <1>13, <1>14, <1>15, <1>16, <1>17, <1>18, <1>19, <1>20, <1>21, <1>22, <1>23, <1>24, <1>25, <1>26, <1>27 DEF Next

-----------------------------------------------------------------------------
(* A run is blocked for the undecided commands of this page and no others   *)

\* The links of locks: one for each run that is locked
LEMMA LinksAre ==
  ASSUME NEW lock
  PROVE  /\ \A l \in Links(lock) : /\ l.run \in Runs /\ lock[l.run].st # "free" /\ l.req = lock[l.run].req
                                   /\ l = [run |-> l.run, req |-> l.req]
         /\ \A l, m \in Links(lock) : l.run = m.run => l = m
         /\ \A u \in Runs : lock[u].st # "free" => [run |-> u, req |-> lock[u].req] \in Links(lock)
  BY DEF Links

\* What a refresh keeps of the page, and where it leaves it
Begun(p, q) ==
  /\ q.tok = p.tok /\ q.scope = p.scope /\ q.lock = p.lock /\ q.prep = p.prep /\ q.view = p.view
  /\ \/ p.rd = "digest" /\ q.rd = "digest" /\ q.conn = p.conn /\ q.todo = p.todo
     \/ p.rd # "digest" /\ q.rd \in {"session", "state"} /\ ~q.conn /\ q.todo = {}
LEMMA RefreshedIs == ASSUME NEW p \in Pages PROVE Begun(p, Refreshed(p))
  BY DEF Begun, Refreshed, Pages

LEMMA LoopingIs ==
  ASSUME NEW p \in Pages
  PROVE  LET q == Looping(p) IN
         /\ q.tok = p.tok /\ q.scope = p.scope /\ q.lock = p.lock /\ q.view = p.view /\ q.conn = p.conn
         /\ q.rd = "loop" /\ \A u \in q.todo : u = NoRun \/ p.lock[u].st = "UNKNOWN"
  <1> DEFINE t == Unknown(p)
  <1>1. Looping(p) = [p EXCEPT !.rd = "loop", !.todo = t]
    BY DEF Looping
  <1>2. \A u \in t : u = NoRun \/ p.lock[u].st = "UNKNOWN"
    BY DEF Unknown
  <1> HIDE DEF t
  <1> QED
    BY <1>1, <1>2 DEF Pages

\* The end of the page's wait for request r: the lock of its run stays, with
\* unknown outcome, or goes
LEMMA SettledMoves ==
  ASSUME Shape, NEW r \in Sent, NEW unknown \in BOOLEAN, Settled(r, unknown)
  PROVE  /\ page'.tok = page.tok /\ page'.scope = page.scope /\ page'.view = page.view
         /\ \/ page.rd = "digest" /\ page'.rd = "digest" /\ page'.conn = page.conn /\ page'.todo = page.todo
            \/ page.rd # "digest" /\ page'.rd # "digest" /\ ~page'.conn /\ page'.todo = {}
         /\ \A s \in Req \ {r} : call'[s] = call[s]
         /\ call'[r] = "done"
         /\ reqs[r].kind = "prep" => page'.lock = page.lock /\ store' = store
         /\ reqs[r].kind # "prep" =>
              /\ \A v \in Runs \ {reqs[r].run} : page'.lock[v] = page.lock[v]
              /\ \/ page'.lock[reqs[r].run].st = "free"
                 \/ /\ page.lock[reqs[r].run].st # "free" /\ page'.lock[reqs[r].run].st = "UNKNOWN"
                    /\ page'.lock[reqs[r].run].req = page.lock[reqs[r].run].req
              /\ unknown /\ page.lock[reqs[r].run].st # "free" => page'.lock[reqs[r].run].st # "free"
              /\ store'.scope = page.scope /\ store'.links = Links(page'.lock)
  <1> DEFINE u == reqs[r].run
             mark(e) == IF unknown /\ e.st # "free" THEN [e EXCEPT !.st = "UNKNOWN"] ELSE e
             freed(e) == IF mark(e).st = "UNKNOWN" THEN mark(e) ELSE Free
             lock == [page.lock EXCEPT ![u] = freed(@)]
             P == [page EXCEPT !.prep = freed(@)]
             L == [page EXCEPT !.lock = lock]
  <1>1. r \in Req /\ page \in Pages
    BY SentSame DEF Shape
  <1>2. call' = [call EXCEPT ![r] = "done"]
    BY Zenon DEF Settled
  <1>3. /\ call'[r] = "done"
        /\ \A s \in Req \ {r} : call'[s] = call[s]
    BY <1>1, <1>2 DEF Shape, Calls
  <1>4. \A e \in Entries : /\ freed(e) \in Entries
                           /\ \/ freed(e).st = "free"
                              \/ e.st # "free" /\ freed(e).st = "UNKNOWN" /\ freed(e).req = e.req
                           /\ unknown /\ e.st # "free" => freed(e).st # "free"
    BY DEF Entries, Free
  <1>5. CASE reqs[r].kind = "prep"
    <2>1. u = NoRun
      BY <1>5 DEF Shape
    <2>2. page' = Refreshed(P) /\ store' = store
      BY <2>1, Zenon DEF Settled
    <2>3. /\ P \in Pages /\ P.tok = page.tok /\ P.scope = page.scope /\ P.view = page.view /\ P.rd = page.rd
          /\ P.conn = page.conn /\ P.todo = page.todo /\ P.lock = page.lock
      <3> HIDE DEF freed
      <3> QED
        BY <1>1, <1>4 DEF Pages
    <2> HIDE DEF P
    <2>4. Begun(P, page')
      BY <2>2, <2>3, RefreshedIs
    <2> QED
      BY <1>3, <1>5, <2>2, <2>3, <2>4 DEF Begun
  <1>6. CASE reqs[r].kind # "prep"
    <2>1. u # NoRun /\ u \in Runs
      BY <1>6, RunOfCommand DEF Shape
    <2>2. page' = Refreshed(L) /\ store' = [scope |-> page.scope, links |-> Links(lock)]
      BY <2>1, Zenon DEF Settled, Save
    <2>3. /\ lock \in [Runs -> Entries] /\ lock[u] = freed(page.lock[u])
          /\ \A v \in Runs \ {u} : lock[v] = page.lock[v]
      <3> HIDE DEF freed
      <3> QED
        BY <1>1, <1>4, <2>1 DEF Pages
    <2>4. page.lock[u] \in Entries
      BY <1>1, <2>1 DEF Pages
    <2>5. /\ \/ lock[u].st = "free"
             \/ page.lock[u].st # "free" /\ lock[u].st = "UNKNOWN" /\ lock[u].req = page.lock[u].req
          /\ unknown /\ page.lock[u].st # "free" => lock[u].st # "free"
      <3> HIDE DEF freed, lock
      <3> QED
        BY <1>4, <2>3, <2>4
    <2>6. /\ L \in Pages /\ L.tok = page.tok /\ L.scope = page.scope /\ L.view = page.view /\ L.rd = page.rd
          /\ L.conn = page.conn /\ L.todo = page.todo /\ L.lock = lock
      <3> HIDE DEF freed, lock
      <3> QED
        BY <1>1, <2>3 DEF Pages
    <2> HIDE DEF L, lock
    <2>7. Begun(L, page')
      BY <2>2, <2>6, RefreshedIs
    <2> QED
      BY <1>3, <1>6, <2>2, <2>3, <2>5, <2>6, <2>7 DEF Begun
  <1> QED
    BY <1>5, <1>6

\* A command takes the lock of the run in view
LEMMA CommandMoves ==
  ASSUME Shape, NEW k \in Kinds, Command(k), NEW n, n = Len(reqs) + 1
  PROVE  /\ UNCHANGED <<disk, srv>>
         /\ page'.tok = page.tok /\ page'.scope = page.scope /\ page'.view = page.view
         /\ page'.conn = page.conn /\ page'.rd = page.rd /\ page'.todo = page.todo
         /\ page.conn /\ page.lock[page.view.run].st = "free"
         /\ page'.lock[page.view.run].st = "RUNNING" /\ page'.lock[page.view.run].req = n
         /\ \A v \in Runs \ {page.view.run} : page'.lock[v] = page.lock[v]
         /\ store'.scope = page.scope /\ store'.links = Links(page'.lock)
         /\ \A s \in Req \ {n} : call'[s] = call[s]
         /\ hist'.told = hist.told /\ hist'.stray = (hist.stray \/ page.rd = "digest")
  <1> DEFINE lock == [page.lock EXCEPT ![page.view.run] = Locked("RUNNING", n)]
  <1>1. /\ UNCHANGED <<disk, srv>> /\ page.conn /\ page.lock[page.view.run].st = "free"
        /\ page' = [page EXCEPT !.lock = lock]
        /\ store' = [scope |-> page.scope, links |-> Links(lock)]
        /\ call' = [call EXCEPT ![n] = "waiting"]
        /\ hist' = [hist EXCEPT !.stray = @ \/ page.rd = "digest"]
    BY DEF Command, Save, Offered, Blocked
  <1>2. page.view.run \in Runs
    BY CommandGrows
  <1>3. /\ lock[page.view.run].st = "RUNNING" /\ lock[page.view.run].req = n
        /\ \A v \in Runs \ {page.view.run} : lock[v] = page.lock[v]
    BY <1>2 DEF Shape, Pages, Locked
  <1>4. hist'.told = hist.told /\ hist'.stray = (hist.stray \/ page.rd = "digest")
    BY <1>1 DEF Shape, Hists
  <1>5. \A s \in Req \ {n} : call'[s] = call[s]
    BY <1>1 DEF Shape, Calls
  <1> HIDE DEF lock
  <1>6. /\ page'.tok = page.tok /\ page'.scope = page.scope /\ page'.view = page.view
        /\ page'.conn = page.conn /\ page'.rd = page.rd /\ page'.todo = page.todo /\ page'.lock = lock
    BY <1>1 DEF Shape, Pages
  <1> QED
    BY <1>1, <1>3, <1>4, <1>5, <1>6

\* The locks come back: those of the links for the page's token, where the run is known
LEMMA RestoreMoves ==
  ASSUME Shape, Restore
  PROVE  /\ UNCHANGED <<reqs, disk, srv, call>> /\ page.rd = "digest"
         /\ page'.tok = page.tok /\ page'.scope = page.tok /\ page'.view = page.view
         /\ page'.conn = page.conn /\ page'.rd = "loop"
         /\ \A u \in page'.todo : u = NoRun \/ page'.lock[u].st = "UNKNOWN"
         /\ store'.scope = page.tok /\ store'.links = Links(page'.lock)
         /\ \A u \in Runs :
              \/ /\ page'.lock[u].st = "free"
                 /\ \A l \in store.links : ~(l.run = u /\ u \in page.view.runs /\ store.scope = page.tok)
              \/ /\ page'.lock[u].st = "UNKNOWN" /\ store.scope = page.tok
                 /\ \E l \in store.links : l.run = u /\ page'.lock[u].req = l.req
         /\ hist'.told = hist.told
         /\ hist'.stray = (hist.stray \/ \E r \in Sent : call[r] = "waiting" /\ reqs[r].kind # "prep")
  <1> DEFINE lock == Recovered(page.tok, page.view.runs)
             P == [page EXCEPT !.scope = page.tok, !.lock = lock]
  <1>1. /\ UNCHANGED <<reqs, disk, srv, call>> /\ page.rd = "digest"
        /\ page' = Looping(P)
        /\ store' = [scope |-> page.tok, links |-> Links(lock)]
        /\ hist' = [hist EXCEPT !.stray = @ \/ \E r \in Sent : call[r] = "waiting" /\ reqs[r].kind # "prep"]
    BY DEF Restore, Save
  <1>2. \A u \in Runs :
          \/ /\ lock[u].st = "free"
             /\ \A l \in store.links : ~(l.run = u /\ u \in page.view.runs /\ store.scope = page.tok)
          \/ /\ lock[u].st = "UNKNOWN" /\ store.scope = page.tok
             /\ \E l \in store.links : l.run = u /\ lock[u].req = l.req
    <2> TAKE u \in Runs
    <2> DEFINE kept == {l \in store.links : l.run = u /\ u \in page.view.runs /\ store.scope = page.tok}
    <2>1. lock[u] = IF kept = {} THEN Free ELSE Locked("UNKNOWN", (CHOOSE l \in kept : TRUE).req)
      BY DEF Recovered
    <2>2. CASE kept = {}
      BY <2>1, <2>2 DEF Free
    <2>3. CASE kept # {}
      <3>1. PICK m \in kept : m = CHOOSE l \in kept : TRUE
        BY <2>3
      <3>2. lock[u] = Locked("UNKNOWN", m.req)
        BY <2>1, <2>3, <3>1
      <3>3. m \in store.links /\ m.run = u /\ store.scope = page.tok
        BY <3>1
      <3>4. lock[u].st = "UNKNOWN" /\ lock[u].req = m.req
        BY <3>2 DEF Locked
      <3> HIDE DEF kept, lock
      <3> QED
        BY <3>3, <3>4
    <2> QED
      BY <2>2, <2>3
  <1>3. lock \in [Runs -> Entries]
    BY RecoveredType DEF Shape
  <1>4. hist'.told = hist.told /\ hist'.stray = (hist.stray \/ \E r \in Sent : call[r] = "waiting" /\ reqs[r].kind # "prep")
    BY <1>1 DEF Shape, Hists
  <1> HIDE DEF lock
  <1>5. /\ P \in Pages /\ P.tok = page.tok /\ P.scope = page.tok /\ P.view = page.view
        /\ P.conn = page.conn /\ P.lock = lock
    BY <1>3 DEF Shape, Pages
  <1> HIDE DEF P
  <1>6. /\ page'.tok = P.tok /\ page'.scope = P.scope /\ page'.lock = P.lock /\ page'.view = P.view
        /\ page'.conn = P.conn /\ page'.rd = "loop"
        /\ \A u \in page'.todo : u = NoRun \/ P.lock[u].st = "UNKNOWN"
    BY <1>1, <1>5, LoopingIs
  <1> QED
    BY <1>1, <1>2, <1>4, <1>5, <1>6

\* The answer about an entry frees it when it names an end
LEMMA AskMoves ==
  ASSUME Shape, NEW u \in Runs \cup {NoRun}, AskReceipt(u)
  PROVE  /\ UNCHANGED <<reqs, disk, srv, call>> /\ page.rd = "loop" /\ u \in page.todo
         /\ page'.tok = page.tok /\ page'.scope = page.scope /\ page'.view = page.view
         /\ page'.conn = page.conn /\ page'.rd = "loop" /\ page'.todo = page.todo \ {u}
         /\ hist'.stray = hist.stray
         /\ \A s \in Req : hist'.told[s] = "none" => hist.told[s] = "none"
         /\ \/ page'.lock = page.lock /\ store' = store
            \/ /\ u \in Runs /\ disk.rcpt[page.lock[u].req] \in {"ok", "err"}
               /\ \A v \in Runs \ {u} : page'.lock[v] = page.lock[v]
               /\ page'.lock[u].st = "free"
               /\ store'.scope = page.scope /\ store'.links = Links(page'.lock)
  <1> DEFINE entry == IF u = NoRun THEN page.prep ELSE page.lock[u]
             c == Status(entry.req)
             freed == c \in {"COMPLETED", "FAILED"} \/ (u = NoRun /\ c = "NOT_FOUND")
             lock == IF freed /\ u # NoRun THEN [page.lock EXCEPT ![u] = Free] ELSE page.lock
  <1>1. /\ UNCHANGED <<reqs, disk, srv, call>> /\ page.rd = "loop" /\ u \in page.todo
        /\ page' = [page EXCEPT !.todo = @ \ {u}, !.lock = lock, !.prep = IF freed /\ u = NoRun THEN Free ELSE @]
        /\ IF freed /\ u # NoRun THEN store' = [scope |-> page.scope, links |-> Links(lock)] ELSE store' = store
        /\ hist' = IF freed THEN [hist EXCEPT !.told[entry.req] = Told(c)] ELSE hist
    BY Zenon DEF AskReceipt, Save
  <1>2. freed => Told(c) # "none"
    BY DEF Told
  <1>3. hist'.stray = hist.stray /\ \A s \in Req : hist'.told[s] = "none" => hist.told[s] = "none"
    <2> HIDE DEF freed, c, entry
    <2>1. CASE freed
      BY <1>1, <1>2, <2>1 DEF Shape, Hists
    <2>2. CASE ~freed
      BY <1>1, <2>2
    <2> QED
      BY <2>1, <2>2
  <1>4. freed /\ u # NoRun => u \in Runs /\ disk.rcpt[page.lock[u].req] \in {"ok", "err"}
    BY DEF Status
  <1>5. freed /\ u # NoRun => lock[u].st = "free" /\ \A v \in Runs \ {u} : lock[v] = page.lock[v]
    <2> HIDE DEF freed
    <2> QED
      BY DEF Shape, Pages, Free
  <1>6. ~(freed /\ u # NoRun) => lock = page.lock
    OBVIOUS
  <1> HIDE DEF freed, lock, c, entry
  <1>7. /\ page'.tok = page.tok /\ page'.scope = page.scope /\ page'.view = page.view
        /\ page'.conn = page.conn /\ page'.rd = page.rd /\ page'.todo = page.todo \ {u} /\ page'.lock = lock
    BY <1>1 DEF Shape, Pages
  <1>8. CASE freed /\ u # NoRun
    BY <1>1, <1>3, <1>4, <1>5, <1>7, <1>8
  <1>9. CASE ~(freed /\ u # NoRun)
    BY <1>1, <1>3, <1>6, <1>7, <1>9
  <1> QED
    BY <1>8, <1>9

\* The locks of the page: the inductive invariant of LocksAreJust
Locks == Tokens /\ Reading /\ Named /\ Waiting /\ Linked

\* A step of the refresh: nothing but the page's reading, and its token
Reads ==
  /\ UNCHANGED <<reqs, disk, call, store, hist>> /\ srv'.life = srv.life
  /\ page'.lock = page.lock /\ page'.scope = page.scope
  /\ page'.tok \in {0, page.tok, srv.life}
  /\ page'.view = page.view \/ page'.view.run = NoRun \/ page.tok = srv.life

LEMMA ReadsKeep == ASSUME Shape, Locks, Reads PROVE Tokens' /\ Named' /\ Waiting' /\ Linked'
  <1> USE SentSame
  <1>1. Tokens'
    <2>1. /\ srv'.life = srv.life /\ page'.scope = page.scope /\ reqs' = reqs
          /\ page'.tok \in {0, page.tok, srv.life}
      BY DEF Reads
    <2>2. srv.life \in Nat /\ page.tok \in Nat /\ page.scope \in Nat
      BY DEF Shape, ServerShape, Pages
    <2> QED
      BY <2>1, <2>2 DEF Locks, Tokens
  <1>2. Named'
    BY DEF Locks, Named, Reads
  <1>3. Waiting'
    BY DEF Locks, Waiting, Holds, Reads
  <1>4. Linked'
    BY DEF Locks, Linked, Undecided, Kept, Link, Holds, Reads
  <1> QED
    BY <1>1, <1>2, <1>3, <1>4

\* A step of the server: the page and what it sent stay, a deleted run stays
\* deleted, and a receipt without an end is one that had none
Serves ==
  /\ UNCHANGED <<reqs, call, page, store>> /\ srv'.life = srv.life
  /\ hist'.told = hist.told /\ hist'.stray = hist.stray
  /\ \A v \in Runs : disk.ver[v] = 0 => disk'.ver[v] = 0
  /\ \A s \in Sent : \/ disk.rcpt[s] \in {"none", "INTENT"} \/ disk'.rcpt[s] \in {"ok", "err"}
                     \/ disk'.ver[reqs[s].run] = 0

LEMMA ServesKeep == ASSUME Shape, Shape', Locks, Serves PROVE Locks'
  <1> USE SentSame
  <1>1. Tokens'
    BY DEF Locks, Tokens, Serves
  <1>2. Reading'
    <2>1. Existing' \subseteq Existing
      BY DEF Existing, Serves, Shape, Disks
    <2> QED
      BY <2>1 DEF Locks, Reading, Serves
  <1>3. Named'
    BY DEF Locks, Named, Serves
  <1>4. Waiting'
    BY DEF Locks, Waiting, Holds, Serves
  <1>5. Linked'
    <2> SUFFICES ASSUME NEW r \in Sent, Undecided(r)' PROVE Kept(r)'
      BY DEF Linked, Serves
    <2>1. reqs[r].run \in Runs
      BY RunOfCommand DEF Undecided, Serves
    <2>2. disk.ver[reqs[r].run] > 0
      BY <2>1 DEF Undecided, Serves, Shape, Disks
    <2>3. Undecided(r)
      BY <2>2 DEF Undecided, Serves
    <2>4. Kept(r)
      BY <2>3 DEF Locks, Linked
    <2> QED
      BY <2>4 DEF Kept, Link, Holds, Serves
  <1> QED
    BY <1>1, <1>2, <1>3, <1>4, <1>5 DEF Locks

\* The page saves its locks under the scope it has, the lock of one run
\* changed: the links stay as the locks are
LEMMA NamedSaved ==
  ASSUME Shape, Locks, UNCHANGED reqs, page'.scope = page.scope, NEW u \in Runs,
         \A v \in Runs \ {u} : page'.lock[v] = page.lock[v],
         page'.lock[u].st = "free" \/ (page.lock[u].st # "free" /\ page'.lock[u].req = page.lock[u].req),
         store'.scope = page.scope, store'.links = Links(page'.lock)
  PROVE  Named'
  <1>1. Sent' = Sent
    BY SentSame
  <1>2. \A v \in Runs : page'.lock[v].st # "free" =>
          /\ page'.lock[v].req \in Sent /\ reqs[page'.lock[v].req].run = v
          /\ page.scope <= reqs[page'.lock[v].req].tok
    BY DEF Locks, Named
  <1>3. \A l \in store'.links : /\ l.run \in Runs /\ page'.lock[l.run].st # "free" /\ l.req = page'.lock[l.run].req
    BY LinksAre
  <1>4. \A l, m \in store'.links : l.run = m.run => l = m
    BY LinksAre
  <1> QED
    BY <1>1, <1>2, <1>3, <1>4 DEF Named

LEMMA TakenLife == ASSUME Shape, NEW r \in Req, Taken(r) PROVE srv'.life = srv.life
  <1>1. CASE reqs[r].kind = "prep"
    BY <1>1 DEF Taken, Shape, ServerShape
  <1>2. CASE reqs[r].kind # "prep"
    <2>1. srv' = [srv EXCEPT !.mem = Append(Evicted, r), !.th[r] = "runtime"]
      BY <1>2, Zenon DEF Taken
    <2> QED
      BY <2>1 DEF Shape, ServerShape
  <1> QED
    BY <1>1, <1>2

LEMMA ReceiptsTyped == Shape => \A s \in Req : disk.rcpt[s] \in {"none", "INTENT", "ok", "err"}
  BY DEF Shape, Disks, Receipts

LEMMA RefreshIs == ASSUME Shape, Locks, Refresh PROVE Reads /\ Reading'
  <1>1. page' = Refreshed(page) /\ UNCHANGED <<reqs, disk, srv, call, store, hist>>
    BY DEF Refresh
  <1>2. Begun(page, page')
    BY <1>1, RefreshedIs DEF Shape
  <1>3. Existing' = Existing
    BY <1>1 DEF Existing
  <1>4. Reads
    BY <1>1, <1>2 DEF Reads, Begun
  <1> QED
    BY <1>1, <1>2, <1>3, <1>4 DEF Reading, Begun, Locks

LEMMA ReadFailsIs == ASSUME Shape, Locks, ReadFails PROVE Reads /\ Reading'
  <1>1. /\ UNCHANGED <<reqs, disk, srv, call, store, hist>> /\ page'.rd = "idle" /\ ~page'.conn /\ page'.todo = {}
        /\ page'.tok = page.tok /\ page'.scope = page.scope /\ page'.lock = page.lock /\ page'.view = page.view
    BY DEF ReadFails, Shape, Pages
  <1> QED
    BY <1>1 DEF Reads, Reading

LEMMA ReadSessionIs == ASSUME Shape, Locks, ReadSession PROVE Reads /\ Reading'
  <1>1. /\ UNCHANGED <<reqs, disk, srv, call, store, hist>> /\ page.rd = "session" /\ page'.rd = "state"
        /\ page'.conn = page.conn /\ page'.todo = page.todo
        /\ page'.tok = srv.life /\ page'.scope = page.scope /\ page'.lock = page.lock /\ page'.view = page.view
    BY DEF ReadSession, Shape, Pages
  <1>2. ~page.conn
    BY <1>1 DEF Locks, Reading
  <1> QED
    BY <1>1, <1>2 DEF Reads, Reading, Locks

LEMMA ReadRefusedIs == ASSUME Shape, Locks, ReadRefused PROVE Reads /\ Reading'
  <1>1. /\ UNCHANGED <<reqs, disk, srv, call, store, hist>> /\ page'.rd = "idle" /\ ~page'.conn /\ page'.todo = {}
        /\ page'.tok \in {0, page.tok} /\ page'.scope = page.scope /\ page'.lock = page.lock /\ page'.view = page.view
    BY DEF ReadRefused, Shape, Pages
  <1> QED
    BY <1>1 DEF Reads, Reading

LEMMA ReadDoneIs == ASSUME Shape, Locks, ReadDone PROVE Reads /\ Reading'
  <1>1. /\ UNCHANGED <<reqs, disk, srv, call, store, hist>> /\ page.rd = "loop" /\ page'.rd = "idle"
        /\ page'.conn = page.conn /\ page'.todo = {} /\ page.todo = {}
        /\ page'.tok = page.tok /\ page'.scope = page.scope /\ page'.lock = page.lock /\ page'.view = page.view
    BY DEF ReadDone, Shape, Pages
  <1> QED
    BY <1>1 DEF Reads, Reading, Locks

LEMMA ReadUnavailableIs == ASSUME Shape, Locks, ReadUnavailable PROVE Reads /\ Reading'
  <1> DEFINE p == [page EXCEPT !.conn = TRUE, !.view = NoView]
  <1>1. /\ UNCHANGED <<reqs, disk, srv, call, store, hist>> /\ page.tok = srv.life /\ page' = Looping(p)
    BY Zenon DEF ReadUnavailable
  <1>2. /\ p \in Pages /\ p.tok = page.tok /\ p.scope = page.scope /\ p.lock = page.lock
        /\ p.view.run = NoRun
    BY DEF Shape, Pages, NoView
  <1> HIDE DEF p
  <1>3. /\ page'.tok = page.tok /\ page'.scope = page.scope /\ page'.lock = page.lock /\ page'.view.run = NoRun
        /\ page'.rd = "loop" /\ \A u \in page'.todo : u = NoRun \/ page.lock[u].st = "UNKNOWN"
    BY <1>1, <1>2, LoopingIs
  <1> QED
    BY <1>1, <1>3 DEF Reads, Reading, Locks, Tokens

LEMMA ReadStateIs == ASSUME Shape, Locks, ReadState PROVE Reads /\ Reading'
  <1>1. /\ UNCHANGED <<reqs, disk, call, store, hist>> /\ page.rd = "state" /\ page.tok = srv.life
        /\ srv' = [srv EXCEPT !.ready = TRUE]
    BY Zenon DEF ReadState
  <1>2. PICK u \in Existing \cup {NoRun} :
            LET p == [page EXCEPT !.conn = TRUE, !.view = Viewed(u)] IN
            page' = IF p.scope = p.tok THEN Looping(p) ELSE [p EXCEPT !.rd = "digest"]
    BY DEF ReadState
  <1> DEFINE p == [page EXCEPT !.conn = TRUE, !.view = Viewed(u)]
  <1>3. page' = IF p.scope = p.tok THEN Looping(p) ELSE [p EXCEPT !.rd = "digest"]
    BY <1>2
  <1>4. /\ p \in Pages /\ p.tok = page.tok /\ p.scope = page.scope /\ p.lock = page.lock
        /\ p.view.runs = Existing /\ p.todo = page.todo
    BY DEF Shape, Pages, Disks, NoRun, Viewed, Existing
  <1> HIDE DEF p
  <1>5. srv'.life = srv.life
    BY <1>1 DEF Shape, ServerShape
  <1>6. Existing' = Existing
    BY <1>1 DEF Existing
  <1>7. page.tok # 0 /\ page.todo = {}
    BY <1>1 DEF Locks, Tokens, Reading
  <1>8. CASE p.scope = p.tok
    <2>1. /\ page'.tok = page.tok /\ page'.scope = page.scope /\ page'.lock = page.lock
          /\ page'.rd = "loop" /\ \A v \in page'.todo : v = NoRun \/ page.lock[v].st = "UNKNOWN"
      BY <1>3, <1>4, <1>8, LoopingIs
    <2> QED
      BY <1>1, <1>4, <1>5, <1>7, <1>8, <2>1 DEF Reads, Reading
  <1>9. CASE p.scope # p.tok
    <2>1. /\ page'.tok = page.tok /\ page'.scope = page.scope /\ page'.lock = page.lock
          /\ page'.rd = "digest" /\ page'.view.runs = Existing /\ page'.todo = page.todo
      BY <1>3, <1>4, <1>9 DEF Pages
    <2> QED
      BY <1>1, <1>4, <1>5, <1>6, <1>7, <1>9, <2>1 DEF Reads, Reading
  <1> QED
    BY <1>8, <1>9

LEMMA ServerIs ==
  ASSUME Shape, NEW r \in Req,
         \/ Accept(r) \/ Join(r) \/ Refuse(r) \/ Copy(r) \/ Begin(r) \/ Replay(r) \/ NoRuntime(r)
         \/ Execute(r) \/ Reject(r) \/ Finish(r) \/ FinishFails(r)
  PROVE  Serves
  <1>0. Sent \subseteq Req
    BY SentSame
  <1>1. CASE Accept(r)
    <2>1. UNCHANGED <<reqs, call, page, store, hist>> /\ Taken(r)
      BY <1>1, Zenon DEF Accept
    <2> QED
      BY <1>0, <2>1, TakenMoves, TakenLife, ReceiptsTyped DEF Serves
  <1>2. CASE Join(r)
    BY <1>0, <1>2, ReceiptsTyped DEF Join, Serves
  <1>3. CASE Refuse(r)
    BY <1>0, <1>3, ReceiptsTyped DEF Refuse, Serves
  <1>4. CASE Copy(r)
    <2>1. UNCHANGED <<reqs, call, page, store, hist>> /\ Taken(r)
      BY <1>4, Zenon DEF Copy
    <2> QED
      BY <1>0, <2>1, TakenMoves, TakenLife, ReceiptsTyped DEF Serves
  <1>5. CASE Begin(r)
    <2>1. UNCHANGED <<reqs, call, page, store, hist>> /\ srv'.life = srv.life /\ disk.rcpt[r] = "none"
      BY <1>5 DEF Begin, Shape, ServerShape
    <2>2. disk'.ver = disk.ver /\ \A s \in Req \ {r} : disk'.rcpt[s] = disk.rcpt[s]
      BY <1>5 DEF Begin, Shape, Disks
    <2>3. disk.rcpt \in [Req -> Receipts]
      BY DEF Shape, Disks
    <2> QED
      BY <1>0, <2>1, <2>2, <2>3 DEF Serves, Receipts
  <1>6. CASE Replay(r)
    <2>1. UNCHANGED <<reqs, disk, call, page, store, hist>> /\ srv'.life = srv.life
      BY <1>6 DEF Replay, Replied, Shape, ServerShape
    <2> QED
      BY <1>0, <2>1, ReceiptsTyped DEF Serves
  <1>7. CASE NoRuntime(r)
    <2>1. UNCHANGED <<reqs, disk, call, page, store, hist>> /\ srv'.life = srv.life
      BY <1>7 DEF NoRuntime, Replied, Shape, ServerShape
    <2> QED
      BY <1>0, <2>1, ReceiptsTyped DEF Serves
  <1>8. CASE Execute(r)
    <2>1. UNCHANGED <<reqs, call, page, store>> /\ hist' = [hist EXCEPT !.effects[r] = @ + 1]
      BY <1>8, Zenon DEF Execute
    <2>2. PICK out \in {"ok", "err"} : srv' = [srv EXCEPT !.th[r] = out]
      BY <1>8, Zenon DEF Execute
    <2>3. srv'.life = srv.life /\ hist'.told = hist.told /\ hist'.stray = hist.stray
      BY <2>1, <2>2 DEF Shape, ServerShape, Hists
    <2> QED
      BY <1>0, <1>8, <2>1, <2>3, ExecuteMoves, ReceiptsTyped DEF Serves
  <1>9. CASE Reject(r)
    <2>1. UNCHANGED <<reqs, disk, call, page, store, hist>> /\ srv'.life = srv.life
      BY <1>9 DEF Reject, Shape, ServerShape
    <2> QED
      BY <1>0, <2>1, ReceiptsTyped DEF Serves
  <1>10. CASE Finish(r)
    <2>1. /\ UNCHANGED <<reqs, call, page, store, hist>> /\ srv'.life = srv.life
      BY <1>10 DEF Finish, Replied, Shape, ServerShape
    <2>2. /\ disk'.ver = disk.ver /\ disk'.rcpt[r] \in {"ok", "err"}
          /\ \A s \in Req \ {r} : disk'.rcpt[s] = disk.rcpt[s]
      BY <1>10 DEF Finish, Shape, Disks
    <2> QED
      BY <1>0, <2>1, <2>2, ReceiptsTyped DEF Serves
  <1>11. CASE FinishFails(r)
    <2>1. UNCHANGED <<reqs, disk, call, page, store, hist>> /\ srv'.life = srv.life
      BY <1>11 DEF FinishFails, Replied, Shape, ServerShape
    <2> QED
      BY <1>0, <2>1, ReceiptsTyped DEF Serves
  <1> QED
    BY <1>1, <1>2, <1>3, <1>4, <1>5, <1>6, <1>7, <1>8, <1>9, <1>10, <1>11

LEMMA CommandKeeps == ASSUME Shape, Locks, NEW k \in Kinds, Command(k) PROVE Locks'
  <1>0. PICK n \in Req : n = Len(reqs) + 1
    BY CommandGrows DEF Grows
  <1> DEFINE u == page.view.run
  <1>1. /\ k # "prep" /\ u \in Runs /\ Sent' = Sent \cup {n} /\ n \notin Sent /\ (\A r \in Sent : reqs'[r] = reqs[r])
        /\ reqs'[n].kind = k /\ reqs'[n].run = u /\ reqs'[n].tok = page.tok
    <2>1. Grows(Issued(k)) /\ k # "prep" /\ u \in Runs
      BY CommandGrows
    <2>2. /\ Sent' = Sent \cup {n} /\ n \notin Sent /\ (\A r \in Sent : reqs'[r] = reqs[r])
          /\ reqs'[n] = Issued(k)
      BY <2>1, <1>0 DEF Grows
    <2>3. Issued(k).kind = k /\ Issued(k).run = u /\ Issued(k).tok = page.tok
      BY DEF Issued
    <2> QED
      BY <2>1, <2>2, <2>3
  <1>2. /\ UNCHANGED <<disk, srv>>
        /\ page'.tok = page.tok /\ page'.scope = page.scope /\ page'.view = page.view
        /\ page'.conn = page.conn /\ page'.rd = page.rd /\ page'.todo = page.todo
        /\ page.conn /\ page.lock[u].st = "free"
        /\ page'.lock[u].st = "RUNNING" /\ page'.lock[u].req = n
        /\ \A v \in Runs \ {u} : page'.lock[v] = page.lock[v]
        /\ store'.scope = page.scope /\ store'.links = Links(page'.lock)
        /\ \A s \in Req \ {n} : call'[s] = call[s]
        /\ hist'.told = hist.told /\ hist'.stray = (hist.stray \/ page.rd = "digest")
    BY <1>0, CommandMoves
  <1>3. page.tok # 0 /\ page.scope <= page.tok /\ page.tok <= srv.life /\ Sent \subseteq Req
    BY <1>2, SentSame DEF Locks, Reading, Tokens
  <1>4. page.tok \in Nat /\ page.scope \in Nat /\ srv.life \in Nat
    BY DEF Shape, Pages, ServerShape
  <1>5. page.rd # "digest" => page.scope = page.tok
    BY <1>1, <1>2, NoRunAssumption DEF Locks, Reading, NoRun
  <1> HIDE DEF u
  <1>6. Tokens'
    BY <1>1, <1>2, <1>3, <1>4 DEF Locks, Tokens
  <1>7. Reading'
    <2>1. Existing' = Existing
      BY <1>2 DEF Existing
    <2>2. \A v \in page.todo : v = NoRun \/ page'.lock[v].st = "UNKNOWN"
      BY <1>2 DEF Locks, Reading, Shape, Pages
    <2> QED
      BY <1>2, <2>1, <2>2 DEF Locks, Reading
  <1>8. Named'
    <2>1. \A v \in Runs : page'.lock[v].st # "free" =>
            /\ page'.lock[v].req \in Sent' /\ reqs'[page'.lock[v].req].run = v
            /\ page.scope <= reqs'[page'.lock[v].req].tok
      BY <1>1, <1>2, <1>3 DEF Locks, Named
    <2>2. \A l \in store'.links : /\ l.run \in Runs /\ page'.lock[l.run].st # "free" /\ l.req = page'.lock[l.run].req
      BY <1>2, LinksAre
    <2>3. \A l, m \in store'.links : l.run = m.run => l = m
      BY <1>2, LinksAre
    <2> QED
      BY <1>2, <2>1, <2>2, <2>3 DEF Named
  <1>9. Waiting'
    <2> SUFFICES ASSUME ~hist'.stray, NEW r \in Sent', call'[r] = "waiting", reqs'[r].kind # "prep"
                 PROVE  page'.lock[reqs'[r].run].st = "RUNNING" /\ page'.lock[reqs'[r].run].req = r
      BY DEF Waiting, Holds
    <2>1. CASE r = n
      BY <1>1, <1>2, <2>1
    <2>2. CASE r \in Sent
      <3>1. page.lock[reqs[r].run].st = "RUNNING" /\ page.lock[reqs[r].run].req = r
        <4>1. r \in Req \ {n} /\ reqs'[r] = reqs[r] /\ call[r] = call'[r] /\ ~hist.stray
          BY <1>1, <1>2, <1>3, <2>2
        <4> QED
          BY <4>1, <2>2 DEF Locks, Waiting, Holds
      <3> QED
        BY <1>1, <1>2, <2>2, <3>1, RunOfCommand
    <2> QED
      BY <1>1, <2>1, <2>2
  <1>10. Linked'
    <2> SUFFICES ASSUME NEW r \in Sent', Undecided(r)' PROVE Kept(r)'
      BY DEF Linked
    <2>1. reqs'[r].tok = srv.life /\ page.rd # "digest" /\ ~hist.stray
      BY <1>2 DEF Undecided
    <2>2. page.scope = srv.life
      <3>1. CASE r = n
        BY <1>1, <1>5, <2>1, <3>1
      <3>2. CASE r \in Sent
        <4>1. reqs[r].tok <= page.tok
          BY <1>3, <3>2 DEF Locks, Tokens
        <4> QED
          BY <1>1, <1>3, <1>4, <1>5, <2>1, <3>2, <4>1
      <3> QED
        BY <1>1, <3>1, <3>2
    <2>3. reqs'[r].run \in Runs /\ page'.lock[reqs'[r].run].st \in {"RUNNING", "UNKNOWN"} /\ page'.lock[reqs'[r].run].req = r
      <3>1. CASE r = n
        BY <1>1, <1>2, <3>1
      <3>2. CASE r \in Sent
        <4>1. Undecided(r)
          BY <1>1, <1>2, <3>2 DEF Undecided
        <4>2. Kept(r)
          BY <3>2, <4>1 DEF Locks, Linked
        <4>3. page.lock[reqs[r].run].st \in {"RUNNING", "UNKNOWN"} /\ page.lock[reqs[r].run].req = r
          BY <1>3, <2>2, <4>2 DEF Kept, Holds, Locks, Tokens
        <4>4. reqs[r].run \in Runs
          BY <3>2, <4>1, RunOfCommand DEF Undecided
        <4> QED
          BY <1>1, <1>2, <3>2, <4>3, <4>4
      <3> QED
        BY <1>1, <3>1, <3>2
    <2>4. [run |-> reqs'[r].run, req |-> r] \in store'.links
      BY <1>2, <2>3, LinksAre
    <2> QED
      BY <1>2, <2>2, <2>3, <2>4 DEF Kept, Link, Holds
  <1> QED
    BY <1>6, <1>7, <1>8, <1>9, <1>10 DEF Locks

LEMMA PrepareKeeps == ASSUME Shape, Locks, Prepare PROVE Locks'
  <1>0. PICK n \in Req : n = Len(reqs) + 1
    BY PrepareGrows DEF Grows
  <1>1. /\ Sent' = Sent \cup {n} /\ n \notin Sent /\ (\A r \in Sent : reqs'[r] = reqs[r])
        /\ reqs'[n].kind = "prep" /\ reqs'[n].tok = page.tok
    BY <1>0, PrepareGrows DEF Grows, Prepared
  <1>2. UNCHANGED <<disk, srv, store, hist>> /\ page.conn /\ page' = [page EXCEPT !.prep = Locked("RUNNING", n)]
    BY <1>0, Zenon DEF Prepare
  <1>3. \A s \in Req \ {n} : call'[s] = call[s]
    BY <1>0 DEF Prepare, Shape, Calls
  <1>4. /\ page'.tok = page.tok /\ page'.scope = page.scope /\ page'.view = page.view /\ page'.lock = page.lock
        /\ page'.conn = page.conn /\ page'.rd = page.rd /\ page'.todo = page.todo
    BY <1>2 DEF Shape, Pages
  <1>5. Sent \subseteq Req /\ page.tok <= srv.life /\ page.tok \in Nat
    BY SentSame DEF Locks, Tokens, Shape, Pages
  <1>6. Tokens'
    BY <1>1, <1>2, <1>4, <1>5 DEF Locks, Tokens
  <1>7. Reading'
    <2>1. Existing' = Existing
      BY <1>2 DEF Existing
    <2> QED
      BY <1>2, <1>4, <2>1 DEF Locks, Reading
  <1>8. Named'
    BY <1>1, <1>2, <1>4 DEF Locks, Named
  <1>9. Waiting'
    BY <1>1, <1>2, <1>3, <1>4, <1>5 DEF Locks, Waiting, Holds
  <1>10. Linked'
    BY <1>1, <1>2, <1>4 DEF Locks, Linked, Undecided, Kept, Link, Holds
  <1> QED
    BY <1>6, <1>7, <1>8, <1>9, <1>10 DEF Locks

LEMMA ReloadKeeps == ASSUME Shape, Locks, Reload PROVE Locks'
  <1>1. /\ UNCHANGED <<reqs, disk, srv, store, hist>> /\ page' = FreshPage
        /\ \A s \in Req : call'[s] # "waiting"
    BY DEF Reload
  <1>2. /\ page'.tok = 0 /\ page'.scope = 0 /\ ~page'.conn /\ page'.rd = "idle" /\ page'.todo = {}
        /\ \A v \in Runs : page'.lock[v].st = "free"
    BY <1>1 DEF FreshPage, Free
  <1>3. Sent' = Sent /\ Sent \subseteq Req /\ srv.life \in Nat
    BY <1>1, SentSame DEF Shape, ServerShape
  <1>4. Tokens'
    BY <1>1, <1>2, <1>3 DEF Locks, Tokens
  <1>5. Reading'
    BY <1>2 DEF Reading
  <1>6. Named'
    BY <1>1, <1>2, <1>3 DEF Locks, Named
  <1>7. Waiting'
    BY <1>1, <1>3 DEF Waiting
  <1>8. Linked'
    <2> SUFFICES ASSUME NEW r \in Sent, Undecided(r)' PROVE Kept(r)'
      BY <1>3 DEF Linked
    <2>1. Kept(r)
      BY <1>1 DEF Locks, Linked, Undecided
    <2>2. Link(r) \in store.links /\ store.scope = srv.life
      BY <2>1 DEF Kept, Locks, Named, Tokens
    <2> QED
      BY <1>1, <1>2, <2>2 DEF Kept, Link
  <1> QED
    BY <1>4, <1>5, <1>6, <1>7, <1>8 DEF Locks

\* The end of a wait, with an answer or with the outcome unknown
LEMMA SettledKeeps ==
  ASSUME Shape, Locks, NEW r \in Sent, NEW unknown \in BOOLEAN, call[r] = "waiting", Settled(r, unknown),
         UNCHANGED <<reqs, disk, srv>>, hist'.stray = hist.stray,
         \A s \in Req \ {r} : hist'.told[s] = hist.told[s],
         (unknown /\ hist'.told[r] = hist.told[r]) \/ hist'.told[r] # "none"
  PROVE  Locks'
  <1> DEFINE u == reqs[r].run
  <1>1. /\ page'.tok = page.tok /\ page'.scope = page.scope /\ page'.view = page.view
        /\ \/ page.rd = "digest" /\ page'.rd = "digest" /\ page'.conn = page.conn /\ page'.todo = page.todo
           \/ page.rd # "digest" /\ page'.rd # "digest" /\ ~page'.conn /\ page'.todo = {}
        /\ \A s \in Req \ {r} : call'[s] = call[s]
        /\ call'[r] = "done"
    BY SettledMoves
  <1>2. Sent' = Sent /\ Sent \subseteq Req
    BY SentSame
  <1>3. Tokens'
    BY <1>1, <1>2 DEF Locks, Tokens
  <1>4. Reading'
    <2>1. Existing' = Existing
      BY DEF Existing
    <2>2. page.rd = "digest" => page.todo = {}
      BY DEF Locks, Reading
    <2> QED
      BY <1>1, <2>1, <2>2 DEF Locks, Reading
  <1>5. CASE reqs[r].kind = "prep"
    <2>1. page'.lock = page.lock /\ store' = store
      BY <1>5, SettledMoves
    <2>2. Named'
      BY <1>1, <1>2, <2>1 DEF Locks, Named
    <2>3. Waiting'
      BY <1>1, <1>2, <2>1 DEF Locks, Waiting, Holds
    <2>4. Linked'
      <3> SUFFICES ASSUME NEW s \in Sent, Undecided(s)' PROVE Kept(s)'
        BY <1>2 DEF Linked
      <3>1. s # r
        BY <1>5 DEF Undecided
      <3>2. Undecided(s)
        BY <1>2, <3>1 DEF Undecided
      <3> QED
        BY <1>1, <2>1, <3>2 DEF Locks, Linked, Kept, Link, Holds
    <2> QED
      BY <1>3, <1>4, <2>2, <2>3, <2>4 DEF Locks
  <1>6. CASE reqs[r].kind # "prep"
    <2>1. u \in Runs
      BY <1>6, RunOfCommand
    <2>2. /\ \A v \in Runs \ {u} : page'.lock[v] = page.lock[v]
          /\ \/ page'.lock[u].st = "free"
             \/ /\ page.lock[u].st # "free" /\ page'.lock[u].st = "UNKNOWN"
                /\ page'.lock[u].req = page.lock[u].req
          /\ unknown /\ page.lock[u].st # "free" => page'.lock[u].st # "free"
          /\ store'.scope = page.scope /\ store'.links = Links(page'.lock)
      BY <1>6, SettledMoves
    <2> HIDE DEF u
    <2>3. Named'
      BY <1>1, <2>1, <2>2, NamedSaved
    <2>4. ~hist.stray => page.lock[u].st = "RUNNING" /\ page.lock[u].req = r
      BY <1>6 DEF Locks, Waiting, Holds, u
    <2>5. \A s \in Sent \ {r} : ~hist.stray /\ reqs[s].kind # "prep" /\ Holds(s, {"RUNNING", "UNKNOWN"}) => reqs[s].run \in Runs \ {u}
      BY <2>4, RunOfCommand DEF Holds
    <2>6. Waiting'
      <3> SUFFICES ASSUME ~hist.stray, NEW s \in Sent, call'[s] = "waiting", reqs[s].kind # "prep"
                   PROVE  page'.lock[reqs[s].run].st = "RUNNING" /\ page'.lock[reqs[s].run].req = s
        BY <1>2 DEF Waiting, Holds
      <3>1. s # r /\ page.lock[reqs[s].run].st = "RUNNING" /\ page.lock[reqs[s].run].req = s
        BY <1>1, <1>2 DEF Locks, Waiting, Holds
      <3> QED
        BY <2>2, <2>5, <3>1 DEF Holds
    <2>7. Linked'
      <3> SUFFICES ASSUME NEW s \in Sent, Undecided(s)' PROVE Kept(s)'
        BY <1>2 DEF Linked
      <3>1. Undecided(s) /\ ~hist.stray /\ (s = r => unknown)
        BY <1>2 DEF Undecided
      <3>2. Link(s) \in store.links /\ page.scope = srv.life /\ Holds(s, {"RUNNING", "UNKNOWN"})
        BY <2>1, <2>4, <3>1 DEF Locks, Linked, Kept
      <3>3. reqs[s].run \in Runs /\ page'.lock[reqs[s].run].st \in {"RUNNING", "UNKNOWN"} /\ page'.lock[reqs[s].run].req = s
        <4>1. CASE s = r
          BY <2>1, <2>2, <2>4, <3>1, <4>1 DEF u
        <4>2. CASE s # r
          BY <2>2, <2>5, <3>1, <3>2, <4>2 DEF Holds, Undecided
        <4> QED
          BY <4>1, <4>2
      <3>4. [run |-> reqs[s].run, req |-> s] \in store'.links
        BY <2>2, <3>3, LinksAre
      <3> QED
        BY <1>1, <3>2, <3>3, <3>4 DEF Kept, Link, Holds
    <2> QED
      BY <1>3, <1>4, <2>3, <2>6, <2>7 DEF Locks
  <1> QED
    BY <1>5, <1>6

LEMMA RestoreKeeps == ASSUME Shape, Locks, Restore PROVE Locks'
  <1>1. /\ UNCHANGED <<reqs, disk, srv, call>> /\ page.rd = "digest"
        /\ page'.tok = page.tok /\ page'.scope = page.tok /\ page'.view = page.view
        /\ page'.conn = page.conn /\ page'.rd = "loop"
        /\ \A u \in page'.todo : u = NoRun \/ page'.lock[u].st = "UNKNOWN"
        /\ store'.scope = page.tok /\ store'.links = Links(page'.lock)
        /\ \A u \in Runs :
              \/ /\ page'.lock[u].st = "free"
                 /\ \A l \in store.links : ~(l.run = u /\ u \in page.view.runs /\ store.scope = page.tok)
              \/ /\ page'.lock[u].st = "UNKNOWN" /\ store.scope = page.tok
                 /\ \E l \in store.links : l.run = u /\ page'.lock[u].req = l.req
        /\ hist'.told = hist.told
        /\ hist'.stray = (hist.stray \/ \E r \in Sent : call[r] = "waiting" /\ reqs[r].kind # "prep")
    BY RestoreMoves
  <1>2. Sent' = Sent /\ Sent \subseteq Req /\ page.tok # 0 /\ page.scope # page.tok /\ Existing \subseteq page.view.runs
    BY <1>1, SentSame DEF Locks, Reading
  <1>3. Tokens'
    BY <1>1, <1>2 DEF Locks, Tokens, Shape, Pages
  <1>4. Reading'
    BY <1>1 DEF Reading, Locks
  <1>5. Named'
    <2>1. \A v \in Runs : page'.lock[v].st # "free" =>
            /\ page'.lock[v].req \in Sent /\ reqs[page'.lock[v].req].run = v
            /\ page.tok <= reqs[page'.lock[v].req].tok
      BY <1>1 DEF Locks, Named
    <2>2. \A l \in store'.links : /\ l.run \in Runs /\ page'.lock[l.run].st # "free" /\ l.req = page'.lock[l.run].req
      BY <1>1, LinksAre
    <2>3. \A l, m \in store'.links : l.run = m.run => l = m
      BY <1>1, LinksAre
    <2> QED
      BY <1>1, <1>2, <2>1, <2>2, <2>3 DEF Named
  <1>6. Waiting'
    BY <1>1, <1>2 DEF Waiting
  <1>7. Linked'
    <2> SUFFICES ASSUME NEW r \in Sent, Undecided(r)' PROVE Kept(r)'
      BY <1>2 DEF Linked
    <2>1. Undecided(r)
      BY <1>1 DEF Undecided
    <2>2. Kept(r) /\ reqs[r].run \in Runs
      BY <2>1, RunOfCommand DEF Locks, Linked, Undecided
    <2>3. page.tok = srv.life
      BY <1>2, <2>1 DEF Locks, Tokens, Undecided, Shape, Pages, ServerShape
    <2>4. page.scope # srv.life
      BY <1>2, <2>3
    <2>5. Link(r) \in store.links /\ store.scope = page.tok
      BY <2>2, <2>3, <2>4 DEF Kept
    <2>6. reqs[r].run \in page.view.runs
      BY <1>2, <2>1, <2>2 DEF Existing, Undecided
    <2>7. Link(r).run = reqs[r].run /\ Link(r).req = r
      BY DEF Link
    <2>8. page'.lock[reqs[r].run].st = "UNKNOWN" /\ page'.lock[reqs[r].run].req = r
      <3>1. page'.lock[reqs[r].run].st = "UNKNOWN" /\ \E l \in store.links : l.run = reqs[r].run /\ page'.lock[reqs[r].run].req = l.req
        BY <1>1, <2>2, <2>5, <2>6, <2>7
      <3>2. \A l \in store.links : l.run = reqs[r].run => l = Link(r)
        BY <2>5, <2>7 DEF Locks, Named
      <3> QED
        BY <2>7, <3>1, <3>2
    <2>9. [run |-> reqs[r].run, req |-> r] \in store'.links
      BY <1>1, <2>2, <2>8, LinksAre
    <2> QED
      BY <1>1, <2>3, <2>8, <2>9 DEF Kept, Link, Holds
  <1> QED
    BY <1>3, <1>4, <1>5, <1>6, <1>7 DEF Locks

LEMMA AskKeeps == ASSUME Shape, Locks, NEW u \in Runs \cup {NoRun}, AskReceipt(u) PROVE Locks'
  <1>1. /\ UNCHANGED <<reqs, disk, srv, call>> /\ page.rd = "loop" /\ u \in page.todo
        /\ page'.tok = page.tok /\ page'.scope = page.scope /\ page'.view = page.view
        /\ page'.conn = page.conn /\ page'.rd = "loop" /\ page'.todo = page.todo \ {u}
        /\ hist'.stray = hist.stray
        /\ \A s \in Req : hist'.told[s] = "none" => hist.told[s] = "none"
        /\ \/ page'.lock = page.lock /\ store' = store
           \/ /\ u \in Runs /\ disk.rcpt[page.lock[u].req] \in {"ok", "err"}
              /\ \A v \in Runs \ {u} : page'.lock[v] = page.lock[v]
              /\ page'.lock[u].st = "free"
              /\ store'.scope = page.scope /\ store'.links = Links(page'.lock)
    BY AskMoves
  <1>2. Sent' = Sent /\ Sent \subseteq Req
    BY <1>1, SentSame
  <1>3. Tokens'
    BY <1>1, <1>2 DEF Locks, Tokens
  <1>4. CASE page'.lock = page.lock /\ store' = store
    <2>1. Reading'
      BY <1>1, <1>4 DEF Locks, Reading
    <2>2. Named'
      BY <1>1, <1>2, <1>4 DEF Locks, Named
    <2>3. Waiting'
      BY <1>1, <1>2, <1>4 DEF Locks, Waiting, Holds
    <2>4. Linked'
      BY <1>1, <1>2, <1>4 DEF Locks, Linked, Undecided, Kept, Link, Holds
    <2> QED
      BY <1>3, <2>1, <2>2, <2>3, <2>4 DEF Locks
  <1>5. CASE /\ u \in Runs /\ disk.rcpt[page.lock[u].req] \in {"ok", "err"}
             /\ \A v \in Runs \ {u} : page'.lock[v] = page.lock[v]
             /\ page'.lock[u].st = "free"
             /\ store'.scope = page.scope /\ store'.links = Links(page'.lock)
    <2>1. Reading'
      BY <1>1, <1>5 DEF Locks, Reading, Shape, Pages
    <2>2. Named'
      BY <1>1, <1>5, NamedSaved
    <2>3. page.lock[u].st = "UNKNOWN"
      BY <1>1, <1>5, NoRunAssumption DEF Locks, Reading, NoRun
    <2>4. Waiting'
      <3> SUFFICES ASSUME ~hist.stray, NEW s \in Sent, call[s] = "waiting", reqs[s].kind # "prep"
                   PROVE  page'.lock[reqs[s].run].st = "RUNNING" /\ page'.lock[reqs[s].run].req = s
        BY <1>1, <1>2 DEF Waiting, Holds
      <3>1. page.lock[reqs[s].run].st = "RUNNING" /\ page.lock[reqs[s].run].req = s
        BY DEF Locks, Waiting, Holds
      <3> QED
        BY <1>5, <2>3, <3>1, RunOfCommand
    <2>5. Linked'
      <3> SUFFICES ASSUME NEW s \in Sent, Undecided(s)' PROVE Kept(s)'
        BY <1>2 DEF Linked
      <3>1. Undecided(s)
        BY <1>1, <1>2 DEF Undecided
      <3>2. page.scope = srv.life /\ Holds(s, {"RUNNING", "UNKNOWN"})
        BY <1>5, <2>3, <3>1 DEF Locks, Linked, Kept
      <3>3. reqs[s].run \in Runs \ {u}
        BY <1>5, <3>1, <3>2, RunOfCommand DEF Holds, Undecided
      <3>4. page'.lock[reqs[s].run].st \in {"RUNNING", "UNKNOWN"} /\ page'.lock[reqs[s].run].req = s
        BY <1>5, <3>2, <3>3 DEF Holds
      <3>5. [run |-> reqs[s].run, req |-> s] \in store'.links
        BY <1>5, <3>3, <3>4, LinksAre
      <3> QED
        BY <1>1, <3>2, <3>4, <3>5 DEF Kept, Link, Holds
    <2> QED
      BY <1>3, <2>1, <2>2, <2>4, <2>5 DEF Locks
  <1> QED
    BY <1>1, <1>4, <1>5

LEMMA TokensTyped == Shape => \A r \in Sent : reqs[r].tok \in Nat
  <1> SUFFICES ASSUME Shape, NEW r \in Sent PROVE reqs[r].tok \in Nat
    OBVIOUS
  <1>1. reqs[r] \in Requests
    BY DEF Shape, Sent
  <1> QED
    BY <1>1 DEF Requests

LEMMA RestartKeeps == ASSUME Shape, Locks, Restart PROVE Locks'
  <1>1. UNCHANGED <<reqs, disk, call, page, store, hist>> /\ srv'.life = srv.life + 1
    BY DEF Restart
  <1>2. Sent' = Sent /\ srv.life \in Nat /\ page.tok \in Nat /\ page.scope \in Nat /\ \A r \in Sent : reqs[r].tok \in Nat
    BY <1>1, SentSame, TokensTyped DEF Shape, ServerShape, Pages
  <1>3. Tokens'
    BY <1>1, <1>2 DEF Locks, Tokens
  <1>4. Reading'
    <2>1. Existing' = Existing
      BY <1>1 DEF Existing
    <2> QED
      BY <1>1, <2>1 DEF Locks, Reading
  <1>5. Named' /\ Waiting'
    BY <1>1, <1>2 DEF Locks, Named, Waiting, Holds
  <1>6. Linked'
    BY <1>1, <1>2 DEF Linked, Undecided, Locks, Tokens
  <1> QED
    BY <1>3, <1>4, <1>5, <1>6 DEF Locks

LEMMA LocksStep == Shape /\ Shape' /\ Locks /\ [Next]_vars => Locks'
  <1> SUFFICES ASSUME Shape, Shape', Locks, [Next]_vars PROVE Locks'
    OBVIOUS
  <1>1. ASSUME NEW k \in Kinds, Command(k)
        PROVE  Locks'
    BY <1>1, CommandKeeps
  <1>2. CASE Prepare
    BY <1>2, PrepareKeeps
  <1>3. CASE Reload
    BY <1>3, ReloadKeeps
  <1>4. ASSUME NEW r \in Req, Answer(r)
        PROVE  Locks'
    <2>1. /\ r \in Sent /\ call[r] = "waiting" /\ Settled(r, FALSE) /\ UNCHANGED <<reqs, disk, srv>>
          /\ net[r] \in Answers /\ hist' = [hist EXCEPT !.told[r] = net[r]]
      BY <1>4, Zenon DEF Answer
    <2>2. /\ hist'.stray = hist.stray /\ hist'.told[r] # "none"
          /\ \A s \in Req \ {r} : hist'.told[s] = hist.told[s]
      BY <2>1 DEF Shape, Hists, Answers
    <2> QED
      BY <2>1, <2>2, SettledKeeps
  <1>5. ASSUME NEW r \in Req, Unanswered(r)
        PROVE  Locks'
    <2>1. /\ r \in Sent /\ call[r] = "waiting" /\ Settled(r, TRUE) /\ UNCHANGED <<reqs, disk, srv, hist>>
      BY <1>5, Zenon DEF Unanswered
    <2> QED
      BY <2>1, SettledKeeps
  <1>6. CASE Refresh
    BY <1>6, RefreshIs, ReadsKeep DEF Locks
  <1>7. CASE ReadFails
    BY <1>7, ReadFailsIs, ReadsKeep DEF Locks
  <1>8. CASE ReadSession
    BY <1>8, ReadSessionIs, ReadsKeep DEF Locks
  <1>9. CASE ReadRefused
    BY <1>9, ReadRefusedIs, ReadsKeep DEF Locks
  <1>10. CASE ReadState
    BY <1>10, ReadStateIs, ReadsKeep DEF Locks
  <1>11. CASE ReadUnavailable
    BY <1>11, ReadUnavailableIs, ReadsKeep DEF Locks
  <1>12. CASE Restore
    BY <1>12, RestoreKeeps
  <1>13. CASE ReadDone
    BY <1>13, ReadDoneIs, ReadsKeep DEF Locks
  <1>14. ASSUME NEW u \in Runs \cup {NoRun}, AskReceipt(u)
        PROVE  Locks'
    BY <1>14, AskKeeps
  <1>15. ASSUME NEW r \in Req, Accept(r)
        PROVE  Locks'
    BY <1>15, ServerIs, ServesKeep
  <1>16. ASSUME NEW r \in Req, Join(r)
        PROVE  Locks'
    BY <1>16, ServerIs, ServesKeep
  <1>17. ASSUME NEW r \in Req, Refuse(r)
        PROVE  Locks'
    BY <1>17, ServerIs, ServesKeep
  <1>18. ASSUME NEW r \in Req, Copy(r)
        PROVE  Locks'
    BY <1>18, ServerIs, ServesKeep
  <1>19. ASSUME NEW r \in Req, Begin(r)
        PROVE  Locks'
    BY <1>19, ServerIs, ServesKeep
  <1>20. ASSUME NEW r \in Req, Replay(r)
        PROVE  Locks'
    BY <1>20, ServerIs, ServesKeep
  <1>21. ASSUME NEW r \in Req, NoRuntime(r)
        PROVE  Locks'
    BY <1>21, ServerIs, ServesKeep
  <1>22. ASSUME NEW r \in Req, Execute(r)
        PROVE  Locks'
    BY <1>22, ServerIs, ServesKeep
  <1>23. ASSUME NEW r \in Req, Reject(r)
        PROVE  Locks'
    BY <1>23, ServerIs, ServesKeep
  <1>24. ASSUME NEW r \in Req, Finish(r)
        PROVE  Locks'
    BY <1>24, ServerIs, ServesKeep
  <1>25. ASSUME NEW r \in Req, FinishFails(r)
        PROVE  Locks'
    BY <1>25, ServerIs, ServesKeep
  <1>26. CASE Restart
    BY <1>26, RestartKeeps
  <1>27. CASE UNCHANGED vars
    BY <1>27, SentSame DEF vars, Locks, Tokens, Reading, Existing, Named, Waiting, Linked,
                               Undecided, Kept, Link, Holds
  <1> QED
    BY <1>1, <1>2, <1>3, <1>4, <1>5, <1>6, <1>7, <1>8, <1>9, <1>10, <1>11, <1>12, <1>13, <1>14, <1>15, <1>16, <1>17, <1>18, <1>19, <1>20, <1>21, <1>22, <1>23, <1>24, <1>25, <1>26, <1>27 DEF Next

-----------------------------------------------------------------------------
(* The theorems *)

Inv == Shape /\ Books /\ Locks

LEMMA InvInit == Init => Inv
  <1> SUFFICES ASSUME Init PROVE Inv
    OBVIOUS
  <1>1. Sent = {}
    BY DEF Init, Sent
  <1>2. Books
    BY <1>1 DEF Init, Books, Unborn
  <1>3. Tokens /\ Reading /\ Named /\ Waiting /\ Linked
    BY <1>1 DEF Init, Tokens, Reading, Named, Waiting, Linked, FreshPage, Free, NoView
  <1> QED
    BY ShapeInit, <1>2, <1>3 DEF Inv, Locks

LEMMA InvStep == Inv /\ [Next]_vars => Inv'
  BY ShapeStep, BooksStep, LocksStep DEF Inv

THEOREM Invariant == Spec => []Inv
  BY InvInit, InvStep, PTL DEF Spec

\* A request takes effect at most once, however often it is delivered and
\* whatever is forgotten on the way
THEOREM NeverTwice == Spec => []AtMostOnce
  <1>1. Inv => AtMostOnce
    <2> SUFFICES ASSUME Inv, NEW r \in Req PROVE hist.effects[r] <= 1
      BY DEF AtMostOnce
    <2>1. hist.effects[r] = 0 \/ hist.effects[r] <= 1
      BY DEF Inv, Books, Unborn, Recorded
    <2> QED
      BY <2>1
  <1> QED
    BY Invariant, <1>1, PTL

\* What the page is told is so
THEOREM AnswersAreTrue == Spec => []ToldIsTrue
  <1>1. Inv => ToldIsTrue
    <2> SUFFICES ASSUME Inv, NEW r \in Sent
                 PROVE  /\ hist.told[r] = "ok" =>
                             /\ hist.effects[r] = 1
                             /\ disk.rcpt[r] = "ok" \/ (reqs[r].kind # "prep" /\ disk.ver[reqs[r].run] = 0)
                        /\ hist.told[r] = "refused" /\ hist.effects[r] > 0 => faults > 0
      BY DEF ToldIsTrue
    <2>1. Reported(r) /\ faults \in Nat
      BY DEF Inv, Books, Shape
    <2> QED
      BY <2>1 DEF Reported, Buried
  <1> QED
    BY Invariant, <1>1, PTL

\* A run is blocked for every undecided command of this page, and for none
\* that was sent to an earlier process
THEOREM LocksAlwaysJust == Spec => []LocksAreJust
  <1>1. Inv => UndecidedIsLinked
    BY DEF Inv, Locks, Linked, Undecided, Kept, Link, UndecidedIsLinked
  <1>2. Inv => NoForeignLock
    <2> SUFFICES ASSUME Inv, page.tok # 0, page.scope = page.tok, NEW u \in Runs, page.lock[u].st = "UNKNOWN"
                 PROVE  reqs[page.lock[u].req].tok = page.tok
      BY DEF NoForeignLock
    <2>1. page.lock[u].req \in Sent /\ page.tok <= reqs[page.lock[u].req].tok
      BY DEF Inv, Locks, Named
    <2>2. reqs[page.lock[u].req].tok <= page.tok
      BY <2>1 DEF Inv, Locks, Tokens
    <2>3. reqs[page.lock[u].req].tok \in Nat /\ page.tok \in Nat
      BY <2>1, TokensTyped DEF Inv, Shape, Pages
    <2> QED
      BY <2>1, <2>2, <2>3
  <1> QED
    BY Invariant, <1>1, <1>2, PTL DEF LocksAreJust

=============================================================================
