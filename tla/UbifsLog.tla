------------------------------- MODULE UbifsLog -------------------------------
(***************************************************************************)
(* The UBIFS log: a ring of LEBs with one reference node for every bud     *)
(* (every main area LEB that holds uncommitted nodes), started by a commit *)
(* start node.  The module has the bookkeeping of log.c, the commit of     *)
(* commit.c as far as the log is concerned, the mount-time replay of the   *)
(* log with its recovery, and ubifs_consolidate_log().                     *)
(*                                                                         *)
(* The master node is the durable cell that UbifsMaster implements: it is  *)
(* written in one step.  Sizes are in units of c->ref_node_alsz for the    *)
(* log and of one node for the main area.  An operation that fails half    *)
(* way is an action of its own (...Fails); a power cut in the middle of it *)
(* is that action followed by PowerCut.                                    *)
(***************************************************************************)
EXTENDS Integers, Sequences, FiniteSetsExt

CONSTANT Superblocks  \* the file systems looked at, see SuperblockAssumption

VARIABLE sb           \* the superblock, read at mount and never changed

LogLebs     == sb.log_lebs       \* c->log_lebs
LogSize     == sb.log_size       \* units in a log LEB
PerUnit     == sb.per_unit       \* nodes that fit in one unit when packed
JheadCnt    == sb.jhead_cnt      \* c->jhead_cnt
Main        == sb.main           \* LEB numbers of the main area
LebSize     == sb.leb_size       \* nodes in a main area LEB
MaxBudBytes == sb.max_bud_bytes  \* c->max_bud_bytes
Faults      == sb.faults         \* what a power cut may do, see below
MaxSqnum    == sb.max_sqnum      \* bound on the sequence numbers

(* init_constants_sb() raises c->max_bud_bytes to room for every head and    *)
(* two LEBs more.                                                            *)
(* "erase": a LEB that was unmapped while the journal is in use may come     *)
(* back after a power cut; "rcvry": so may one that was unmapped by the      *)
(* recovery of an unsound LEB or by ubifs_consolidate_log(); "gap":          *)
(* ubifs_consolidate_log() may be cut before it has unmapped all of them.    *)
ASSUME SuperblockAssumption ==
  \A s \in Superblocks :
    /\ s.log_lebs \in Nat /\ s.log_lebs >= 2
    /\ s.per_unit \in Nat \ {0} /\ s.jhead_cnt \in Nat \ {0} /\ s.leb_size \in Nat \ {0}
    /\ s.log_size \in Nat /\ (s.log_size - 1) * s.per_unit >= s.jhead_cnt + 1
    /\ s.main \in SUBSET Nat /\ IsFiniteSet(s.main)
    /\ s.max_bud_bytes \in Nat /\ s.max_bud_bytes > (s.jhead_cnt + 2) * s.leb_size
    /\ s.max_sqnum \in Nat
    /\ s.faults \subseteq {"erase", "rcvry", "gap"}

VARIABLES flash,      \* what the log LEBs read as
          stale,      \* what they read as when a pending erasure is lost
          mst,        \* the master node on flash
          fill,       \* end of the data in each main area LEB
          dsq,        \* highest sequence number in each main area LEB
          want,       \* history: the buds that a mount has to find
          pc,         \* where the program is
          buds,       \* c->buds: LEB number -> start, journal head
          old_buds,   \* c->old_buds
          wbuf,       \* position of the write-buffer of each journal head
          lhead,      \* c->lhead_lnum, c->lhead_offs
          ltail,      \* c->ltail_lnum
          old_ltail,  \* old_ltail_lnum of do_commit()
          min_log_bytes, bud_bytes, cmt_bud_bytes, cmt_no, max_sqnum

disk == <<flash, stale, mst, fill, dsq, want>>
acct == <<min_log_bytes, bud_bytes, cmt_bud_bytes, cmt_no, max_sqnum>>
vars == <<sb, disk, pc, buds, old_buds, wbuf, lhead, ltail, old_ltail, acct>>

-----------------------------------------------------------------------------
(* Sequences.                                                               *)

(* A set of numbers in ascending order, and the elements of a sequence at    *)
(* these places.                                                             *)
Sorted(S) ==
  [k \in 1 .. Cardinality(S) |-> CHOOSE x \in S : Cardinality({y \in S : y <= x}) = k]

Sub(seq, S) == [k \in 1 .. Cardinality(S) |-> seq[Sorted(S)[k]]]

(* The sequences of a sequence, one after the other.                         *)
Joined(ss) ==
  LET join[n \in 0 .. Len(ss)] == IF n = 0 THEN <<>> ELSE join[n - 1] \o ss[n]
  IN  join[Len(ss)]

-----------------------------------------------------------------------------
(* Log LEBs.                                                                *)

Log == 0 .. LogLebs - 1

Heads == 0 .. JheadCnt - 1

(* ubifs_next_log_lnum()                                                    *)
Next1(l) == (l + 1) % LogLebs

Blank == [nodes |-> <<>>, endpt |-> 0, torn |-> FALSE]

CsNode(no, sq) == [type |-> "cs", no |-> no, sqnum |-> sq]

RefNode(l, o, h, sq) ==
  [type |-> "ref", lnum |-> l, offs |-> o, jhead |-> h, sqnum |-> sq]

(* Units taken by n packed nodes.                                           *)
Units(n) == (n + PerUnit - 1) \div PerUnit

(* What a LEB holds after new nodes were programmed behind its end, and      *)
(* what it may hold when that failed: an unsound tail is all that is left of *)
(* the nodes that are not complete.                                          *)
Append1(leb, new) ==
  [nodes |-> leb.nodes \o new, endpt |-> leb.endpt + Units(Len(new)), torn |-> FALSE]

TornAppend(leb, new) ==
  {leb, Append1(leb, new)} \cup
  {[nodes |-> leb.nodes \o SubSeq(new, 1, k), endpt |-> leb.endpt + Units(k),
    torn  |-> TRUE] : k \in 0 .. Len(new) - 1}

(* Mutant: what is empty before the tail is forgotten.                       *)
EmptyLogBytesNoWrap ==
  LET h == lhead.lnum * LogSize + lhead.offs
      t == ltail * LogSize
  IN  IF h > t THEN LogLebs * LogSize - h
      ELSE IF h # t THEN t - h
      ELSE IF lhead.lnum # ltail THEN 0
      ELSE LogLebs * LogSize

(* empty_log_bytes()                                                        *)
EmptyLogBytes ==
  LET h == lhead.lnum * LogSize + lhead.offs
      t == ltail * LogSize
  IN  IF h > t THEN LogLebs * LogSize - h + t
      ELSE IF h # t THEN t - h
      ELSE IF lhead.lnum # ltail THEN 0
      ELSE LogLebs * LogSize

-----------------------------------------------------------------------------
(* ubifs_replay_journal(), the part that reads the log: the log LEBs from    *)
(* the tail on, until one is empty or holds nodes that are older than the    *)
(* commit start node of the tail.                                            *)

(* ubifs_recover_log_leb(): an unsound LEB is accepted on an unclean mount   *)
(* and when the next one is not part of the log.                             *)
CanRecoverLeb(f, m, l, cs_sqnum) ==
  LET next == f[Next1(l)] IN
  /\ m.dirty
  /\ \/ Next1(l) = m.lnum
     \/ /\ ~next.torn
        /\ next.nodes = <<>> \/ next.nodes[1].sqnum <= cs_sqnum

(* replay_log_leb(): this LEB is behind the end of the log.                  *)
EndOfLog(leb, cs_sqnum) ==
  leb.nodes = <<>> \/ leb.nodes[1].sqnum < cs_sqnum

Refs(leb) == Sub(leb.nodes, {i \in DOMAIN leb.nodes : leb.nodes[i].type = "ref"})

(* validate_ref(): a LEB is referred to again only by the same head and not  *)
(* before its start.                                                         *)
ValidRefs(refs) ==
  \A i, j \in DOMAIN refs :
    i < j /\ refs[i].lnum = refs[j].lnum
      => refs[i].jhead = refs[j].jhead /\ refs[i].offs <= refs[j].offs

(* The first reference to every LEB, in log order: the buds to replay.       *)
FirstRefs(refs) ==
  Sub(refs, {i \in DOMAIN refs : \A j \in 1 .. i - 1 : refs[j].lnum # refs[i].lnum})

BudsOf(refs) ==
  [l \in {refs[i].lnum : i \in DOMAIN refs} |->
     LET r == refs[CHOOSE i \in DOMAIN refs : refs[i].lnum = l]
     IN  [start |-> r.offs, jhead |-> r.jhead]]

Replay(f, m) ==
  LET At(i)    == f[(m.lnum + i) % LogLebs]
      sound    == /\ At(0).nodes # <<>>
                  /\ At(0).nodes[1].type = "cs"
                  /\ At(0).nodes[1].no = m.cmt_no
      cs_sqnum == At(0).nodes[1].sqnum
      cnt      == Min({i \in 1 .. LogLebs : i = LogLebs \/ EndOfLog(At(i), cs_sqnum)})
      scanned  == 0 .. Min({cnt, LogLebs - 1})
      nodes    == Joined([i \in 1 .. cnt |-> At(i - 1).nodes])
      refs     == Joined([i \in 1 .. cnt |-> Refs(At(i - 1))])
      first    == FirstRefs(refs)
      buds0    == BudsOf(first)
  IN
  IF ~sound THEN [ok |-> FALSE]
  ELSE [ok    |-> /\ \A i \in scanned : At(i).torn =>
                       CanRecoverLeb(f, m, (m.lnum + i) % LogLebs, cs_sqnum)
                  /\ \A i \in DOMAIN nodes : nodes[i].sqnum >= cs_sqnum
                  /\ \A i \in 0 .. cnt - 1 : \A k \in 2 .. Len(At(i).nodes) :
                       At(i).nodes[k].type = "ref"
                  /\ ValidRefs(refs),
        torn  |-> {(m.lnum + i) % LogLebs : i \in {j \in scanned : At(j).torn}},
        lhead |-> [lnum |-> (m.lnum + cnt - 1) % LogLebs, offs |-> At(cnt - 1).endpt],
        first |-> first,
        buds  |-> buds0,
        sqnum |-> Max({m.sqnum} \cup {nodes[i].sqnum : i \in DOMAIN nodes}
                      \cup {dsq[l] : l \in DOMAIN buds0})]

-----------------------------------------------------------------------------
(* Steps.                                                                   *)

NoLeb == -1

BudBytes(b) == SumFunction([l \in DOMAIN b |-> LebSize - b[l].start])

(* What is in memory when the file system is not mounted does not matter.    *)
Unmounted ==
  /\ buds' = <<>> /\ old_buds' = {}
  /\ wbuf' = [h \in Heads |-> [lnum |-> NoLeb, offs |-> 0]]
  /\ lhead' = [lnum |-> 0, offs |-> 0] /\ ltail' = 0 /\ old_ltail' = 0
  /\ min_log_bytes' = 0 /\ bud_bytes' = 0 /\ cmt_bud_bytes' = 0
  /\ cmt_no' = 0 /\ max_sqnum' = 0

(* mkfs.ubifs: write_log() writes a commit start node and nothing else.      *)
Init ==
  /\ sb \in Superblocks
  /\ flash = [l \in Log |-> IF l = 0 THEN Append1(Blank, <<CsNode(0, 1)>>) ELSE Blank]
  /\ stale = flash
  /\ mst = [lnum |-> 0, cmt_no |-> 0, sqnum |-> 2, dirty |-> FALSE]
  /\ fill = [l \in Main |-> 0] /\ dsq = [l \in Main |-> 0]
  /\ want = <<>>
  /\ pc = "off"
  /\ buds = <<>> /\ old_buds = {}
  /\ wbuf = [h \in Heads |-> [lnum |-> NoLeb, offs |-> 0]]
  /\ lhead = [lnum |-> 0, offs |-> 0] /\ ltail = 0 /\ old_ltail = 0
  /\ min_log_bytes = 0 /\ bud_bytes = 0 /\ cmt_bud_bytes = 0
  /\ cmt_no = 0 /\ max_sqnum = 0

LebUnmap(S) ==
  /\ flash' = [l \in Log |-> IF l \in S THEN Blank ELSE flash[l]]
  /\ stale' = [l \in Log |-> IF l \in S /\ "erase" \notin Faults THEN Blank ELSE stale[l]]

LebPut(l, leb) == /\ flash' = [flash EXCEPT ![l] = leb]
                  /\ stale' = [stale EXCEPT ![l] = leb]

(* ubifs_recover_leb() of the unsound LEBs of the log: what is left of them  *)
(* is written back, or they are unmapped when nothing is left.               *)
FixUncleanLebs(S) ==
  LET Fixed(l) == [flash[l] EXCEPT !.torn = FALSE] IN
  /\ flash' = [l \in Log |-> IF l \notin S THEN flash[l] ELSE
                              IF flash[l].nodes = <<>> THEN Blank ELSE Fixed(l)]
  /\ stale' = [l \in Log |-> IF l \notin S THEN stale[l] ELSE
                              IF flash[l].nodes # <<>> THEN Fixed(l) ELSE
                              IF "rcvry" \in Faults THEN stale[l] ELSE Blank]

(* set_bud_lprops() makes each head point to the last of its buds.           *)
HeadAfterReplay(first, h) ==
  LET mine == {i \in DOMAIN first : first[i].jhead = h}
      l    == first[Max(mine)].lnum
  IN  IF mine = {} THEN [lnum |-> NoLeb, offs |-> 0]
      ELSE [lnum |-> l, offs |-> fill[l]]

(* The log is so full that no LEB is left for the next commit.               *)
LogIsFull(head, tail) == Next1(head) = tail

(* ubifs_load_filesystem(), read-write.  A clean master node is marked       *)
(* dirty before the journal is read.                                         *)
Mount ==
  /\ pc = "off"
  /\ LET r == Replay(flash, mst) IN
     IF ~r.ok THEN pc' = "failed" /\ UNCHANGED <<flash, stale, mst>> /\ Unmounted
     ELSE
       /\ FixUncleanLebs(r.torn)
       /\ mst' = IF mst.dirty THEN mst
                 ELSE [mst EXCEPT !.dirty = TRUE, !.sqnum = @ + 1]
       /\ buds' = r.buds /\ old_buds' = {}
       /\ wbuf' = [h \in Heads |-> HeadAfterReplay(r.first, h)]
       /\ lhead' = r.lhead /\ ltail' = mst.lnum /\ old_ltail' = 0
       /\ min_log_bytes' = LogSize
       /\ bud_bytes' = BudBytes(r.buds) /\ cmt_bud_bytes' = 0
       /\ cmt_no' = mst.cmt_no
       /\ max_sqnum' = Max({r.sqnum, mst'.sqnum})
       /\ pc' = IF LogIsFull(r.lhead.lnum, mst.lnum) THEN "full" ELSE "rest"
  /\ UNCHANGED <<fill, dsq, want>>

(* Mutant: references that are in the log already are kept.                  *)
ConsolidatedAll ==
  LET cnt   == ((lhead.lnum - ltail + LogLebs) % LogLebs) + 1
      At(i) == flash[(ltail + i) % LogLebs]
      nodes == <<At(0).nodes[1]>> \o Joined([i \in 1 .. cnt |-> Refs(At(i - 1))])
      cap   == LogSize * PerUnit
  IN  [k \in 1 .. (Len(nodes) + cap - 1) \div cap |->
         LET s == SubSeq(nodes, (k - 1) * cap + 1, Min({k * cap, Len(nodes)})) IN
         [nodes |-> s, endpt |-> Units(Len(s)), torn |-> FALSE]]

(* ubifs_consolidate_log(): the first commit start node and the first        *)
(* reference to every LEB, packed into LEBs from the tail on.                *)
Consolidated ==
  LET cnt   == ((lhead.lnum - ltail + LogLebs) % LogLebs) + 1
      At(i) == flash[(ltail + i) % LogLebs]
      nodes == <<At(0).nodes[1]>> \o
               FirstRefs(Joined([i \in 1 .. cnt |-> Refs(At(i - 1))]))
      cap   == LogSize * PerUnit
  IN  [k \in 1 .. (Len(nodes) + cap - 1) \div cap |->
         LET s == SubSeq(nodes, (k - 1) * cap + 1, Min({k * cap, Len(nodes)})) IN
         [nodes |-> s, endpt |-> Units(Len(s)), torn |-> FALSE]]

(* The first k of these LEBs written, and the next u LEBs unmapped.          *)
ConsolidateLebs(k, u) ==
  LET lebs   == Consolidated
      Pos(l) == (l - ltail + LogLebs) % LogLebs
  IN
  /\ flash' = [l \in Log |-> IF Pos(l) < k THEN lebs[Pos(l) + 1] ELSE
                             IF Pos(l) < k + u THEN Blank ELSE flash[l]]
  /\ stale' = [l \in Log |-> IF Pos(l) < k THEN lebs[Pos(l) + 1] ELSE
                             IF Pos(l) < k + u /\ "rcvry" \notin Faults THEN Blank ELSE stale[l]]

Consolidate ==
  LET n    == Len(Consolidated)
      last == (ltail + n - 1) % LogLebs
  IN
  /\ pc = "full"
  /\ IF last = lhead.lnum
     THEN ConsolidateLebs(n, 0) /\ pc' = "failed" /\ UNCHANGED lhead
     ELSE /\ ConsolidateLebs(n, LogLebs - n)
          /\ lhead' = [lnum |-> last, offs |-> Consolidated[n].endpt]
          /\ pc' = "rest"
  /\ UNCHANGED <<mst, fill, dsq, want, buds, old_buds, wbuf, ltail, old_ltail, acct>>

ConsolidateFails ==
  /\ pc = "full"
  /\ \E k \in 0 .. Len(Consolidated) : \E u \in 0 .. LogLebs - k :
       /\ u > 0 => k = Len(Consolidated) /\ "gap" \in Faults
       /\ ConsolidateLebs(k, u)
  /\ pc' = "error"
  /\ UNCHANGED <<mst, fill, dsq, want, buds, old_buds, wbuf, lhead, ltail,
                 old_ltail, acct>>

(* A node goes to a journal head (write_head() and the write-buffer).        *)
WriteNode(h) ==
  LET l == wbuf[h].lnum IN
  /\ pc = "rest" /\ max_sqnum < MaxSqnum
  /\ l # NoLeb /\ wbuf[h].offs < LebSize
  /\ max_sqnum' = max_sqnum + 1
  /\ fill' = [fill EXCEPT ![l] = @ + 1]
  /\ dsq' = [dsq EXCEPT ![l] = max_sqnum + 1]
  /\ wbuf' = [wbuf EXCEPT ![h].offs = @ + 1]
  /\ UNCHANGED <<flash, stale, mst, want, pc, buds, old_buds, lhead, ltail,
                 old_ltail, min_log_bytes, bud_bytes, cmt_bud_bytes, cmt_no>>

(* Mutant: no LEB is kept for the commit start node.                         *)
LogHasRoomNoReserve(o) ==
  /\ EmptyLogBytes - 1 >= 0
  /\ bud_bytes + LebSize - o <= MaxBudBytes

(* ubifs_add_bud_to_log() has room for one more reference node, and the      *)
(* journal may grow by the bud.  Otherwise -EAGAIN: commit and try again.    *)
LogHasRoom(o) ==
  /\ EmptyLogBytes - 1 >= min_log_bytes
  /\ bud_bytes + LebSize - o <= MaxBudBytes

(* The LEB and offset that reserve_space() found for the bud: free space at  *)
(* the end of a LEB, or a LEB that was garbage collected.                    *)
CanBeBud(l, o) ==
  /\ l \notin DOMAIN buds \cup old_buds
  /\ o \in {0, fill[l]} /\ o < LebSize

(* The log head, moved to the next LEB when this one is full.                *)
HeadForRef ==
  IF lhead.offs > LogSize - 1 THEN [lnum |-> Next1(lhead.lnum), offs |-> 0] ELSE lhead

(* ubifs_add_bud()                                                           *)
WithBud(b, l, o, h) ==
  [x \in DOMAIN b \cup {l} |-> IF x = l THEN [start |-> o, jhead |-> h] ELSE b[x]]

AddBud(h, l, o) ==
  LET hd  == HeadForRef
      leb == IF hd.offs = 0 THEN Blank ELSE flash[hd.lnum]
      ref == RefNode(l, o, h, max_sqnum + 1)
  IN
  /\ pc = "rest" /\ max_sqnum < MaxSqnum
  /\ CanBeBud(l, o) /\ LogHasRoom(o)
  /\ LebPut(hd.lnum, Append1(leb, <<ref>>))
  /\ lhead' = [hd EXCEPT !.offs = @ + 1]
  /\ buds' = WithBud(buds, l, o, h) /\ want' = WithBud(want, l, o, h)
  /\ wbuf' = [wbuf EXCEPT ![h] = [lnum |-> l, offs |-> o]]
  /\ fill' = [fill EXCEPT ![l] = o]
  /\ dsq' = [dsq EXCEPT ![l] = IF o = 0 THEN 0 ELSE @]
  /\ bud_bytes' = bud_bytes + LebSize - o
  /\ max_sqnum' = max_sqnum + 1
  /\ UNCHANGED <<mst, pc, old_buds, ltail, old_ltail, min_log_bytes,
                 cmt_bud_bytes, cmt_no>>

AddBudFails(h, l, o) ==
  LET hd  == HeadForRef
      leb == IF hd.offs = 0 THEN Blank ELSE flash[hd.lnum]
      ref == RefNode(l, o, h, max_sqnum + 1)
  IN
  /\ pc = "rest" /\ max_sqnum < MaxSqnum
  /\ CanBeBud(l, o) /\ LogHasRoom(o)
  /\ \E new \in TornAppend(leb, <<ref>>) :
       /\ IF new = Blank THEN LebUnmap({hd.lnum}) ELSE LebPut(hd.lnum, new)
       /\ want' = IF new = Append1(leb, <<ref>>) THEN WithBud(want, l, o, h) ELSE want
  /\ fill' = [fill EXCEPT ![l] = o]
  /\ dsq' = [dsq EXCEPT ![l] = IF o = 0 THEN 0 ELSE @]
  /\ pc' = "error"
  /\ UNCHANGED <<mst, buds, old_buds, wbuf, lhead, ltail, old_ltail, acct>>

(* ubifs_log_start_commit(): a commit start node and a reference node for    *)
(* every head that has a LEB with room in it.                                *)
OpenHeads ==
  Sorted({h \in Heads : wbuf[h].lnum # NoLeb /\ wbuf[h].offs # LebSize})

CommitNodes ==
  <<CsNode(cmt_no + 1, max_sqnum + 1)>> \o
  [i \in 1 .. Len(OpenHeads) |->
     LET w == wbuf[OpenHeads[i]] IN
     RefNode(w.lnum, w.offs, OpenHeads[i], max_sqnum + 1 + i)]

(* The LEB the commit start node is written to.                              *)
CommitLeb == IF lhead.offs # 0 THEN Next1(lhead.lnum) ELSE lhead.lnum

(* Mutant: the buds of the journal heads are dropped as well.                *)
HeadBudsDropped == {}

(* remove_buds(): the buds that journal heads point to stay, and start where *)
(* the head is now.                                                          *)
HeadBuds == {l \in DOMAIN buds : wbuf[buds[l].jhead].lnum = l}

(* Mutant: a bud that stays counts as removed whole.                         *)
RemovedBytesWhole == SumFunction([l \in DOMAIN buds |-> LebSize - buds[l].start])

RemovedBytes ==
  SumFunction([l \in DOMAIN buds |-> (IF l \in HeadBuds THEN wbuf[buds[l].jhead].offs
                                      ELSE LebSize) - buds[l].start])

StartCommit ==
  LET nodes == CommitNodes IN
  /\ pc = "rest" /\ max_sqnum + Len(nodes) < MaxSqnum
  /\ LebPut(CommitLeb, Append1(Blank, nodes))
  /\ lhead' = [lnum |-> CommitLeb, offs |-> Units(Len(nodes))]
  /\ cmt_bud_bytes' = RemovedBytes
  /\ buds' = [l \in HeadBuds |-> [buds[l] EXCEPT !.start = wbuf[buds[l].jhead].offs]]
  /\ old_buds' = DOMAIN buds \ HeadBuds
  /\ min_log_bytes' = 0
  /\ cmt_no' = cmt_no + 1
  /\ max_sqnum' = max_sqnum + Len(nodes)
  /\ pc' = "started"
  /\ UNCHANGED <<mst, fill, dsq, want, wbuf, ltail, old_ltail, bud_bytes>>

StartCommitFails ==
  /\ pc = "rest" /\ max_sqnum + Len(CommitNodes) < MaxSqnum
  /\ \E new \in TornAppend(Blank, CommitNodes) :
       IF new = Blank THEN LebUnmap({CommitLeb}) ELSE LebPut(CommitLeb, new)
  /\ pc' = "error"
  /\ UNCHANGED <<mst, fill, dsq, want, buds, old_buds, wbuf, lhead, ltail,
                 old_ltail, acct>>

(* do_commit() after the index, the LPT and the orphans are written: the     *)
(* master node gets the new log tail.  The last commit of a session clears   *)
(* the dirty flag.                                                           *)
NewMaster(final) ==
  [lnum |-> lhead.lnum, cmt_no |-> cmt_no, sqnum |-> max_sqnum + 1, dirty |-> ~final]

(* What is behind the write-buffers' positions is all that the new index     *)
(* does not have.                                                            *)
CommittedBuds ==
  [l \in {wbuf[OpenHeads[i]].lnum : i \in DOMAIN OpenHeads} |->
     LET h == CHOOSE h \in Heads : wbuf[h].lnum = l
     IN  [start |-> wbuf[h].offs, jhead |-> h]]

EndCommit(final) ==
  /\ pc = "started"
  /\ old_ltail' = ltail
  /\ ltail' = lhead.lnum
  /\ min_log_bytes' = LogSize
  /\ bud_bytes' = bud_bytes - cmt_bud_bytes
  /\ mst' = NewMaster(final)
  /\ max_sqnum' = max_sqnum + 1
  /\ want' = CommittedBuds
  /\ pc' = "ended"
  /\ UNCHANGED <<flash, stale, fill, dsq, buds, old_buds, wbuf, lhead,
                 cmt_bud_bytes, cmt_no>>

(* The index, the LPT, the orphans or the master node cannot be written; the *)
(* last one may have reached the flash all the same.                         *)
EndCommitFails(final) ==
  /\ pc = "started"
  /\ \/ mst' = NewMaster(final) /\ want' = CommittedBuds
     \/ UNCHANGED <<mst, want>>
  /\ pc' = "error"
  /\ UNCHANGED <<flash, stale, fill, dsq, buds, old_buds, wbuf, lhead, ltail,
                 old_ltail, acct>>

(* ubifs_log_post_commit(): the first n log LEBs of the old log.             *)
OldLog(n) == {(old_ltail + i) % LogLebs : i \in 0 .. n - 1}

(* Mutant: the first LEB of the new log is unmapped as well.                 *)
OldLogCntTooFar == ((ltail - old_ltail + LogLebs) % LogLebs) + 1

OldLogCnt == (ltail - old_ltail + LogLebs) % LogLebs

PostCommit ==
  /\ pc = "ended"
  /\ old_buds' = {}
  /\ LebUnmap(OldLog(OldLogCnt))
  /\ pc' = IF mst.dirty THEN "rest" ELSE "done"
  /\ UNCHANGED <<mst, fill, dsq, want, buds, wbuf, lhead, ltail, old_ltail, acct>>

PostCommitFails ==
  /\ pc = "ended"
  /\ \E n \in 0 .. OldLogCnt : LebUnmap(OldLog(n))
  /\ old_buds' = {}
  /\ pc' = "error"
  /\ UNCHANGED <<mst, fill, dsq, want, buds, wbuf, lhead, ltail, old_ltail, acct>>

(* The process ends.                                                         *)
Stop ==
  /\ pc \in {"done", "error", "rest", "failed"}
  /\ pc' = "off"
  /\ Unmounted
  /\ UNCHANGED disk

(* What the log may read as if the power went now.                           *)
AfterCut ==
  {[l \in Log |-> IF l \in S THEN stale[l] ELSE flash[l]] :
     S \in SUBSET {l \in Log : stale[l] # flash[l]}}

PowerCut ==
  /\ pc \notin {"off", "failed"}
  /\ pc' = "off"
  /\ flash' \in AfterCut
  /\ stale' = flash'
  /\ Unmounted
  /\ UNCHANGED <<mst, fill, dsq, want>>

Next ==
  /\ UNCHANGED sb
  /\ \/ Mount \/ Consolidate \/ ConsolidateFails
     \/ \E h \in Heads : WriteNode(h)
     \/ \E h \in Heads, l \in Main, o \in 0 .. LebSize - 1 :
          AddBud(h, l, o) \/ AddBudFails(h, l, o)
     \/ StartCommit \/ StartCommitFails
     \/ \E final \in BOOLEAN : EndCommit(final) \/ EndCommitFails(final)
     \/ PostCommit \/ PostCommitFails
     \/ Stop \/ PowerCut

Spec == Init /\ [][Next]_vars

-----------------------------------------------------------------------------
(* Properties.                                                              *)

Bud == [start : 0 .. LebSize, jhead : Heads]

TypeOK ==
  /\ DOMAIN flash = Log /\ DOMAIN stale = Log
  /\ \A l \in Log : flash[l].endpt \in 0 .. LogSize /\ stale[l].endpt \in 0 .. LogSize
  /\ mst \in [lnum : Log, cmt_no : Nat, sqnum : Nat, dirty : BOOLEAN]
  /\ fill \in [Main -> 0 .. LebSize] /\ dsq \in [Main -> Nat]
  /\ want \in UNION {[S -> Bud] : S \in SUBSET Main}
  /\ buds \in UNION {[S -> Bud] : S \in SUBSET Main}
  /\ old_buds \in SUBSET Main
  /\ wbuf \in [Heads -> [lnum : Main \cup {NoLeb}, offs : 0 .. LebSize]]
  /\ lhead \in [lnum : Log, offs : 0 .. LogSize]
  /\ ltail \in Log /\ old_ltail \in Log
  /\ min_log_bytes \in {0, LogSize}
  /\ bud_bytes \in Nat /\ cmt_bud_bytes \in Nat
  /\ cmt_no \in Nat /\ max_sqnum \in Nat

(* After a stop or a power cut at any point, in the middle of a commit or of *)
(* a failed commit after failed commits included, the replay accepts the log *)
(* and finds exactly the buds that were added since the last commit that     *)
(* reached the master node.  A consolidation may be cut anywhere too, except *)
(* between two unmaps ("gap" with more than two LEBs in the log): a LEB that *)
(* is left then has a commit start node newer than the log before it, and if *)
(* a later write to the log is torn, ubifs_recover_log_leb() refuses it.     *)
Recoverable ==
  \A f \in AfterCut : LET r == Replay(f, mst) IN r.ok /\ r.buds = want

(* Every bud that a replay would read is still taken in memory: it is in     *)
(* c->buds or c->old_buds, so its LEB is neither written nor erased.         *)
BudsKept ==
  pc \in {"rest", "full", "started", "ended"} =>
    DOMAIN want \subseteq DOMAIN buds \cup old_buds

(* While the journal is in use the log head can always move to a LEB that is *)
(* not the tail (the assertions in ubifs_add_bud_to_log() and                *)
(* ubifs_log_start_commit()), so a commit can always start, and what is      *)
(* behind the head is blank.                                                 *)
HeadRoom ==
  pc = "rest" => /\ Next1(lhead.lnum) # ltail
                 /\ lhead.offs = flash[lhead.lnum].endpt
                 /\ ~flash[lhead.lnum].torn

(* c->bud_bytes is the space from the start to the end of every bud, after a *)
(* replay, a new bud and a commit that moved the buds of the journal heads.  *)
BudBytesRight == pc = "rest" => bud_bytes = BudBytes(buds)

(* make_reservation() commits when ubifs_add_bud_to_log() says -EAGAIN and   *)
(* tries again: right after a commit there is room for a bud, for every head *)
(* and every bud, so it never ends in "stuck in space allocation".           *)
CommitMakesRoom ==
  pc = "ended" => \A o \in 0 .. LebSize - 1 :
                    LogHasRoom(o)

(* However many commits failed, the reference nodes fit in the log when      *)
(* ubifs_consolidate_log() has packed them and one LEB is left for a commit: *)
(* neither it nor the replay refuses the log.                                *)
NeverTooFull == pc # "failed"

(* The log never gets stuck: ubifs_add_bud_to_log() and                      *)
(* ubifs_log_start_commit() find the head before the tail, on blank flash,   *)
(* and ubifs_consolidate_log() makes the log fit after failed commits.       *)
LogNeverStuck == HeadRoom /\ NeverTooFull

(* The buds in memory (c->buds, c->old_buds, c->bud_bytes) account for all   *)
(* that the replay of the log on flash would read.                           *)
BudsRight == BudsKept /\ BudBytesRight
=============================================================================
