------------------------------- MODULE Fdasd -------------------------------
(***************************************************************************)
(* fdasd, the partitioning tool: sessions that read the labels of a DASD,  *)
(* edit the partitions with the commands of the menu and write the labels  *)
(* back, and the two modes that write a whole table at once.  The list of  *)
(* partitions, the counters of free tracks between them, the free-space    *)
(* label, the counts in the format 4 label and the map from data set       *)
(* numbers to positions are all kept side by side and changed one by one.  *)
(* Positions in partno count from 0, as in the code.                       *)
(***************************************************************************)
EXTENDS FreeSpace, Sequences, SequencesExt

CONSTANTS Cylinders,    \* formatted cylinders
          CcSize,       \* values of the cylinder field of an address, 2^16
          Sectors,      \* labels that fit in the VTOC track
          MaxParts,     \* USABLE_PARTITIONS
          Volsers,      \* volume serials
          Types,        \* partition types, with "NATIVE"
          MaxEdits,     \* bound: changes in a session
          Sizes         \* kinds of volumes, a subset of {"small", "big", "large"}

ASSUME FdasdAssumption ==
  /\ Cylinders \in Nat \ {0} /\ Heads \in 3 .. 16 /\ CcSize \in Nat \ {0}
  /\ MaxParts \in Nat \ {0} /\ MaxParts < Slots5 /\ MaxParts < Slots7
  /\ Sectors \in Nat /\ Sectors > MaxParts + 2
  /\ "NATIVE" \in Types /\ Sizes \subseteq {"small", "big", "large"}

VARIABLES
  size,     \* "small": format 5; "big": format 7; "large": format 7 and 8
  disk,     \* the labels on the volume
  pc,       \* "off", "menu", or "torn" after a write that ended in the middle
  parts,    \* the used elements of the list anc->first ... anc->last
  gap,      \* anc->fspace_trk, free tracks in front of the first partition
  used,     \* anc->used_partitions
  dsrec,    \* f4->DS4DSREC, labels not in use
  highest,  \* f4->DS4HPCHR, record of the last format 1 or 8 label, or 0
  free,     \* f5 or f7
  partno,   \* anc->partno, position of each data set number, or -1
  volser,   \* serial in anc->vlabel
  changed,  \* vtoc_changed, vlabel_changed
  edits     \* commands of this session so far that changed something

mem == <<parts, gap, used, dsrec, highest, free, partno, volser, changed, edits>>
vars == <<size, disk, pc, mem>>

First == 2                      \* FIRST_USABLE_TRK
Limit == Cylinders * Heads - 1
Usable == First .. Limit
Big == size # "small"

Numbers == 0 .. (MaxParts - 1)
NoPos == [d \in Numbers |-> -1]

\* The address of a track on a label: the low bits of the cylinder, and the
\* head in four bits with the other bits of the cylinder in front of them
Cchh(t) == [cc |-> (t \div Heads) % CcSize,
            hh |-> ((t \div Heads) \div CcSize) * 16 + (t % Heads)]

Track(p) == ((p.hh \div 16) * CcSize + p.cc) * Heads + (p.hh % 16)

\* The data set name of a partition by its number and type.  Number 0 is the
\* name "PART    .NEW" of a partition not yet written, -1 is one that has lost
\* its number ("PART.NEW").
NewName == [no |-> 0, type |-> "NEW"]

Part(s, e, f, n) == [start |-> s, end |-> e, fspace |-> f, name |-> n]

LengthOf(p) == p.end - p.start + 1

-----------------------------------------------------------------------------
(* Labels.                                                                 *)

InPart(x, ps) == \E i \in DOMAIN ps : ps[i].start <= x /\ x <= ps[i].end

\* Record of the last partition label: behind those of format 4, 5 and 7, and
\* on a large volume each format 8 label is followed by a format 9 label
HighestLabel(n) ==
  n + 2 + (IF Big THEN 1 ELSE 0) + (IF size = "large" THEN n - 1 ELSE 0)

\* The partition labels on disk, their addresses as tracks
OnDisk == [i \in DOMAIN disk.f1 |->
             [start |-> Track(disk.f1[i].start), end |-> Track(disk.f1[i].end),
              name |-> disk.f1[i].name]]

\* The free-space label of a volume without partitions
WholeFree == AddFree(Big, EmptyLabel, First, Limit)

\* The counters of a list of partitions, by their extents
Gaps(ps) ==
  [i \in DOMAIN ps |->
     [ps[i] EXCEPT !.fspace =
        (IF i = Len(ps) THEN Limit ELSE ps[i + 1].start - 1) - ps[i].end]]

FirstGap(ps) == IF ps = << >> THEN Limit - First + 1 ELSE ps[1].start - First

\* The free-space label made from the counters
FromCounters(g, ps) ==
  LET add[i \in 0 .. Len(ps)] ==
        IF i = 0
        THEN IF g > 0 THEN AddFree(Big, EmptyLabel, First, First + g - 1)
                      ELSE EmptyLabel
        ELSE IF ps[i].fspace > 0
             THEN AddFree(Big, add[i - 1], ps[i].end + 1, ps[i].end + ps[i].fspace)
             ELSE add[i - 1]
  IN add[Len(ps)]

\* What is in memory while fdasd does not run
Idle == /\ parts' = << >> /\ gap' = 0 /\ used' = 0 /\ dsrec' = 0 /\ highest' = 0
        /\ free' = EmptyLabel /\ partno' = NoPos /\ volser' = CHOOSE v \in Volsers : TRUE
        /\ changed' = [vtoc |-> FALSE, vlabel |-> FALSE] /\ edits' = 0

\* A volume that dasdfmt has formatted, or one with labels missing
Blank(k, v) == [kind |-> k, volser |-> v, dsrec |-> 0, highest |-> 0,
                free |-> EmptyLabel, f1 |-> << >>]

Init ==
  /\ size \in Sizes /\ pc = "off"
  /\ \E k \in {"nolabel", "nopointer", "novtoc"}, v \in Volsers : disk = Blank(k, v)
  /\ parts = << >> /\ gap = 0 /\ used = 0 /\ dsrec = 0 /\ highest = 0
  /\ free = EmptyLabel /\ partno = NoPos /\ volser = CHOOSE v \in Volsers : TRUE
  /\ changed = [vtoc |-> FALSE, vlabel |-> FALSE] /\ edits = 0

-----------------------------------------------------------------------------
(* Start: fdasd_check_volume.                                              *)

\* fdasd_process_invalid_vtoc, fdasd_invalid_vtoc_pointer and the branch
\* without a VOL1 label: a new VTOC, which is not on disk yet
StartNew ==
  /\ pc = "off" /\ disk.kind # "vtoc"
  /\ pc' = "menu" /\ parts' = << >> /\ gap' = Limit - First + 1
  /\ used' = 0 /\ dsrec' = Sectors - 2 /\ highest' = 0
  /\ free' = WholeFree /\ partno' = NoPos
  /\ changed' = [vtoc |-> TRUE, vlabel |-> disk.kind # "novtoc"]
  /\ IF disk.kind = "nolabel" THEN volser' \in Volsers ELSE volser' = disk.volser
  /\ edits' = 0 /\ UNCHANGED <<size, disk>>

\* fdasd_process_valid_vtoc: the labels as read, in the order they were read,
\* and the counters computed from them
StartRead ==
  /\ pc = "off" /\ disk.kind = "vtoc"
  /\ pc' = "menu"
  /\ parts' = Gaps([i \in DOMAIN disk.f1 |->
                      Part(OnDisk[i].start, OnDisk[i].end, 0, OnDisk[i].name)])
  /\ gap' = FirstGap(OnDisk)
  /\ dsrec' = disk.dsrec /\ used' = Sectors - 2 - disk.dsrec
  /\ highest' = disk.highest /\ free' = disk.free
  /\ partno' = [d \in Numbers |->
       LET at == {i \in DOMAIN disk.f1 : disk.f1[i].name.no = d + 1}
       IN IF at = {} THEN -1 ELSE Max(at) - 1]
  /\ volser' = disk.volser /\ changed' = [vtoc |-> FALSE, vlabel |-> FALSE]
  /\ edits' = 0 /\ UNCHANGED <<size, disk>>

-----------------------------------------------------------------------------
(* The commands of the menu.                                               *)

\* A command of the menu that changes something
Edit == pc = "menu" /\ edits < MaxEdits /\ edits' = edits + 1 /\ UNCHANGED <<size, disk, pc>>

\* fdasd_get_partition_data: the default is the first free track
DefaultStart ==
  LET f == {x \in Usable : ~InPart(x, parts)} IN IF f = {} THEN Limit + 1 ELSE Min(f)

\* Last track that a partition which starts at x may have
LimitFrom(x, ps) ==
  LET later == {ps[i].start : i \in {j \in DOMAIN ps : ps[j].start > x}}
  IN IF later = {} THEN Limit ELSE Min(later) - 1

\* The start that is used when x was typed: the next free track, or, if there
\* is none, the first usable one, which is then not compared with the first
\* partition any more
Placed(x) ==
  LET f == {y \in x .. Limit : ~InPart(y, parts)}
  IN IF f # {} THEN Min(f) ELSE First

Insert(p) == 1 + Cardinality({i \in DOMAIN parts : parts[i].start <= p.start})

\* The counter of the partition in front is left alone
EnqueuedStale(p) ==
  LET i == Insert(p)
      before == IF i = 1 THEN gap ELSE parts[i - 1].fspace
      from == IF i = 1 THEN First ELSE parts[i - 1].end + 1
  IN InsertAt(parts, i, [p EXCEPT !.fspace = before - LengthOf(p) - p.start + from])

\* fdasd_enqueue_new_partition: the list with p in it, and the counters of p
\* and of what is in front of it
Enqueued(p) ==
  LET i == Insert(p)
      before == IF i = 1 THEN gap ELSE parts[i - 1].fspace
      from == IF i = 1 THEN First ELSE parts[i - 1].end + 1
      q == [p EXCEPT !.fspace = before - LengthOf(p) - p.start + from]
      ps == IF i = 1 THEN parts ELSE [parts EXCEPT ![i - 1].fspace = p.start - from]
  IN InsertAt(ps, i, q)

AddPartition ==
  /\ Edit /\ used < MaxParts /\ DefaultStart <= Limit
  /\ \E x \in DefaultStart .. Limit : \E stop \in Placed(x) .. LimitFrom(Placed(x), parts) :
       LET p == Part(Placed(x), stop, 0, NewName)
           k == Insert(p) - 1
       IN /\ CanDelFree(Big, free, p.start, p.end)
          /\ parts' = Enqueued(p)
          /\ gap' = IF k = 0 THEN p.start - First ELSE gap
          /\ partno' = [d \in Numbers |->
                          IF partno[d] >= k THEN partno[d] + 1 ELSE partno[d]]
          /\ used' = used + 1 /\ dsrec' = dsrec - 1
          /\ highest' = HighestLabel(used + 1)
          /\ free' = DelFree(Big, free, p.start, p.end)
  /\ changed' = [changed EXCEPT !.vtoc = TRUE]
  /\ UNCHANGED volser

\* A "BUG: ..." exit of libvtoc in the middle of fdasd_add_partition
AddBug ==
  /\ pc = "menu" /\ used < MaxParts /\ DefaultStart <= Limit
  /\ \E x \in DefaultStart .. Limit : \E stop \in Placed(x) .. LimitFrom(Placed(x), parts) :
       ~CanDelFree(Big, free, Placed(x), stop)
  /\ pc' = "off" /\ Idle /\ UNCHANGED <<size, disk>>

\* fdasd_dequeue_old_partition: the tracks of partition i go to the counter of
\* what is in front of it
Dequeued(i) ==
  LET n == LengthOf(parts[i]) + parts[i].fspace
  IN RemoveAt(IF i = 1 THEN parts ELSE [parts EXCEPT ![i - 1].fspace = @ + n], i)

\* fdasd_remove_partition.  The map forgets the data set number i, whatever
\* the number of the i-th partition is.
RemovePartition ==
  /\ Edit
  /\ \E i \in DOMAIN parts :
       LET p == parts[i]
           forgot == [partno EXCEPT ![i - 1] = -1]
       IN /\ i <= used
          /\ CanAddFree(Big, free, p.start, p.end)
          /\ parts' = Dequeued(i)
          /\ gap' = IF i = 1 THEN gap + LengthOf(p) + p.fspace ELSE gap
          /\ partno' = [d \in Numbers |->
                          IF forgot[d] >= i - 1 THEN forgot[d] - 1 ELSE forgot[d]]
          /\ used' = used - 1 /\ dsrec' = dsrec + 1
          /\ highest' = IF used = 1 THEN 0 ELSE HighestLabel(used - 1)
          /\ free' = AddFree(Big, free, p.start, p.end)
  /\ changed' = [changed EXCEPT !.vtoc = TRUE]
  /\ UNCHANGED volser

\* fdasd_change_part_type
ChangeType ==
  /\ Edit
  /\ \E i \in DOMAIN parts, t \in Types :
       /\ i <= used
       /\ parts' = IF parts[i].name.no = -1 THEN parts
                   ELSE [parts EXCEPT ![i].name.type = t]
  /\ changed' = [changed EXCEPT !.vtoc = TRUE]
  /\ UNCHANGED <<gap, used, dsrec, highest, free, partno, volser>>

\* fdasd_change_volser: the data set names have the serial in them
VolserFlags == [vtoc |-> TRUE, vlabel |-> TRUE]

ChangeVolser ==
  /\ Edit /\ volser' \in Volsers /\ changed' = VolserFlags
  /\ UNCHANGED <<parts, gap, used, dsrec, highest, free, partno>>

\* fdasd_reuse_vtoc
ReuseVtoc ==
  /\ Edit /\ free' = FromCounters(gap, parts)
  /\ changed' = [changed EXCEPT !.vtoc = TRUE]
  /\ UNCHANGED <<parts, gap, used, dsrec, highest, partno, volser>>

\* fdasd_recreate_vtoc
RecreateVtoc ==
  /\ Edit /\ parts' = << >> /\ gap' = Limit - First + 1
  /\ used' = 0 /\ dsrec' = Sectors - 2 /\ highest' = 0 /\ free' = WholeFree
  /\ partno' = NoPos /\ changed' = [changed EXCEPT !.vtoc = TRUE]
  /\ UNCHANGED volser

\* fdasd_quit, with changes or without
Quit == pc = "menu" /\ pc' = "off" /\ Idle /\ UNCHANGED <<size, disk>>

-----------------------------------------------------------------------------
(* Writing.                                                                *)

\* fdasd_write_vtoc_labels gives names to the first i partitions: a partition
\* whose position is in the map keeps its name, the others get the first number
\* that is not in the map.  It fails where a name has no number to keep, or
\* when the search runs past the end of the map.
Naming(ps) ==
  LET step[i \in 0 .. Len(ps)] ==
        IF i = 0 THEN [map |-> partno, names |-> << >>, ok |-> TRUE]
        ELSE
          LET s == step[i - 1]
              n == ps[i].name
              unused == {d \in Numbers : s.map[d] = -1}
          IN IF \E d \in Numbers : s.map[d] = i - 1
             THEN [s EXCEPT !.names = Append(@, IF n.no = 0 THEN [n EXCEPT !.no = -1] ELSE n),
                            !.ok = @ /\ n.no # -1]
             ELSE IF unused = {} THEN [s EXCEPT !.names = Append(@, n), !.ok = FALSE]
             ELSE [s EXCEPT
                     !.map[Min(unused)] = i - 1,
                     !.names = Append(@, [no |-> Min(unused) + 1,
                                          type |-> IF n.type = "NEW" THEN "NATIVE" ELSE n.type])]
  IN step[Len(ps)]

Labels(ps, names, v) ==
  [i \in DOMAIN ps |-> [start |-> Cchh(ps[i].start), end |-> Cchh(ps[i].end),
                        name |-> names[i], volser |-> v]]

\* fdasd_write_labels, and the exit
WriteLabels ==
  /\ pc = "menu" /\ (changed.vtoc => Naming(parts).ok)
  /\ disk' = [disk EXCEPT
       !.kind = IF changed.vtoc THEN "vtoc" ELSE @,
       !.volser = IF changed.vlabel THEN volser ELSE @,
       !.dsrec = IF changed.vtoc THEN dsrec ELSE @,
       !.highest = IF changed.vtoc THEN highest ELSE @,
       !.free = IF changed.vtoc THEN free ELSE @,
       !.f1 = IF changed.vtoc THEN Labels(parts, Naming(parts).names, volser) ELSE @]
  /\ pc' = "off" /\ Idle /\ UNCHANGED size

\* fdasd ends or goes astray in the middle of writing: nothing is known of the
\* labels then
WriteTorn ==
  /\ pc = "menu" /\ changed.vtoc /\ ~Naming(parts).ok
  /\ pc' = "torn" /\ UNCHANGED <<size, disk, mem>>

-----------------------------------------------------------------------------
(* The modes without a session.                                            *)

\* The labels for a list of partitions that have only just been made
Fresh(ps, label, v) ==
  [kind |-> "vtoc", volser |-> v, dsrec |-> Sectors - 2 - Len(ps),
   highest |-> IF ps = << >> THEN 0 ELSE HighestLabel(Len(ps)), free |-> label,
   f1 |-> Labels(ps, [i \in DOMAIN ps |-> [no |-> i, type |-> ps[i].name.type]], v)]

\* fdasd_auto_partition: one partition for the whole volume
AutoPartition ==
  /\ pc = "off"
  /\ \E v \in Volsers :
       disk' = Fresh(<<Part(First, Limit, 0, [no |-> 0, type |-> "NATIVE"])>>, EmptyLabel, v)
  /\ UNCHANGED <<size, pc, mem>>

\* Neighbours may share a track
ConfigLoose(conf) ==
  /\ Len(conf) <= MaxParts
  /\ \A i \in DOMAIN conf : conf[i].start < conf[i].end
  /\ \A i \in 1 .. (Len(conf) - 1) : conf[i].end <= conf[i + 1].start

\* fdasd_check_conffile_input: in ascending order, without overlap, and of two
\* tracks at least
ConfigOk(conf) ==
  /\ Len(conf) <= MaxParts
  /\ \A i \in DOMAIN conf : conf[i].start < conf[i].end
  /\ \A i \in 1 .. (Len(conf) - 1) : conf[i].end < conf[i + 1].start

Configs == UNION {[1 .. n -> [start : Usable, end : Usable]] : n \in 0 .. MaxParts}

\* fdasd_auto_partition_conffile
ConfigPartition ==
  /\ pc = "off"
  /\ \E conf \in Configs, v \in Volsers :
       LET ps == Gaps([i \in DOMAIN conf |->
                   Part(conf[i].start, conf[i].end, 0, [no |-> 0, type |-> "NATIVE"])])
       IN /\ ConfigOk(conf)
          /\ disk' = Fresh(ps, FromCounters(FirstGap(conf), ps), v)
  /\ UNCHANGED <<size, pc, mem>>

-----------------------------------------------------------------------------
\* Nothing is said of what follows a write that ended in the middle
Torn == pc = "torn" /\ UNCHANGED vars

Next ==
  \/ StartNew \/ StartRead
  \/ AddPartition \/ AddBug \/ RemovePartition \/ ChangeType \/ ChangeVolser
  \/ ReuseVtoc \/ RecreateVtoc \/ Quit \/ WriteLabels \/ WriteTorn
  \/ AutoPartition \/ ConfigPartition \/ Torn

Spec == Init /\ [][Next]_vars

-----------------------------------------------------------------------------
(* Properties.                                                             *)

TracksOfParts(ps) == UNION {ps[i].start .. ps[i].end : i \in DOMAIN ps}

\* The partitions of a list are in order and have no track in common.
Ordered(ps) ==
  /\ \A i \in DOMAIN ps : First <= ps[i].start /\ ps[i].start <= ps[i].end /\ ps[i].end <= Limit
  /\ \A i \in 1 .. (Len(ps) - 1) : ps[i].end < ps[i + 1].start

\* The free-space label says of every usable track whether a partition has it,
\* in memory after each command and on disk, through all merges and splits of
\* its extents (vtoc_update_format5_label_add and the others).
FreeSpaceExact ==
  /\ pc = "menu" => FreeTracks(Big, free) = Usable \ TracksOfParts(parts)
  /\ disk.kind = "vtoc" =>
       FreeTracks(Big, disk.free) = Usable \ TracksOfParts(OnDisk)

\* The counters that fdasd keeps beside the label agree with the list: free
\* tracks in front of and behind each partition (from which fdasd_reuse_vtoc
\* makes a new label), the number of partitions, and the labels not in use.
CountersExact ==
  pc = "menu" =>
    /\ parts = Gaps(parts) /\ gap = FirstGap(parts)
    /\ used = Len(parts) /\ dsrec = Sectors - 2 - used

\* The format 4 label points to the last label of a partition.
HighestExact ==
  disk.kind = "vtoc" =>
    disk.highest = IF disk.f1 = << >> THEN 0
                   ELSE Len(disk.f1) + (IF size = "small" THEN 2 ELSE 3)
                          + (IF size = "large" THEN Len(disk.f1) - 1 ELSE 0)

\* The labels of all partitions carry the serial of the volume, also after the
\* serial has been changed.
SerialExact ==
  disk.kind = "vtoc" => \A i \in DOMAIN disk.f1 : disk.f1[i].volser = disk.volser

\* libvtoc ends the program with "BUG: ..." only where fdasd has moved the start
\* of a new partition to the first usable track, from behind the last free
\* track, without looking at the partition that is there.
BugOnlyAfterWrap ==
  [][AddBug => parts # << >> /\ parts[1].start = First /\ parts[Len(parts)].end = Limit]_vars

ExtentsOf(ps) == {[start |-> ps[i].start, end |-> ps[i].end] : i \in DOMAIN ps}

Table == INSTANCE PartitionTable
  WITH table <- ExtentsOf(OnDisk), draft <- ExtentsOf(parts), open <- pc \in {"menu", "torn"}

\* fdasd implements PartitionTable: what is on disk is always a sound table, a
\* command changes one partition and leaves the others where they are, and
\* nothing is on disk that was not saved.
ImplementsTable == Table!AbsSpec

\* What fdasd keeps beside the free-space label, and what the labels of the
\* volume say of each other, is right after each command and on disk: the
\* counters, the last label, and the serial of every partition.
LabelsExact == CountersExact /\ HighestExact /\ SerialExact
=============================================================================
