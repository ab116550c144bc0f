------------------------- MODULE FlashQueueSafety ---------------------------
(***************************************************************************)
(* The flash-queue backend on flash that does what it is told: power may   *)
(* be lost at any point, also inside the write of a record or of a header, *)
(* any number of times (CrashOnly).  Then what callers were told is what a *)
(* recovery would find, at every step of every operation.                  *)
(*                                                                         *)
(* The invariant says of each point of the program what the two regions    *)
(* hold: a good log (Good) in the region a recovery would choose; the      *)
(* index, a replay of that log up to the cursor; and during a compaction a *)
(* second good log, of the messages copied so far, that becomes the one    *)
(* chosen at the flip.  One lemma for each action says what it does to     *)
(* that (Core...); then come the operation in progress (OpInv), what       *)
(* callers were told (HistoryInv) and the attempts (TriesInv).             *)
(***************************************************************************)
EXTENDS FlashQueueProofs

-----------------------------------------------------------------------------
(* The invariant.                                                          *)

\* The region a recovery would choose holds a good log, and a region whose
\* header is blank is blank.
FlashInv ==
  /\ \A r \in Regions : hdr[r].status = "EMPTY" => \A x \in Offsets : cell[r][x] = Blank
  /\ ActiveRegions # {} => Good(cell[Chosen])

Formatting == {"f_erase0", "f_erase1", "f_hdr"}
Settled == {"requeue", "idle", "c_erase", "c_hdr", "append"}
Copying == {"c_copy", "c_flip"}
Switching == {"c_stale", "c_reclaim"}

\* The regions, by where the operation is.
RegionInv ==
  /\ pc \in Formatting => ActiveRegions = {}
  /\ pc \in {"b_erase", "scan"} \cup Settled \cup Copying =>
       hdr[active].status = "ACTIVE" /\ Chosen = active
  /\ pc \in {"scan"} \cup Settled => hdr[target].status = "EMPTY"
  /\ pc \in Copying => hdr[target].status = "COMPACTING"
  /\ pc \in Switching => hdr[target].status = "ACTIVE" /\ Chosen = target

\* Entries that differ in the offset only.
SameState(e, f) == e.st = f.st /\ e.att = f.att

\* The RAM index is a replay of the log up to the cursor.
IndexInv ==
  /\ pc \in Formatting \cup {"off", "b_erase"} =>
       cursor = 0 /\ \A m \in Ids : index[m] = Absent
  /\ pc \in Formatting \cup {"off"} => active = 0
  /\ pc = "scan" => cursor \in LogOf(cell[active]) \cup {LogEnd(cell[active])}
  /\ pc \in Settled \cup Copying => cursor = LogEnd(cell[active])
  /\ pc \in {"scan"} \cup Settled =>
       \A m \in Ids : index[m] = EntryAt(cell[active], cursor, m)
  /\ pc \in Copying =>
       \A m \in Ids : SameState(index[m], EntryAt(cell[active], cursor, m))
  /\ pc \in Switching =>
       /\ ncur = LogEnd(cell[target]) /\ HasEnd(cell[target])
       /\ \A m \in Ids : index[m] = EntryAt(cell[target], ncur, m)

\* The units of the records that are still to be copied.
Uncopied(T) == UNION {Span(index[m].off, MsgSize[m]) : m \in T}
\* What has been copied is a good log of just those messages, and there is
\* room for the others.
CopyInv ==
  pc \in Copying =>
    LET c == cell[target] IN
      /\ GoodLog(c) /\ ncur = LogEnd(c) /\ \A x \in Offsets : x >= ncur => c[x] = Blank
      /\ \A m \in todo : index[m] # Absent /\ index[m] = EntryAt(cell[active], cursor, m)
      /\ \A m \in todo : Before(c, ncur, m) = {}
      /\ \A m \in Ids \ todo : index[m] = EntryAt(c, ncur, m)
      /\ pc = "c_flip" => todo = {} /\ HasEnd(c)
      /\ pc = "c_copy" => ncur + Cardinality(Uncopied(todo)) + UpdSize <= Capacity

\* The index has room for what is in it.
LimitInv == Cardinality(Indexed) <= MaxMessages

\* What the flash and the RAM index hold.
CoreInv == FlashInv /\ RegionInv /\ IndexInv /\ CopyInv /\ LimitInv

\* The append that is due leaves room for an END record, or follows one.
RoomInv ==
  pc = "append" => HasEnd(cell[active]) \/ cursor + Size(op.rec) + SectorSize <= Capacity

\* What each operation is about to write, and of which message.
OpInv ==
  op.kind # "none" =>
    LET m == op.rec.id
        to(st, att) == op.rec = Update(m, st, att)
        was(st) == index[m].st = st
    IN /\ m \in Ids /\ op.kind # "corrupt"
       /\ op.kind = "enqueue" => /\ op.rec = Message(m, "PENDING", 0, m) /\ fate[m] = "offered"
                                 /\ UnknownOnFlash(m) /\ index[m] = Absent /\ started[m] = 0
                                 /\ Cardinality(Indexed) < MaxMessages
       /\ op.kind = "claim" => to("IN_FLIGHT", index[m].att + 1) /\ was("PENDING") /\ op.body = m
       /\ op.kind = "deliver" => to("DELIVERED", index[m].att) /\ was("IN_FLIGHT")
       /\ op.kind = "retry" => /\ to("PENDING", index[m].att) /\ was("IN_FLIGHT")
                               /\ ShouldRetry(index[m].att)
       /\ op.kind = "dead" => to("DEAD_LETTER", index[m].att) /\ was("IN_FLIGHT")
       /\ op.kind = "remove" => to("REMOVED", index[m].att) /\ was("PENDING")
       /\ op.kind = "requeue" => to("PENDING", index[m].att) /\ was("IN_FLIGHT")
       /\ op.kind \in {"deliver", "remove"} => fate[m] = "closing"

Recovering ==
  \/ pc \in Formatting \cup {"off", "failed", "b_erase", "scan", "requeue"}
  \/ op.kind = "requeue"
\* What callers were told is what a recovery would find.
HistoryInv ==
  /\ Durable /\ AttemptsDurable /\ PayloadIntact
  /\ \A m \in Ids : fate[m] = "fresh" => started[m] = 0
\* A message that a claim may take has an attempt left, or the crash that
\* requeued it is counted.
TriesInv ==
  MaxAttempts # 0 => \A m \in Ids :
    /\ started[m] <= MaxAttempts + crashes
    /\ OnFlash(m) # Absent =>
         OnFlash(m).att + (IF Recovering \/ OnFlash(m).st = "PENDING" THEN 1 ELSE 0)
           <= MaxAttempts + crashes

DurableInv == CoreInv /\ RoomInv /\ OpInv /\ HistoryInv /\ TriesInv

\* Only power losses, which may tear a record or a header.
CrashOnly == Faults \subseteq {"torn"}

-----------------------------------------------------------------------------
(* The operators of the model, in these terms.                             *)

\* The two regions, in a state and in the next one.
LEMMA TwoRegions ==
  TypeOK => /\ active \in Regions /\ target \in Regions /\ target # active
            /\ Regions = {active, target} /\ \A r \in Regions : cell[r] \in Contents
            /\ target = 1 - active
BY DEF TypeOK, Regions, target, Contents
LEMMA TwoRegionsNext ==
  TypeOK' => /\ active' \in Regions /\ target' \in Regions /\ target' # active'
             /\ Regions = {active', target'} /\ \A r \in Regions : cell'[r] \in Contents
             /\ target' = 1 - active'
<1>1. TypeOK' => (/\ active \in Regions /\ target \in Regions /\ target # active
                  /\ Regions = {active, target} /\ \A r \in Regions : cell[r] \in Contents
                  /\ target = 1 - active)'
  BY TwoRegions, PTL
<1> QED BY <1>1

\* What a recovery finds of m in contents c.
Final(c, m) == EntryAt(c, LogEnd(c), m)

\* Replay reads the log of its region.
LEMMA ReplayReads == TypeOK => \A r \in Regions, m \in Ids : Replay(r, m) = Final(cell[r], m)
<1> SUFFICES ASSUME TypeOK, NEW r \in Regions, NEW m \in Ids
             PROVE  Replay(r, m) = Final(cell[r], m)
  OBVIOUS
<1> DEFINE c == cell[r]
           R == {o \in LogOf(c) : c[o].id = m}
<1>1. c \in Contents
  BY TwoRegions
<1>2. \A o : ValidAt(r, o) <=> Valid(c, o)
  BY DEF ValidAt, Valid
<1>3. Log(r) = LogOf(c)
  BY <1>2 DEF Log, LogOf, From
<1>4. R \in SUBSET Offsets
  BY <1>1, LogFacts
<1>5. Replay(r, m) = EntryIn(c, R)
  BY <1>3, <1>4 DEF Replay, EntryIn
<1>6. R = Before(c, LogEnd(c), m)
  BY <1>1, LogFacts DEF Before
<1> QED BY <1>5, <1>6 DEF Final, EntryAt

\* The region chosen is one of the ACTIVE ones.
LEMMA ChosenIn == TypeOK /\ ActiveRegions # {} => Chosen \in Regions /\ hdr[Chosen].status = "ACTIVE"
<1> SUFFICES ASSUME TypeOK, ActiveRegions # {}
             PROVE  Chosen \in Regions /\ hdr[Chosen].status = "ACTIVE"
  OBVIOUS
<1>1. ActiveRegions \in SUBSET Regions /\ hdr \in [Regions -> [status : Status, gen : Nat]]
  BY DEF ActiveRegions, TypeOK
<1>2. Chosen \in ActiveRegions
  BY <1>1, BestIn DEF Chosen
<1> QED BY <1>2 DEF ActiveRegions

\* A recovery reads the log of the region it chooses.
LEMMA OnFlashReads ==
  TypeOK => \A m \in Ids : OnFlash(m) = IF ActiveRegions = {} THEN Absent ELSE Final(cell[Chosen], m)
<1> SUFFICES ASSUME TypeOK, NEW m \in Ids
             PROVE  OnFlash(m) = IF ActiveRegions = {} THEN Absent ELSE Final(cell[Chosen], m)
  OBVIOUS
<1>1. CASE ActiveRegions = {}
  BY <1>1 DEF OnFlash
<1>2. CASE ActiveRegions # {}
  <2>1. OnFlash(m) = Replay(Chosen, m)
    BY <1>2, ChosenIn DEF OnFlash
  <2> QED BY <1>2, <2>1, ChosenIn, ReplayReads
<1> QED BY <1>1, <1>2
\* The same of the next state.
LEMMA OnFlashReadsNext ==
  TypeOK' => \A m \in Ids : OnFlash(m)' = IF ActiveRegions' = {} THEN Absent
                                          ELSE Final(cell'[Chosen'], m)
<1>1. TypeOK' => (\A m \in Ids : OnFlash(m) = IF ActiveRegions = {} THEN Absent
                                              ELSE Final(cell[Chosen], m))'
  BY OnFlashReads, PTL
<1> QED BY <1>1 DEF Final

\* Which region that is, when one is ACTIVE and when the newer of two is known.
LEMMA ChosenOne == TypeOK => \A r \in Regions : ActiveRegions = {r} => Chosen = r
<1> SUFFICES ASSUME TypeOK, NEW r \in Regions, ActiveRegions = {r} PROVE Chosen = r
  OBVIOUS
<1>1. {r} \in SUBSET Regions /\ hdr \in [Regions -> [status : Status, gen : Nat]]
  BY DEF TypeOK
<1>2. Best({r}) \in {r}
  BY <1>1, BestIn
<1> QED BY <1>2 DEF Chosen
\* Of two ACTIVE regions the newer one is chosen.
LEMMA ChosenNewer ==
  TypeOK => \A r, s \in Regions :
    ActiveRegions = Regions /\ r # s /\ hdr[r].gen > hdr[s].gen => Chosen = r
<1> SUFFICES ASSUME TypeOK, NEW r \in Regions, NEW s \in Regions, ActiveRegions = Regions,
                    r # s, hdr[r].gen > hdr[s].gen
             PROVE  Chosen = r
  OBVIOUS
<1>1. /\ hdr[r].gen \in Nat /\ hdr[s].gen \in Nat /\ Regions = {r, s}
      /\ r \in Int /\ s \in Int
  BY DEF TypeOK, Regions
<1> DEFINE Wins(x) == \A y \in Regions : \/ hdr[x].gen > hdr[y].gen
                                         \/ (hdr[x].gen = hdr[y].gen /\ x <= y)
<1>2. Wins(r) /\ ~Wins(s)
  BY <1>1
<1>3. \A x \in Regions : Wins(x) => x = r
  BY <1>1, <1>2
<1>4. Chosen = CHOOSE x \in Regions : Wins(x)
  BY DEF Chosen, Best
<1> HIDE DEF Wins
<1> QED BY <1>2, <1>3, <1>4
LEMMA ChosenNewerNext ==
  TypeOK' => \A r, s \in Regions :
    ActiveRegions' = Regions /\ r # s /\ hdr'[r].gen > hdr'[s].gen => Chosen' = r
<1>1. TypeOK' => (\A r, s \in Regions :
                   ActiveRegions = Regions /\ r # s /\ hdr[r].gen > hdr[s].gen => Chosen = r)'
  BY ChosenNewer, PTL
<1> QED BY <1>1

\* The headers decide.
LEMMA SameChoice ==
  ASSUME UNCHANGED hdr
  PROVE  ActiveRegions' = ActiveRegions /\ Chosen' = Chosen
BY DEF ActiveRegions, Chosen, Best
\* The only ACTIVE region is chosen.
LEMMA OneActive ==
  TypeOK => \A r \in Regions : hdr[r].status = "ACTIVE" /\ hdr[1 - r].status # "ACTIVE" =>
              ActiveRegions = {r} /\ Chosen = r
<1> SUFFICES ASSUME TypeOK, NEW r \in Regions, hdr[r].status = "ACTIVE", hdr[1 - r].status # "ACTIVE"
             PROVE  ActiveRegions = {r} /\ Chosen = r
  OBVIOUS
<1>1. ActiveRegions = {r}
  BY DEF ActiveRegions, Regions
<1> QED BY <1>1, ChosenOne
LEMMA OneActiveNext ==
  TypeOK' => \A r \in Regions : hdr'[r].status = "ACTIVE" /\ hdr'[1 - r].status # "ACTIVE" =>
               ActiveRegions' = {r} /\ Chosen' = r
<1>1. TypeOK' => (\A r \in Regions : hdr[r].status = "ACTIVE" /\ hdr[1 - r].status # "ACTIVE" =>
                    ActiveRegions = {r} /\ Chosen = r)'
  BY OneActive, PTL
<1> QED BY <1>1

-----------------------------------------------------------------------------
(* What a step does to what a recovery would find.                         *)

\* What a recovery would find of a message: nothing, or a live entry.
LEMMA FoundShape ==
  TypeOK /\ FlashInv => \A m \in Ids :
    OnFlash(m) = Absent \/ (OnFlash(m).st \in LiveStates /\ OnFlash(m).att \in Nat)
<1> SUFFICES ASSUME TypeOK, FlashInv, NEW m \in Ids
             PROVE  OnFlash(m) = Absent \/ (OnFlash(m).st \in LiveStates /\ OnFlash(m).att \in Nat)
  OBVIOUS
<1>1. CASE ActiveRegions = {}
  BY <1>1, OnFlashReads
<1>2. CASE ActiveRegions # {}
  <2>1. /\ OnFlash(m) = Final(cell[Chosen], m) /\ Chosen \in Regions
        /\ cell[Chosen] \in Contents /\ GoodLog(cell[Chosen])
    BY <1>2, OnFlashReads, ChosenIn, TwoRegions DEF FlashInv, Good
  <2> DEFINE c == cell[Chosen]
             f == OnFlash(m)
  <2>2. LogEnd(c) \in Nat
    BY <2>1, LogFacts
  <2>3. f = EntryAt(c, LogEnd(c), m)
    BY <2>1 DEF Final
  <2> HIDE DEF c, f
  <2>4. f = Absent \/ (f.st \in LiveStates /\ f.att \in Nat)
    BY <2>1, <2>2, <2>3, EntryFacts DEF c
  <2> QED BY <2>4 DEF f
<1> QED BY <1>1, <1>2
\* The same of the next state.
LEMMA FoundShapeNext ==
  TypeOK' /\ FlashInv' => \A m \in Ids :
    OnFlash(m)' = Absent \/ (OnFlash(m)'.st \in LiveStates /\ OnFlash(m)'.att \in Nat)
<1>1. TypeOK' /\ FlashInv' => (\A m \in Ids :
         OnFlash(m) = Absent \/ (OnFlash(m).st \in LiveStates /\ OnFlash(m).att \in Nat))'
  BY FoundShape, PTL
<1> QED BY <1>1

\* What a recovery would find differs in offsets only.
SameFound == \A m \in Ids : SameState(OnFlash(m)', OnFlash(m))

\* To find the same is to find as much.
LEMMA SameFoundAbsent ==
  ASSUME TypeOK, TypeOK', FlashInv, FlashInv', SameFound, NEW m \in Ids
  PROVE  /\ OnFlash(m)' = Absent <=> OnFlash(m) = Absent
         /\ OnFlash(m)'.st = OnFlash(m).st /\ OnFlash(m)'.att = OnFlash(m).att
BY FoundShape, FoundShapeNext, AbsentState DEF SameFound, SameState

\* A step that writes nothing.
LEMMA FlashSame ==
  ASSUME UNCHANGED flash
  PROVE  /\ SameFound /\ \A m \in Ids : OnFlash(m)' = OnFlash(m)
         /\ FlashInv <=> FlashInv'
         /\ ActiveRegions' = ActiveRegions /\ Chosen' = Chosen
<1>1. ActiveRegions' = ActiveRegions /\ Chosen' = Chosen /\ UNCHANGED <<hdr, cell>>
  BY SameChoice DEF flash
<1>2. \A m \in Ids : OnFlash(m)' = OnFlash(m)
  BY <1>1 DEF OnFlash, Replay, Log, ValidAt
<1> QED BY <1>1, <1>2 DEF SameFound, SameState, FlashInv

\* A step that writes, but not to the records of the region that is chosen.
LEMMA FoundKept ==
  ASSUME TypeOK, TypeOK', ActiveRegions # {}, ActiveRegions' # {}, Chosen' = Chosen,
         cell'[Chosen] = cell[Chosen]
  PROVE  SameFound
BY OnFlashReads, OnFlashReadsNext DEF SameFound, SameState

-----------------------------------------------------------------------------
(* A step that leaves what a recovery would find leaves the history true.  *)

\* What callers were told stays true.
LEMMA HistorySame ==
  ASSUME TypeOK, TypeOK', FlashInv, FlashInv', HistoryInv, SameFound, UNCHANGED started,
         held' \in {held, NoHeld},
         \A m \in Ids : /\ fate'[m] = "accepted" => fate[m] = "accepted"
                        /\ fate'[m] = "fresh" => fate[m] = "fresh"
  PROVE  HistoryInv'
<1>1. Durable'
  BY SameFoundAbsent DEF HistoryInv, Durable
<1>2. AttemptsDurable'
  BY SameFoundAbsent DEF HistoryInv, AttemptsDurable
<1>3. PayloadIntact'
  BY DEF HistoryInv, PayloadIntact, NoHeld
<1> QED BY <1>1, <1>2, <1>3 DEF HistoryInv

\* The attempts stay bounded.
LEMMA TriesSame ==
  ASSUME TypeOK, TypeOK', FlashInv, FlashInv', TriesInv, SameFound, UNCHANGED started,
         \/ UNCHANGED crashes /\ (Recovering' => Recovering)
         \/ crashes' = crashes + 1
  PROVE  TriesInv'
<1> SUFFICES ASSUME MaxAttempts # 0, NEW m \in Ids
             PROVE  /\ started'[m] <= MaxAttempts + crashes'
                    /\ OnFlash(m)' # Absent =>
                         OnFlash(m)'.att
                           + (IF Recovering' \/ OnFlash(m)'.st = "PENDING" THEN 1 ELSE 0)
                         <= MaxAttempts + crashes'
  BY DEF TriesInv
<1> DEFINE f == OnFlash(m)
           g == OnFlash(m)'
           up(e, R) == IF R \/ e.st = "PENDING" THEN 1 ELSE 0
<1>1. /\ g = Absent <=> f = Absent
      /\ g.st = f.st /\ g.att = f.att /\ (f # Absent => f.att \in Nat)
  BY SameFoundAbsent, FoundShape
<1>2. /\ started[m] <= MaxAttempts + crashes
      /\ f # Absent => f.att + up(f, Recovering) <= MaxAttempts + crashes
  BY DEF TriesInv
<1>3. /\ MaxAttempts \in Nat /\ crashes \in Nat /\ crashes' \in Nat /\ started[m] \in Nat
      /\ started'[m] = started[m]
  BY BoundAssumption DEF TypeOK
<1> HIDE DEF f, g
<1>4. started'[m] <= MaxAttempts + crashes'
  BY <1>2, <1>3
<1>5. ASSUME g # Absent PROVE g.att + up(g, Recovering') <= MaxAttempts + crashes'
  <2>1. f.att \in Nat /\ f.att + up(f, Recovering) <= MaxAttempts + crashes /\ g.att = f.att
        /\ g.st = f.st
    BY <1>1, <1>2, <1>5
  <2>2. CASE UNCHANGED crashes /\ (Recovering' => Recovering)
    BY <1>3, <2>1, <2>2
  <2>3. CASE crashes' = crashes + 1
    <3>1. f.att <= MaxAttempts + crashes
      BY <1>3, <2>1
    <3> QED BY <1>3, <2>1, <2>3, <3>1
  <2> QED BY <2>2, <2>3
<1> QED BY <1>4, <1>5 DEF g

\* The operation in progress stays what it was.
LEMMA OpSame ==
  ASSUME TypeOK, TypeOK', OpInv, UNCHANGED <<op, fate, started>>,
         \A m \in Ids : /\ SameState(index'[m], index[m])
                        /\ index[m] = Absent => index'[m] = Absent,
         \A m \in Ids : UnknownOnFlash(m) /\ index[m] = Absent => UnknownOnFlash(m)'
  PROVE  OpInv'
<1>1. Indexed' = Indexed
  BY DEF Indexed, SameState
<1> SUFFICES ASSUME op.kind # "none" PROVE OpInv'
  BY DEF OpInv
<1>2. op.rec.id \in Ids
  BY DEF OpInv
<1>3. ASSUME NEW m \in Ids, m = op.rec.id
      PROVE  index'[m].st = index[m].st /\ index'[m].att = index[m].att
  BY DEF SameState
<1> QED BY <1>1, <1>2, <1>3 DEF OpInv

-----------------------------------------------------------------------------
(* What the flash and the index hold: steps that write nothing.            *)

\* Where nothing else is said of them, the index is of the size it was.
LEMMA LimitSame ==
  ASSUME LimitInv, \A m \in Ids : index'[m].st = index[m].st
  PROVE  LimitInv'
<1>1. Indexed' = Indexed
  BY DEF Indexed
<1> QED BY <1>1 DEF LimitInv

\* An operation begins, ends with an error or goes on, with the log as it was.
LEMMA CoreSettled ==
  ASSUME CoreInv, UNCHANGED <<flash, ctx>>, pc \in Settled, pc' \in Settled \cup {"failed"}
  PROVE  CoreInv'
<1>1. FlashInv' /\ LimitInv'
  BY FlashSame, LimitSame DEF CoreInv, ctx
<1>2. UNCHANGED <<hdr, cell, active, cursor, index>> /\ ActiveRegions' = ActiveRegions /\ Chosen' = Chosen
      /\ target' = target
  BY FlashSame DEF flash, ctx, target
<1>3. RegionInv' /\ CopyInv'
  BY <1>2 DEF CoreInv, RegionInv, CopyInv, Settled, Formatting, Copying, Switching
<1>4. IndexInv'
  BY <1>2 DEF CoreInv, IndexInv, Settled, Formatting, Copying, Switching
<1> QED BY <1>1, <1>3, <1>4 DEF CoreInv

\* Power is lost, or a failed edgesync_init is tried again.
LEMMA CoreReset ==
  ASSUME FlashInv', ResetRam, pc' = "off"
  PROVE  CoreInv'
<1>1. Indexed' = {} /\ \A m \in Ids : index'[m] = Absent
  BY DEF ResetRam, Indexed, Absent
<1>2. LimitInv'
  BY <1>1, FS_EmptySet, BoundAssumption DEF LimitInv
<1>3. RegionInv' /\ CopyInv' /\ IndexInv'
  BY <1>1 DEF ResetRam, RegionInv, CopyInv, IndexInv, Settled, Formatting, Copying, Switching
<1> QED BY <1>2, <1>3 DEF CoreInv

\* There is nothing in progress after a reset.

\* op_recover finds the region that the flash says is the newest.
LEMMA CoreBoot == ASSUME CrashOnly, TypeOK, CoreInv, Boot PROVE CoreInv' /\ UNCHANGED flash
<1>1. /\ pc = "off" /\ UNCHANGED <<hdr, cell, cursor, index>> /\ UNCHANGED flash
      /\ \/ ActiveRegions = {} /\ pc' = "f_erase0" /\ active' = active
         \/ ActiveRegions # {} /\ pc' = "b_erase" /\ active' = Chosen
  <2>1. PICK unread \in SUBSET Regions :
          /\ \/ unread = {} /\ UNCHANGED faults
             \/ unread # {} /\ Fault("read")
          /\ LET found == ActiveRegions \ unread IN
               IF found = {} THEN pc' = "f_erase0" /\ UNCHANGED active
               ELSE pc' = "b_erase" /\ active' = Best(found)
    BY DEF Boot
  <2>2. unread = {}
    BY <2>1 DEF CrashOnly, Fault
  <2>3. ActiveRegions \ unread = ActiveRegions
    BY <2>2
  <2>4. IF ActiveRegions = {} THEN pc' = "f_erase0" /\ UNCHANGED active
        ELSE pc' = "b_erase" /\ active' = Best(ActiveRegions)
    BY <2>1, <2>3
  <2> QED BY <2>4 DEF Boot, flash, Chosen
<1>2. FlashInv' /\ ActiveRegions' = ActiveRegions /\ Chosen' = Chosen /\ LimitInv'
  BY <1>1, FlashSame, LimitSame DEF CoreInv
<1>3. ActiveRegions # {} => hdr[Chosen].status = "ACTIVE"
  BY ChosenIn
<1>4. RegionInv' /\ CopyInv'
  BY <1>1, <1>2, <1>3 DEF CoreInv, RegionInv, CopyInv, Settled, Formatting, Copying, Switching
<1>5. IndexInv'
  BY <1>1 DEF CoreInv, IndexInv, Settled, Formatting, Copying, Switching
<1> QED BY <1>1, <1>2, <1>4, <1>5 DEF CoreInv

\* Up to the start of the log there are no records.
LEMMA EntryStart ==
  ASSUME NEW c \in Contents, NEW m PROVE EntryAt(c, 0, m) = Absent
<1>1. Before(c, 0, m) = {}
  BY LogFacts DEF Before
<1> QED BY <1>1, NotTold

\* The end of the scan is the end of the log.
LEMMA CoreScanEnd == ASSUME CrashOnly, TypeOK, CoreInv, ScanEnd PROVE CoreInv' /\ UNCHANGED flash
<1> DEFINE c == cell[active]
<1>1. /\ pc = "scan" /\ pc' = "requeue" /\ UNCHANGED <<hdr, cell, active, cursor, index>>
      /\ UNCHANGED flash /\ target' = target
      /\ ~(cursor < Capacity /\ ValidAt(active, cursor))
  BY DEF ScanEnd, flash, ctx, CrashOnly, Fault, target
<1>2. cursor = LogEnd(c)
  <2>1. cursor \in LogOf(c) \cup {LogEnd(c)} /\ c \in Contents
    BY <1>1, TwoRegions DEF CoreInv, IndexInv
  <2>2. cursor \notin LogOf(c)
    <3>1. ~(cursor < Capacity /\ Valid(c, cursor))
      BY <1>1 DEF ValidAt, Valid
    <3> HIDE DEF c
    <3> QED BY <2>1, <3>1, LogFacts
  <2> QED BY <2>1, <2>2
<1>3. FlashInv' /\ ActiveRegions' = ActiveRegions /\ Chosen' = Chosen /\ LimitInv'
  BY <1>1, FlashSame, LimitSame DEF CoreInv
<1>4. RegionInv' /\ CopyInv'
  BY <1>1, <1>3 DEF CoreInv, RegionInv, CopyInv, Settled, Formatting, Copying, Switching
<1>5. IndexInv'
  BY <1>1, <1>2 DEF CoreInv, IndexInv, Settled, Formatting, Copying, Switching
<1> QED BY <1>1, <1>3, <1>4, <1>5 DEF CoreInv

\* The index of a settled backend is what a recovery would find, and the other
\* way round.
LEMMA IndexFound ==
  TypeOK /\ CoreInv =>
    /\ pc \in {"b_erase", "scan"} \cup Settled \cup Copying =>
         /\ ActiveRegions # {} /\ Good(cell[active]) /\ Chosen = active
         /\ \A m \in Ids : OnFlash(m) = Final(cell[active], m)
    /\ pc \in Settled => \A m \in Ids : index[m] = OnFlash(m)
    /\ pc \in Copying => \A m \in Ids : SameState(index[m], OnFlash(m))
    /\ pc \in Switching =>
         /\ ActiveRegions # {} /\ Good(cell[target]) /\ Chosen = target
         /\ \A m \in Ids : index[m] = OnFlash(m) /\ OnFlash(m) = Final(cell[target], m)
<1> SUFFICES ASSUME TypeOK, CoreInv
             PROVE  /\ pc \in {"b_erase", "scan"} \cup Settled \cup Copying =>
                         /\ ActiveRegions # {} /\ Good(cell[active]) /\ Chosen = active
                         /\ \A m \in Ids : OnFlash(m) = Final(cell[active], m)
                    /\ pc \in Settled => \A m \in Ids : index[m] = OnFlash(m)
                    /\ pc \in Copying => \A m \in Ids : SameState(index[m], OnFlash(m))
                    /\ pc \in Switching =>
                         /\ ActiveRegions # {} /\ Good(cell[target]) /\ Chosen = target
                         /\ \A m \in Ids : index[m] = OnFlash(m)
                                           /\ OnFlash(m) = Final(cell[target], m)
  OBVIOUS
<1>1. ASSUME NEW r \in Regions, hdr[r].status = "ACTIVE", Chosen = r
      PROVE  /\ ActiveRegions # {} /\ Good(cell[r])
             /\ \A m \in Ids : OnFlash(m) = Final(cell[r], m)
  BY <1>1, OnFlashReads DEF ActiveRegions, CoreInv, FlashInv
<1>2. pc \in {"b_erase", "scan"} \cup Settled \cup Copying =>
         /\ ActiveRegions # {} /\ Good(cell[active]) /\ Chosen = active
         /\ \A m \in Ids : OnFlash(m) = Final(cell[active], m)
  BY <1>1, TwoRegions DEF CoreInv, RegionInv
<1>3. pc \in Settled => \A m \in Ids : index[m] = OnFlash(m)
  BY <1>2 DEF CoreInv, IndexInv, Final
<1>4. pc \in Copying => \A m \in Ids : SameState(index[m], OnFlash(m))
  BY <1>2 DEF CoreInv, IndexInv, Final
<1>5. pc \in Switching =>
         /\ ActiveRegions # {} /\ Good(cell[target]) /\ Chosen = target
         /\ \A m \in Ids : index[m] = OnFlash(m) /\ OnFlash(m) = Final(cell[target], m)
  BY <1>1, TwoRegions DEF CoreInv, RegionInv, IndexInv, Final
<1> QED BY <1>2, <1>3, <1>4, <1>5

-----------------------------------------------------------------------------
(* Formatting, and the scan of the log.                                    *)

\* No region is ACTIVE before and after, so a recovery finds nothing.
LEMMA FoundNothing ==
  ASSUME TypeOK, TypeOK', ActiveRegions = {}, ActiveRegions' = {}
  PROVE  SameFound
BY OnFlashReads, OnFlashReadsNext DEF SameFound, SameState

\* Formatting: nothing is to be found until the last header is written.
LEMMA CoreFormatErase ==
  ASSUME TypeOK, TypeOK', CoreInv, NEW r \in Regions, NEW at \in {"f_erase0", "f_erase1"},
         NEW then \in {"f_erase1", "f_hdr"}, FormatErase(r, at, then)
  PROVE  CoreInv' /\ SameFound
<1>1. /\ hdr' = [hdr EXCEPT ![r] = Empty] /\ cell' = ErasedCells(r) /\ pc \in Formatting
      /\ pc' \in Formatting /\ UNCHANGED <<active, cursor, index>>
  BY DEF FormatErase, ctx, Formatting
<1>2. ActiveRegions = {}
  BY <1>1 DEF CoreInv, RegionInv
<1>3. hdr'[r].status = "EMPTY" /\ \A s \in Regions \ {r} : hdr'[s] = hdr[s]
  BY <1>1 DEF TypeOK, Empty
<1>4. ActiveRegions' = {}
  BY <1>2, <1>3 DEF ActiveRegions
<1>5. FlashInv'
  <2>1. \A x \in Offsets : cell'[r][x] = Blank
    BY <1>1 DEF ErasedCells, TypeOK
  <2>2. \A s \in Regions \ {r} : cell'[s] = cell[s]
    BY <1>1 DEF ErasedCells, TypeOK
  <2> QED BY <1>3, <1>4, <2>1, <2>2 DEF CoreInv, FlashInv
<1>6. RegionInv' /\ CopyInv'
  BY <1>1, <1>4 DEF RegionInv, CopyInv, Settled, Formatting, Copying, Switching
<1>7. IndexInv'
  BY <1>1 DEF CoreInv, IndexInv, Settled, Formatting, Copying, Switching
<1>8. LimitInv'
  BY <1>1, LimitSame DEF CoreInv
<1> QED BY <1>2, <1>4, <1>5, <1>6, <1>7, <1>8, FoundNothing DEF CoreInv

\* A blank region becomes ACTIVE: a recovery would find nothing in it.
LEMMA CoreFormatHeader ==
  ASSUME TypeOK, TypeOK', GenInv, CoreInv, FormatHeader
  PROVE  CoreInv' /\ SameFound
<1>1. /\ pc = "f_hdr" /\ pc' = "idle" /\ UNCHANGED <<cell, active, cursor, index>>
      /\ hdr'[0].status = "ACTIVE" /\ hdr'[1] = hdr[1]
      /\ hdr[0].status = "EMPTY" /\ hdr[1].status = "EMPTY" /\ active = 0
  BY DEF FormatHeader, ctx, GenInv, TypeOK, Regions, CoreInv, IndexInv, Formatting
<1>2. ActiveRegions' = {0} /\ Chosen' = 0 /\ ActiveRegions = {} /\ target' = 1 /\ target = 1
  <2>1. 0 \in Regions /\ hdr'[1 - 0].status # "ACTIVE"
    BY <1>1 DEF Regions
  <2> QED BY <1>1, <2>1, OneActiveNext DEF ActiveRegions, Regions, target
<1> DEFINE c == cell[0]
<1>3. c \in Contents /\ \A x \in Offsets : c[x] = Blank /\ cell[1][x] = Blank
  BY <1>1, TwoRegions DEF CoreInv, FlashInv, Regions
<1>4. /\ Good(c) /\ LogEnd(c) = 0
      /\ \A e, m : EntryAt(c, e, m) = Absent
  <2> HIDE DEF c
  <2> QED BY <1>3, GoodBlank
<1>5. FlashInv'
  BY <1>1, <1>2, <1>3, <1>4 DEF FlashInv, Regions
<1>6. RegionInv'
  BY <1>1, <1>2 DEF RegionInv, Settled, Formatting, Copying, Switching
<1>7. CopyInv' /\ IndexInv'
  BY <1>1, <1>4 DEF CoreInv, IndexInv, CopyInv, Settled, Formatting, Copying, Switching
<1>8. LimitInv'
  BY <1>1, LimitSame DEF CoreInv
<1>9. SameFound
  <2>1. \A m \in Ids : OnFlash(m)' = Absent /\ OnFlash(m) = Absent
    BY <1>1, <1>2, <1>4, OnFlashReads, OnFlashReadsNext DEF Final
  <2> QED BY <2>1 DEF SameFound, SameState
<1> QED BY <1>5, <1>6, <1>7, <1>8, <1>9 DEF CoreInv

\* What ensure_region_erased leaves.
LEMMA Erased ==
  ASSUME TypeOK, FlashInv, NEW r \in Regions, EnsureErased(r)
  PROVE  /\ hdr'[r].status = "EMPTY" /\ \A x \in Offsets : cell'[r][x] = Blank
         /\ \A s \in Regions \ {r} : hdr'[s] = hdr[s] /\ cell'[s] = cell[s]
<1>1. CASE hdr[r].status = "EMPTY"
  BY <1>1 DEF EnsureErased, flash, FlashInv
<1>2. CASE hdr[r].status # "EMPTY"
  <2>1. hdr' = [hdr EXCEPT ![r] = Empty] /\ cell' = ErasedCells(r)
    BY <1>2 DEF EnsureErased
  <2> QED BY <2>1 DEF TypeOK, Empty, ErasedCells
<1> QED BY <1>1, <1>2

\* A recovery that begins after the erase of the spare reads what it would have
\* read before.
LEMMA CoreEraseSpare ==
  ASSUME TypeOK, TypeOK', CoreInv, EraseSpare
  PROVE  CoreInv' /\ SameFound
<1>1. /\ pc = "b_erase" /\ pc' = "scan" /\ UNCHANGED <<active, cursor, index>>
      /\ EnsureErased(target) /\ target' = target
      /\ hdr[active].status = "ACTIVE" /\ Chosen = active
      /\ cursor = 0 /\ \A m \in Ids : index[m] = Absent
  BY DEF EraseSpare, ctx, target, CoreInv, RegionInv, IndexInv
<1>2. /\ active \in Regions /\ target \in Regions /\ target # active
      /\ Regions = {active, target} /\ target = 1 - active /\ cell[active] \in Contents
  BY TwoRegions
<1>3. /\ hdr'[target].status = "EMPTY" /\ \A x \in Offsets : cell'[target][x] = Blank
      /\ hdr'[active] = hdr[active] /\ cell'[active] = cell[active]
  BY <1>1, <1>2, Erased DEF CoreInv
<1>4. ActiveRegions' = {active} /\ Chosen' = active
  BY <1>1, <1>2, <1>3, OneActiveNext
<1>5. ActiveRegions # {} /\ Good(cell[active])
  BY <1>1, <1>2, IndexFound
<1>6. FlashInv'
  BY <1>1, <1>2, <1>3, <1>4, <1>5 DEF FlashInv
<1>7. RegionInv' /\ CopyInv'
  BY <1>1, <1>3, <1>4 DEF RegionInv, CopyInv, Settled, Formatting, Copying, Switching
<1>8. IndexInv'
  <2>1. 0 \in LogOf(cell[active]) \cup {LogEnd(cell[active])}
    BY <1>2, LogFacts
  <2>2. \A m \in Ids : EntryAt(cell[active], 0, m) = Absent
    BY <1>2, EntryStart
  <2> QED BY <1>1, <1>3, <2>1, <2>2 DEF IndexInv, Settled, Formatting, Copying, Switching
<1>9. LimitInv'
  BY <1>1, LimitSame DEF CoreInv
<1>10. SameFound
  BY <1>1, <1>3, <1>4, <1>5, FoundKept
<1> QED BY <1>6, <1>7, <1>8, <1>9, <1>10 DEF CoreInv

\* The messages that a scan has in its index are those the log names so far.
LEMMA IndexIsLog ==
  ASSUME NEW c \in Contents, GoodLog(c), NEW e \in Nat, \A m \in Ids : index[m] = EntryAt(c, e, m)
  PROVE  /\ Indexed = IndexedAt(c, e)
         /\ \A m \in Ids : index[m] = Absent <=> index[m].st = "NONE"
<1>1. \A m \in Ids : index[m] = Absent \/ index[m].st \in LiveStates
  BY EntryFacts
<1>2. \A m \in Ids : index[m] = Absent <=> index[m].st = "NONE"
  BY <1>1, AbsentState DEF LiveStates
<1> QED BY <1>2 DEF Indexed, IndexedAt

\* The index is at most as large as the number of ids.
LEMMA IndexFinite == IsFiniteSet(Indexed) /\ Cardinality(Indexed) \in Nat
BY IdsAssumption, FS_Subset, FS_CardinalityType DEF Indexed

\* One more message in the index.
LEMMA OneMore ==
  ASSUME NEW m
  PROVE  /\ IsFiniteSet(Indexed \cup {m}) /\ Cardinality(Indexed \cup {m}) \in Nat
         /\ Cardinality(Indexed \cup {m}) <= Cardinality(Indexed) + 1
BY IndexFinite, FS_AddElement, FS_CardinalityType

\* The scan takes one record into the index, as the log says.
LEMMA CoreScanRecord ==
  ASSUME TypeOK, TypeOK', CoreInv, ScanRecord
  PROVE  CoreInv' /\ UNCHANGED flash
<1> DEFINE c == cell[active]
           o == cursor
           rec == c[o]
<1>1. /\ pc = "scan" /\ pc' = "scan" /\ UNCHANGED <<hdr, cell, active>> /\ UNCHANGED flash
      /\ target' = target /\ cursor < Capacity /\ ValidAt(active, cursor)
      /\ cursor' = cursor + Size(rec)
      /\ index' =
            CASE rec.t = "MESSAGE" /\ Cardinality(Indexed) < MaxMessages ->
                   [index EXCEPT ![rec.id] = EntryOf(rec.st, rec.att, cursor)]
              [] rec.t = "UPDATE" /\ rec.id \in Indexed ->
                   [index EXCEPT ![rec.id] = EntryOf(rec.st, rec.att, @.off)]
              [] OTHER -> index
  BY DEF ScanRecord, flash, target
<1>2. /\ c \in Contents /\ Good(c) /\ o \in LogOf(c) \cup {LogEnd(c)}
      /\ \A m \in Ids : index[m] = EntryAt(c, o, m)
  BY <1>1, TwoRegions, IndexFound DEF CoreInv, IndexInv
<1>3. o \in LogOf(c) /\ o \in Nat /\ o < Capacity
  <2>1. Valid(c, o) /\ o < Capacity
    BY <1>1 DEF ValidAt, Valid
  <2> HIDE DEF c, o
  <2> QED BY <1>2, <2>1, LogFacts
<1>4. GoodRecord(c, o, rec) /\ rec.t \in RecordTypes /\ GoodLog(c)
  <2> HIDE DEF c, o
  <2> QED BY <1>2, <1>3, LogFacts DEF Good, GoodLog
<1>5. \A m \in Ids : EntryAt(c, o + Size(rec), m) =
           IF rec.id # m THEN EntryAt(c, o, m)
           ELSE EntryOf(rec.st, rec.att, IF rec.t = "MESSAGE" THEN o ELSE EntryAt(c, o, m).off)
  <2> HIDE DEF c, o
  <2> QED BY <1>2, <1>3, <1>4, EntryStep
<1>6. Indexed = IndexedAt(c, o)
  <2> HIDE DEF c, o
  <2> QED BY <1>2, <1>3, <1>4, IndexIsLog
<1>7. \A m \in Ids : index'[m] = EntryAt(c, cursor', m)
  <2>1. CASE rec.t = "MESSAGE"
    <3>1. Cardinality(Indexed) < MaxMessages
      BY <1>4, <1>6, <2>1 DEF GoodRecord
    <3>2. index' = [index EXCEPT ![rec.id] = EntryOf(rec.st, rec.att, o)]
      BY <1>1, <2>1, <3>1
    <3> HIDE DEF c, o
    <3> QED BY <1>1, <1>2, <1>5, <2>1, <3>2 DEF TypeOK, o
  <2>2. CASE rec.t = "UPDATE"
    <3>1. rec.id \in Indexed
      BY <1>4, <1>6, <2>2 DEF GoodRecord
    <3>2. index' = [index EXCEPT ![rec.id] = EntryOf(rec.st, rec.att, @.off)]
      BY <1>1, <2>2, <3>1
    <3> HIDE DEF c, o
    <3> QED BY <1>1, <1>2, <1>5, <2>2, <3>2 DEF TypeOK, o
  <2>3. CASE rec.t = "END"
    <3>1. index' = index /\ rec.id \notin Ids
      BY <1>1, <1>4, <2>3, IdsAssumption DEF GoodRecord
    <3> HIDE DEF c, o
    <3> QED BY <1>1, <1>2, <1>5, <3>1 DEF o
  <2> QED BY <1>4, <2>1, <2>2, <2>3 DEF RecordTypes
<1>8. LimitInv'
  <2>1. CASE rec.t = "MESSAGE"
    <3>1. Cardinality(Indexed) < MaxMessages /\ Indexed' \subseteq Indexed \cup {rec.id}
      <4>1. Cardinality(Indexed) < MaxMessages
        BY <1>4, <1>6, <2>1 DEF GoodRecord
      <4>2. \A m \in Ids : m # rec.id => index'[m] = index[m]
        BY <1>1, <2>1, <4>1 DEF TypeOK
      <4> QED BY <4>1, <4>2 DEF Indexed
    <3>2. Cardinality(Indexed \cup {rec.id}) <= Cardinality(Indexed) + 1
          /\ IsFiniteSet(Indexed \cup {rec.id})
          /\ Cardinality(Indexed \cup {rec.id}) \in Nat
      BY OneMore
    <3>3. Cardinality(Indexed') <= Cardinality(Indexed \cup {rec.id}) /\ Cardinality(Indexed') \in Nat
      BY <3>1, <3>2, FS_Subset, FS_CardinalityType
    <3> QED BY <3>1, <3>2, <3>3, IndexFinite, BoundAssumption DEF LimitInv
  <2>2. CASE rec.t # "MESSAGE"
    <3>1. Indexed' \subseteq Indexed
      <4>1. \A m \in Ids : index'[m] = index[m] \/ m \in Indexed
        BY <1>1, <2>2 DEF TypeOK
      <4> QED BY <4>1 DEF Indexed
    <3>2. Cardinality(Indexed') <= Cardinality(Indexed) /\ Cardinality(Indexed') \in Nat
      BY <3>1, IndexFinite, FS_Subset, FS_CardinalityType
    <3> QED BY <3>2, IndexFinite, BoundAssumption DEF LimitInv, CoreInv
  <2> QED BY <2>1, <2>2
<1>9. FlashInv' /\ ActiveRegions' = ActiveRegions /\ Chosen' = Chosen
  BY <1>1, FlashSame DEF CoreInv
<1>10. RegionInv' /\ CopyInv'
  BY <1>1, <1>9 DEF CoreInv, RegionInv, CopyInv, Settled, Formatting, Copying, Switching
<1>11. IndexInv'
  <2>1. cursor' \in LogOf(c) \cup {LogEnd(c)}
    <3>1. o + Size(c[o]) \in LogOf(c) \cup {LogEnd(c)}
      <4> HIDE DEF c, o
      <4> QED BY <1>2, <1>3, LogFacts
    <3> QED BY <1>1, <3>1
  <2> QED BY <1>1, <1>7, <2>1 DEF IndexInv, Settled, Formatting, Copying, Switching
<1> QED BY <1>1, <1>8, <1>9, <1>10, <1>11 DEF CoreInv

-----------------------------------------------------------------------------
(* The room that the records to copy take.                                 *)

\* The size of a record in units.
LEMMA SpanSize ==
  ASSUME NEW o \in Nat, NEW n \in Nat
  PROVE  IsFiniteSet(Span(o, n)) /\ Cardinality(Span(o, n)) = n
<1>1. o \in Int /\ o + n - 1 \in Int
  OBVIOUS
<1>2. /\ IsFiniteSet(o .. o + n - 1)
      /\ Cardinality(o .. o + n - 1) = IF o > o + n - 1 THEN 0 ELSE (o + n - 1) - o + 1
  BY <1>1, FS_Interval
<1> QED BY <1>2 DEF Span

\* Two disjoint finite sets of offsets.
LEMMA RoomFor ==
  ASSUME NEW A, NEW B, A \subseteq Offsets, B \subseteq Offsets, A \cap B = {}
  PROVE  /\ IsFiniteSet(A) /\ IsFiniteSet(B) /\ IsFiniteSet(A \cup B)
         /\ Cardinality(A) \in Nat /\ Cardinality(B) \in Nat
         /\ Cardinality(A \cup B) = Cardinality(A) + Cardinality(B)
         /\ Cardinality(A) + Cardinality(B) <= Capacity
<1>1. IsFiniteSet(Offsets) /\ Cardinality(Offsets) = Capacity
  <2>1. 0 \in Int /\ Capacity - 1 \in Int /\ Capacity \in Nat /\ Capacity > 0
    BY SizeAssumption
  <2>2. /\ IsFiniteSet(0 .. Capacity - 1)
        /\ Cardinality(0 .. Capacity - 1) = IF 0 > Capacity - 1 THEN 0 ELSE (Capacity - 1) - 0 + 1
    BY <2>1, FS_Interval
  <2> QED BY <2>1, <2>2 DEF Offsets
<1>2. IsFiniteSet(A) /\ IsFiniteSet(B) /\ Cardinality(A) \in Nat /\ Cardinality(B) \in Nat
  BY <1>1, FS_Subset, FS_CardinalityType
<1>3. Cardinality(A \cup B) = Cardinality(A) + Cardinality(B) - Cardinality(A \cap B)
      /\ IsFiniteSet(A \cup B)
  BY <1>2, FS_Union
<1>4. Cardinality(A \cap B) = 0
  BY FS_EmptySet
<1>5. Cardinality(A \cup B) <= Cardinality(Offsets)
  <2>1. A \cup B \in SUBSET Offsets
    OBVIOUS
  <2> QED BY <1>1, <2>1, FS_Subset
<1> QED BY <1>1, <1>2, <1>3, <1>4, <1>5

\* The payloads of the messages T are records of the log c.
InLog(c, T) == \A m \in T :
  /\ m \in Ids /\ index[m].off \in LogOf(c)
  /\ c[index[m].off].t = "MESSAGE" /\ c[index[m].off].id = m

\* A message record that is indexed lies in the log, apart from the other records.
LEMMA PayloadSpan ==
  ASSUME NEW c \in Contents, NEW T, InLog(c, T), NEW m \in T
  PROVE  /\ index[m].off \in Nat /\ MsgSize[m] \in Nat /\ MsgSize[m] > 0
         /\ Size(c[index[m].off]) = MsgSize[m]
         /\ index[m].off + MsgSize[m] <= LogEnd(c)
         /\ \A o \in LogOf(c) :
              /\ o < index[m].off => o + Size(c[o]) <= index[m].off
              /\ o > index[m].off => index[m].off + MsgSize[m] <= o
<1> DEFINE p == index[m].off
<1>1. p \in LogOf(c) /\ Size(c[p]) = MsgSize[m]
  BY DEF InLog, Size
<1> HIDE DEF p
<1>2. p \in Nat /\ Size(c[p]) \in Nat /\ Size(c[p]) > 0 /\ p + Size(c[p]) <= LogEnd(c)
      /\ \A o \in LogOf(c) : /\ o < p => o + Size(c[o]) <= p
                             /\ o > p => p + Size(c[p]) <= o
  BY <1>1, LogFacts
<1> QED BY <1>1, <1>2 DEF p

\* They are in the region, and one payload is apart from the others.
LEMMA PayloadsApart ==
  ASSUME NEW c \in Contents, NEW T, InLog(c, T)
  PROVE  /\ Uncopied(T) \subseteq Offsets /\ \A x \in Uncopied(T) : x < LogEnd(c)
         /\ \A m \in T : /\ Uncopied(T) = Uncopied(T \ {m}) \cup Span(index[m].off, MsgSize[m])
                         /\ Uncopied(T \ {m}) \cap Span(index[m].off, MsgSize[m]) = {}
<1>1. ASSUME NEW m \in T, NEW x \in Span(index[m].off, MsgSize[m])
      PROVE  x \in Offsets /\ x < LogEnd(c)
  <2>1. /\ index[m].off \in Nat /\ MsgSize[m] \in Nat /\ index[m].off + MsgSize[m] <= LogEnd(c)
        /\ LogEnd(c) \in Nat /\ LogEnd(c) <= Capacity
    BY PayloadSpan, LogFacts
  <2> QED BY <1>1, <2>1, OffsetsNat DEF Span
<1>2. Uncopied(T) \subseteq Offsets /\ \A x \in Uncopied(T) : x < LogEnd(c)
  BY <1>1 DEF Uncopied
<1>3. ASSUME NEW m \in T
      PROVE  Uncopied(T) = Uncopied(T \ {m}) \cup Span(index[m].off, MsgSize[m])
  BY DEF Uncopied
<1>4. ASSUME NEW m \in T, NEW n \in T \ {m}
      PROVE  Span(index[n].off, MsgSize[n]) \cap Span(index[m].off, MsgSize[m]) = {}
  <2> DEFINE p == index[m].off
             q == index[n].off
             M == MsgSize[m]
             N == MsgSize[n]
  <2>1. p \in LogOf(c) /\ q \in LogOf(c) /\ p # q
    BY DEF InLog
  <2>2. /\ p \in Nat /\ M \in Nat /\ q \in Nat /\ N \in Nat
        /\ q > p => p + M <= q
        /\ p > q => q + N <= p
    BY <2>1, PayloadSpan
  <2> HIDE DEF p, q, M, N
  <2>3. Span(q, N) \cap Span(p, M) = {}
    BY <2>1, <2>2 DEF Span
  <2> QED BY <2>3 DEF p, q, M, N
<1>5. ASSUME NEW m \in T
      PROVE  Uncopied(T \ {m}) \cap Span(index[m].off, MsgSize[m]) = {}
  BY <1>4 DEF Uncopied
<1> QED BY <1>2, <1>3, <1>5

\* A compaction always has room for what it copies and for its END record: the
\* log it copies has an END record already, which is not copied, or was stopped
\* while there was room for one (ensure_space_locked keeps a reserve).
LEMMA RoomToCopy ==
  ASSUME NEW c \in Contents, Good(c), NEW T, InLog(c, T)
  PROVE  Cardinality(Uncopied(T)) \in Nat /\ Cardinality(Uncopied(T)) + UpdSize <= Capacity
<1>0. UpdSize \in Nat /\ UpdSize <= SectorSize /\ SectorSize \in Nat /\ Capacity \in Nat
  BY SizeAssumption
<1>1. Uncopied(T) \subseteq Offsets /\ \A x \in Uncopied(T) : x < LogEnd(c)
  BY PayloadsApart
<1>2. \E g \in Nat : g + UpdSize <= Capacity /\ Span(g, UpdSize) \cap Uncopied(T) = {}
  <2>1. CASE HasEnd(c)
    <3>1. PICK g \in LogOf(c) : c[g].t = "END"
      BY <2>1 DEF HasEnd
    <3>2. Size(c[g]) = UpdSize /\ g \in Nat /\ g + UpdSize <= Capacity
      <4>1. Size(c[g]) = UpdSize
        BY <3>1 DEF Size
      <4>2. g \in Nat /\ g + Size(c[g]) <= LogEnd(c) /\ LogEnd(c) <= Capacity /\ LogEnd(c) \in Nat
        BY LogFacts
      <4> QED BY <1>0, <4>1, <4>2
    <3>3. ASSUME NEW m \in T PROVE Span(g, UpdSize) \cap Span(index[m].off, MsgSize[m]) = {}
      <4> DEFINE p == index[m].off
                 M == MsgSize[m]
      <4>1. p \in Nat /\ M \in Nat /\ (g < p => g + UpdSize <= p) /\ (g > p => p + M <= g)
        BY <3>2, PayloadSpan
      <4>2. g # p
        BY <3>1 DEF InLog
      <4> HIDE DEF p, M
      <4>3. Span(g, UpdSize) \cap Span(p, M) = {}
        BY <1>0, <3>2, <4>1, <4>2 DEF Span
      <4> QED BY <4>3 DEF p, M
    <3> QED BY <3>2, <3>3 DEF Uncopied
  <2>2. CASE LogEnd(c) + SectorSize <= Capacity
    <3>1. LogEnd(c) \in Nat /\ LogEnd(c) + UpdSize <= Capacity
      BY <1>0, <2>2, LogFacts
    <3>2. \A x \in Span(LogEnd(c), UpdSize) : ~(x < LogEnd(c))
      BY <1>0, <3>1 DEF Span
    <3> QED BY <1>1, <3>1, <3>2
  <2> QED BY <2>1, <2>2 DEF Good, GoodRoom
<1>3. PICK g \in Nat : g + UpdSize <= Capacity /\ Span(g, UpdSize) \cap Uncopied(T) = {}
  BY <1>2
<1>4. Span(g, UpdSize) \subseteq Offsets
  BY <1>0, <1>3, OffsetsNat DEF Span
<1>5. Cardinality(Span(g, UpdSize)) = UpdSize
  BY <1>0, SpanSize
<1>6. Cardinality(Uncopied(T)) \in Nat
      /\ Cardinality(Uncopied(T)) + Cardinality(Span(g, UpdSize)) <= Capacity
  <2>1. Uncopied(T) \cap Span(g, UpdSize) = {}
    BY <1>3
  <2> QED BY <1>1, <1>4, <2>1, RoomFor
<1> QED BY <1>5, <1>6

\* What a copied record leaves to copy.
LEMMA RoomLeft ==
  ASSUME NEW c \in Contents, NEW T, InLog(c, T), NEW m \in T
  PROVE  /\ Cardinality(Uncopied(T)) \in Nat /\ Cardinality(Uncopied(T \ {m})) \in Nat
         /\ Cardinality(Uncopied(T)) = Cardinality(Uncopied(T \ {m})) + MsgSize[m]
<1> DEFINE A == Uncopied(T \ {m})
           B == Span(index[m].off, MsgSize[m])
<1>1. Uncopied(T) = A \cup B /\ A \cap B = {} /\ Uncopied(T) \subseteq Offsets
  BY PayloadsApart
<1>2. Cardinality(B) = MsgSize[m] /\ MsgSize[m] \in Nat
  BY PayloadSpan, SpanSize
<1> HIDE DEF A, B
<1>3. Cardinality(A \cup B) = Cardinality(A) + Cardinality(B) /\ Cardinality(A) \in Nat
  BY <1>1, RoomFor
<1> QED BY <1>1, <1>2, <1>3 DEF A

-----------------------------------------------------------------------------
(* Compaction.                                                             *)

\* The payload of a message in the index is read back as it was published.
LEMMA Stored ==
  ASSUME TypeOK, NEW c, c = cell[active], GoodLog(c), NEW e \in Nat, NEW m \in Ids,
         index[m] = EntryAt(c, e, m), index[m] # Absent
  PROVE  /\ index[m].off \in LogOf(c) /\ c[index[m].off].t = "MESSAGE"
         /\ c[index[m].off].id = m /\ index[m].st \in LiveStates
         /\ BytesAt(index[m].off, m) = m /\ Readable(m)
<1> DEFINE o == index[m].off
<1>1. c \in Contents
  BY TwoRegions
<1>2. /\ index[m].st \in LiveStates /\ o \in Before(c, e, m) /\ o \in Offsets
      /\ c[o].t = "MESSAGE" /\ c[o].id = m /\ c[o].body = m
  BY <1>1, EntryFacts
<1>3. o \in LogOf(c)
  BY <1>2 DEF Before
<1> HIDE DEF o
<1>4. Size(c[o]) = MsgSize[m] /\ MsgSize[m] \in Nat /\ Valid(c, o)
  BY <1>1, <1>2, <1>3, LogFacts DEF Size
<1>5. BytesAt(o, m) = m
  BY <1>2, <1>4 DEF BytesAt
<1>6. ValidAt(active, o) /\ Size(cell[active][o]) <= MsgSize[m]
  BY <1>4 DEF ValidAt, Valid
<1> QED BY <1>2, <1>3, <1>5, <1>6 DEF Readable, o

\* While a compaction copies, every record it has left fits, on blank flash, and
\* is the live record of its message.
LEMMA Copyable ==
  ASSUME TypeOK, CoreInv, pc = "c_copy"
  PROVE  /\ InLog(cell[active], todo) /\ ncur \in Nat /\ ncur + UpdSize <= Capacity
         /\ Fits(ncur, End) /\ BlankAt(target, ncur, End)
         /\ \A m \in todo :
              /\ m \in Ids /\ index[m] # Absent /\ index[m].st \in LiveStates
              /\ Copy(m) = Message(m, index[m].st, index[m].att, m)
              /\ Size(Copy(m)) = MsgSize[m] /\ ncur + MsgSize[m] + UpdSize <= Capacity
              /\ Fits(ncur, Copy(m)) /\ BlankAt(target, ncur, Copy(m))
<1> DEFINE c == cell[active]
           d == cell[target]
<1>1. /\ c \in Contents /\ d \in Contents /\ Good(c) /\ GoodLog(c) /\ cursor = LogEnd(c)
      /\ cursor \in Nat /\ ncur \in Nat
  BY TwoRegions, IndexFound DEF CoreInv, IndexInv, Copying, Good, TypeOK
<1>2. /\ \A x \in Offsets : x >= ncur => d[x] = Blank
      /\ \A m \in todo : m \in Ids /\ index[m] # Absent /\ index[m] = EntryAt(c, cursor, m)
      /\ ncur + Cardinality(Uncopied(todo)) + UpdSize <= Capacity
  BY DEF CoreInv, CopyInv, Copying, TypeOK
<1>3. \A m \in todo : /\ index[m].off \in LogOf(c) /\ c[index[m].off].t = "MESSAGE"
                      /\ c[index[m].off].id = m /\ index[m].st \in LiveStates
                      /\ BytesAt(index[m].off, m) = m
  <2> SUFFICES ASSUME NEW m \in todo
               PROVE  /\ index[m].off \in LogOf(c) /\ c[index[m].off].t = "MESSAGE"
                      /\ c[index[m].off].id = m /\ index[m].st \in LiveStates
                      /\ BytesAt(index[m].off, m) = m
    OBVIOUS
  <2>1. c = cell[active]
    OBVIOUS
  <2> HIDE DEF c
  <2> QED BY <1>1, <1>2, <2>1, Stored
<1>4. InLog(c, todo)
  BY <1>2, <1>3 DEF InLog
<1>5. UpdSize \in Nat /\ Capacity \in Nat /\ Size(End) = UpdSize
  BY SizeAssumption DEF Size, End, Unit
<1>6. Cardinality(Uncopied(todo)) \in Nat /\ ncur + UpdSize <= Capacity
  <2>1. Cardinality(Uncopied(todo)) \in Nat
    BY <1>1, <1>4, RoomToCopy
  <2> QED BY <1>1, <1>2, <1>5, <2>1
<1>7. ASSUME NEW m \in todo PROVE ncur + MsgSize[m] + UpdSize <= Capacity /\ MsgSize[m] \in Nat
  <2> DEFINE a == Cardinality(Uncopied(todo))
             b == Cardinality(Uncopied(todo \ {m}))
  <2>1. a \in Nat /\ b \in Nat /\ a = b + MsgSize[m] /\ MsgSize[m] \in Nat
    BY <1>1, <1>4, RoomLeft, PayloadSpan
  <2>2. ncur + a + UpdSize <= Capacity
    BY <1>2
  <2> HIDE DEF a, b
  <2> QED BY <1>1, <1>5, <2>1, <2>2
<1>8. \A m \in todo : /\ Copy(m) = Message(m, index[m].st, index[m].att, m)
                      /\ Size(Copy(m)) = MsgSize[m]
  BY <1>3 DEF Copy, Message, Size
<1>9. \A n \in Nat : \A x : ncur + n <= Capacity /\ x \in Span(ncur, n) => d[x] = Blank
  BY <1>1, <1>2, <1>5, OffsetsNat DEF Span
<1>10. Fits(ncur, End) /\ BlankAt(target, ncur, End)
  BY <1>5, <1>6, <1>9 DEF Fits, BlankAt
<1>11. \A m \in todo : Fits(ncur, Copy(m)) /\ BlankAt(target, ncur, Copy(m))
  BY <1>1, <1>5, <1>7, <1>8, <1>9 DEF Fits, BlankAt
<1> QED BY <1>1, <1>2, <1>3, <1>4, <1>6, <1>7, <1>8, <1>10, <1>11

\* So no copy is refused.
LEMMA NoCopyRefused == TypeOK /\ CoreInv => ~CopyRefused
BY Copyable DEF CopyRefused

\* A step of a compaction that writes to the region being filled.
LEMMA TargetOnly ==
  ASSUME TypeOK, TypeOK', CoreInv, pc \in {"c_hdr"} \cup Copying,
         hdr'[active] = hdr[active], hdr'[target].status \in {"COMPACTING", "JUNK"},
         cell'[active] = cell[active]
  PROVE  ActiveRegions' = {active} /\ Chosen' = active /\ FlashInv' /\ SameFound
<1>1. /\ active \in Regions /\ target \in Regions /\ target = 1 - active
      /\ Regions = {active, target}
  BY TwoRegions
<1>2. /\ hdr[active].status = "ACTIVE" /\ Chosen = active /\ ActiveRegions # {}
      /\ Good(cell[active])
  BY IndexFound DEF CoreInv, RegionInv, Settled
<1>3. ActiveRegions' = {active} /\ Chosen' = active
  BY <1>1, <1>2, OneActiveNext
<1>4. FlashInv'
  BY <1>1, <1>2, <1>3 DEF CoreInv, FlashInv
<1>5. SameFound
  BY <1>2, <1>3, FoundKept
<1> QED BY <1>1, <1>3, <1>4, <1>5

\* compact_locked, one lemma for each step that touches the flash.
LEMMA CoreCompactErase ==
  ASSUME CoreInv, CompactErase
  PROVE  CoreInv' /\ UNCHANGED flash
<1>1. hdr[target].status = "EMPTY"
  BY DEF CompactErase, CoreInv, RegionInv, Settled
<1>2. UNCHANGED flash
  BY <1>1 DEF CompactErase, EnsureErased
<1> QED BY <1>2, CoreSettled DEF CompactErase, Settled

\* The copy begins with everything the index holds, for which there is room.
LEMMA CoreCompactHeader ==
  ASSUME TypeOK, TypeOK', CoreInv, CompactHeader
  PROVE  CoreInv' /\ SameFound
<1> DEFINE c == cell[active]
           d == cell[target]
<1>1. /\ pc = "c_hdr" /\ pc' = "c_copy" /\ UNCHANGED <<cell, active, cursor, index>>
      /\ todo' = Indexed /\ ncur' = 0
      /\ hdr'[active] = hdr[active] /\ hdr'[target].status = "COMPACTING"
  BY TwoRegions DEF CompactHeader, ctx, TypeOK
<1>2. /\ ActiveRegions' = {active} /\ Chosen' = active /\ FlashInv' /\ SameFound
      /\ target' = target
  BY <1>1, TargetOnly DEF target
<1>3. /\ c \in Contents /\ Good(c) /\ GoodLog(c) /\ cursor = LogEnd(c) /\ cursor \in Nat
      /\ \A m \in Ids : index[m] = EntryAt(c, cursor, m)
      /\ hdr[active].status = "ACTIVE" /\ hdr[target].status = "EMPTY"
  BY <1>1, TwoRegions, IndexFound DEF CoreInv, RegionInv, IndexInv, Settled, Good, TypeOK
<1>4. d \in Contents /\ \A x \in Offsets : d[x] = Blank
  BY <1>3, TwoRegions DEF CoreInv, FlashInv
<1>5. /\ Good(d) /\ LogEnd(d) = 0
      /\ \A e, m : Before(d, e, m) = {} /\ EntryAt(d, e, m) = Absent
  <2> HIDE DEF d
  <2> QED BY <1>4, GoodBlank
<1>6. \A m \in Ids : index[m] = Absent <=> m \notin Indexed
  <2>1. \A m \in Ids : index[m] = Absent <=> index[m].st = "NONE"
    <3> HIDE DEF c
    <3> QED BY <1>3, IndexIsLog
  <2> QED BY <2>1 DEF Indexed
<1>7. Cardinality(Uncopied(Indexed)) \in Nat
      /\ Cardinality(Uncopied(Indexed)) + UpdSize <= Capacity
  <2>1. InLog(c, Indexed)
    <3> SUFFICES ASSUME NEW m \in Indexed
                 PROVE  /\ m \in Ids /\ index[m].off \in LogOf(c)
                        /\ c[index[m].off].t = "MESSAGE" /\ c[index[m].off].id = m
      BY DEF InLog
    <3>1. m \in Ids /\ index[m] # Absent /\ c = cell[active]
      BY <1>6 DEF Indexed
    <3> HIDE DEF c
    <3> QED BY <1>3, <3>1, Stored
  <2> HIDE DEF c
  <2> QED BY <1>3, <2>1, RoomToCopy
<1>8. CopyInv'
  <2>1. Uncopied(todo)' = Uncopied(Indexed)
    BY <1>1 DEF Uncopied
  <2>2. ncur' + Cardinality(Uncopied(todo)') + UpdSize <= Capacity
    BY <1>1, <1>7, <2>1, SizeAssumption
  <2>3. todo' \subseteq Ids
    BY <1>1 DEF Indexed
  <2>4. \A m \in todo' : index'[m] # Absent /\ index'[m] = EntryAt(cell'[active'], cursor', m)
    BY <1>1, <1>3, <1>6, <2>3
  <2>5. \A m \in Ids \ todo' : index'[m] = EntryAt(d, 0, m)
    BY <1>1, <1>5, <1>6
  <2> QED BY <1>1, <1>2, <1>4, <1>5, <2>2, <2>4, <2>5 DEF CopyInv, Copying, Good
<1>9. RegionInv'
  BY <1>1, <1>2, <1>3 DEF RegionInv, Settled, Formatting, Copying, Switching
<1>10. IndexInv'
  BY <1>1, <1>3 DEF IndexInv, SameState, Settled, Formatting, Copying, Switching
<1>11. LimitInv'
  BY <1>1, LimitSame DEF CoreInv
<1> QED BY <1>2, <1>8, <1>9, <1>10, <1>11 DEF CoreInv

\* What a write at an offset makes of the two regions.
LEMMA WrittenPut ==
  ASSUME TypeOK, NEW r \in Regions, NEW o, NEW rec, cell' = Written(r, o, rec)
  PROVE  cell'[r] = Put(cell[r], o, rec) /\ \A s \in Regions \ {r} : cell'[s] = cell[s]
BY DEF TypeOK, Written, Put

\* One message more is in the new log, as the index says of it.
LEMMA CoreCompactCopy ==
  ASSUME TypeOK, TypeOK', CoreInv, NEW m \in Ids, CompactCopy(m)
  PROVE  /\ CoreInv' /\ SameFound
         /\ \A n \in Ids : /\ SameState(index'[n], index[n])
                           /\ index[n] = Absent => index'[n] = Absent
<1> DEFINE c == cell[active]
           d == cell[target]
           f == cell'[target]
           rec == Copy(m)
           size == MsgSize[m]
<1>1. /\ pc = "c_copy" /\ pc' = "c_copy" /\ UNCHANGED <<hdr, active, cursor>> /\ m \in todo
      /\ index' = [index EXCEPT ![m].off = ncur] /\ cell' = Written(target, ncur, rec)
      /\ ncur' = ncur + size /\ todo' = todo \ {m}
  BY DEF CompactCopy
<1>2. /\ active \in Regions /\ target \in Regions /\ target # active /\ target' = target
      /\ c \in Contents /\ d \in Contents /\ Good(c)
  BY <1>1, TwoRegions, IndexFound DEF Copying, target
<1>3. /\ InLog(c, todo) /\ ncur \in Nat
      /\ index[m] # Absent /\ index[m].st \in LiveStates
      /\ rec = Message(m, index[m].st, index[m].att, m)
      /\ Size(rec) = size /\ ncur + size + UpdSize <= Capacity /\ \A n \in todo : n \in Ids
  BY <1>1, Copyable
<1>4. /\ GoodLog(d) /\ ncur = LogEnd(d) /\ \A x \in Offsets : x >= ncur => d[x] = Blank
      /\ \A n \in todo : index[n] # Absent /\ index[n] = EntryAt(c, cursor, n)
      /\ \A n \in todo : Before(d, ncur, n) = {}
      /\ \A n \in Ids \ todo : index[n] = EntryAt(d, ncur, n)
      /\ ncur + Cardinality(Uncopied(todo)) + UpdSize <= Capacity
      /\ \A n \in Ids : SameState(index[n], EntryAt(c, cursor, n))
  BY <1>1 DEF CoreInv, CopyInv, IndexInv, Copying
<1>5. /\ f = Put(d, ncur, rec) /\ cell'[active] = c
  BY <1>1, <1>2, WrittenPut
<1>6. rec \in Cells /\ rec.t = "MESSAGE" /\ rec.ok /\ rec.id = m /\ rec.body = m
      /\ rec.st = index[m].st /\ rec.att = index[m].att
  <2>1. rec \in Cells
    BY <1>1, CopyType
  <2> HIDE DEF rec
  <2> QED BY <1>3, <2>1 DEF Message
<1>7. GoodRecord(d, ncur, rec)
  <2>1. Cardinality(IndexedAt(d, ncur)) < MaxMessages
    <3>1. \A n \in IndexedAt(d, ncur) : n \in Indexed /\ n # m
      <4> SUFFICES ASSUME NEW n \in IndexedAt(d, ncur) PROVE n \in Indexed /\ n # m
        OBVIOUS
      <4>1. n \in Ids /\ EntryAt(d, ncur, n) # Absent
        BY DEF IndexedAt
      <4>2. n \notin todo
        BY <1>4, <4>1, NotTold
      <4>3. index[n] # Absent /\ index[n] = EntryAt(d, ncur, n)
        BY <1>4, <4>1, <4>2
      <4>4. index[n].st \in LiveStates
        <5> HIDE DEF d
        <5> QED BY <1>2, <1>3, <1>4, <4>1, <4>3, EntryFacts
      <4> QED BY <1>1, <4>1, <4>2, <4>4 DEF Indexed, LiveStates
    <3>2. m \in Indexed
      BY <1>3 DEF Indexed, LiveStates
    <3>3. /\ Cardinality(Indexed \ {m}) = Cardinality(Indexed) - 1 /\ IsFiniteSet(Indexed \ {m})
      BY <3>2, IndexFinite, FS_RemoveElement
    <3>4. IndexedAt(d, ncur) \in SUBSET (Indexed \ {m})
      BY <3>1
    <3>5. Cardinality(IndexedAt(d, ncur)) <= Cardinality(Indexed \ {m})
          /\ Cardinality(IndexedAt(d, ncur)) \in Nat
      BY <3>3, <3>4, FS_Subset, FS_CardinalityType
    <3> QED BY <3>3, <3>5, IndexFinite, BoundAssumption DEF CoreInv, LimitInv
  <2>2. Before(d, ncur, m) = {}
    BY <1>1, <1>4
  <2> HIDE DEF rec, d
  <2> QED BY <1>3, <1>6, <2>1, <2>2 DEF GoodRecord, LiveStates
<1>8. GoodTail(d)
  BY <1>4 DEF GoodTail, Blank, Unit, RecordTypes
<1>9. /\ f \in Contents /\ GoodLog(f)
      /\ LogOf(f) = LogOf(d) \cup {ncur} /\ LogEnd(f) = ncur + size
      /\ f[ncur] = rec
      /\ \A o \in LogOf(d) : f[o] = d[o]
      /\ \A x \in Offsets : x >= ncur + size => f[x] = d[x]
      /\ \A n \in Ids : EntryAt(f, ncur + size, n) =
              IF m # n THEN EntryAt(d, ncur, n)
              ELSE EntryOf(index[m].st, index[m].att, ncur)
  <2>1. ncur + size <= Capacity /\ rec.t \in RecordTypes /\ size \in Nat
    BY <1>1, <1>3, SizeAssumption, PayloadSpan, <1>2, <1>6 DEF RecordTypes
  <2> HIDE DEF rec, d, f, size
  <2> QED BY <1>2, <1>3, <1>4, <1>5, <1>6, <1>7, <1>8, <2>1, GoodAppend
<1>10. /\ \A n \in Ids : n # m => index'[n] = index[n]
       /\ index'[m] = [index[m] EXCEPT !.off = ncur]
       /\ index'[m].st = index[m].st /\ index'[m].att = index[m].att
       /\ index'[m] = EntryOf(index[m].st, index[m].att, ncur) /\ index'[m] # Absent
  <2>1. /\ \A n \in Ids : n # m => index'[n] = index[n]
        /\ index'[m] = [index[m] EXCEPT !.off = ncur]
    BY <1>1 DEF TypeOK
  <2>2. index[m] \in Entries
    BY DEF TypeOK
  <2>3. index'[m] = [st |-> index[m].st, att |-> index[m].att, off |-> ncur]
    BY <2>1, <2>2 DEF Entries
  <2> QED BY <1>3, <2>1, <2>3 DEF EntryOf, Closes, LiveStates, Absent
<1>11. \A n \in Ids : /\ SameState(index'[n], index[n])
                      /\ index[n] = Absent => index'[n] = Absent
  BY <1>3, <1>10 DEF SameState
<1>12. /\ Chosen' = active /\ FlashInv' /\ SameFound
  <2>1. hdr[target].status = "COMPACTING"
    BY <1>1 DEF CoreInv, RegionInv, Copying
  <2> QED BY <1>1, <1>2, <1>5, <2>1, TargetOnly DEF Copying
<1>13. ncur' + Cardinality(Uncopied(todo)') + UpdSize <= Capacity
  <2>1. Uncopied(todo)' = Uncopied(todo \ {m})
    BY <1>1, <1>3, <1>10 DEF Uncopied
  <2> DEFINE a == Cardinality(Uncopied(todo))
             b == Cardinality(Uncopied(todo \ {m}))
  <2>2. a \in Nat /\ b \in Nat /\ a = b + size /\ size \in Nat
    BY <1>1, <1>2, <1>3, RoomLeft, PayloadSpan
  <2>3. ncur + a + UpdSize <= Capacity /\ ncur' = ncur + size /\ b = Cardinality(Uncopied(todo)')
    BY <1>1, <1>4, <2>1
  <2> HIDE DEF a, b
  <2>4. ncur' + b + UpdSize <= Capacity
    BY <1>3, <2>2, <2>3, SizeAssumption
  <2> QED BY <2>3, <2>4
<1>14. CopyInv'
  <2>1. \A x \in Offsets : x >= ncur' => f[x] = Blank
    <3>1. size \in Nat
      BY <1>1, <1>2, <1>3, PayloadSpan
    <3> HIDE DEF size, d, f
    <3> QED BY <1>1, <1>3, <1>4, <1>9, <3>1, OffsetsNat
  <2>2. \A n \in todo' : index'[n] # Absent /\ index'[n] = EntryAt(cell'[active'], cursor', n)
    BY <1>1, <1>3, <1>4, <1>5, <1>10
  <2>3. \A n \in todo' : Before(f, ncur', n) = {}
    <3> SUFFICES ASSUME NEW n \in todo', NEW o \in LogOf(f), f[o].id = n PROVE FALSE
      BY DEF Before
    <3>1. n \in todo /\ n # m
      BY <1>1
    <3>2. o # ncur
      BY <1>6, <1>9, <3>1
    <3>3. o \in LogOf(d) /\ d[o].id = n
      BY <1>9, <3>2
    <3>4. o < ncur
      <4> HIDE DEF d
      <4> QED BY <1>2, <1>4, <3>3, LogFacts
    <3> QED BY <1>4, <3>1, <3>3, <3>4 DEF Before
  <2>4. \A n \in Ids \ todo' : index'[n] = EntryAt(f, ncur', n)
    BY <1>1, <1>4, <1>9, <1>10
  <2>5. LogEnd(f) = ncur'
    BY <1>1, <1>9
  <2> QED BY <1>1, <1>2, <1>9, <1>13, <2>1, <2>2, <2>3, <2>4, <2>5 DEF CopyInv, Copying
<1>15. RegionInv'
  BY <1>1, <1>2, <1>12 DEF CoreInv, RegionInv, Settled, Formatting, Copying, Switching
<1>16. IndexInv'
  <2>1. cursor' = LogEnd(cell'[active'])
    BY <1>1, <1>5 DEF CoreInv, IndexInv, Copying
  <2>2. \A n \in Ids : SameState(index'[n], EntryAt(cell'[active'], cursor', n))
    BY <1>1, <1>4, <1>5, <1>11 DEF SameState
  <2> QED BY <1>1, <2>1, <2>2 DEF IndexInv, Settled, Formatting, Copying, Switching
<1>17. LimitInv'
  BY <1>11, LimitSame DEF CoreInv, SameState
<1> QED BY <1>11, <1>12, <1>14, <1>15, <1>16, <1>17 DEF CoreInv

\* The END record ends the copy: the new log says what the index says.
LEMMA CoreCompactEnd ==
  ASSUME TypeOK, TypeOK', CoreInv, CompactEnd
  PROVE  CoreInv' /\ SameFound
<1> DEFINE c == cell[active]
           d == cell[target]
           f == cell'[target]
<1>1. /\ pc = "c_copy" /\ pc' = "c_flip" /\ UNCHANGED <<hdr, active, cursor, index>>
      /\ todo = {} /\ todo' = {} /\ cell' = Written(target, ncur, End) /\ ncur' = ncur + UpdSize
  BY DEF CompactEnd, ctx
<1>2. /\ active \in Regions /\ target \in Regions /\ target # active /\ target' = target
      /\ c \in Contents /\ d \in Contents /\ UpdSize \in Nat /\ UpdSize > 0
  BY <1>1, TwoRegions, SizeAssumption DEF target
<1>3. ncur \in Nat /\ ncur + UpdSize <= Capacity
  BY <1>1, Copyable
<1>4. /\ GoodLog(d) /\ ncur = LogEnd(d) /\ \A x \in Offsets : x >= ncur => d[x] = Blank
      /\ \A n \in Ids : index[n] = EntryAt(d, ncur, n)
      /\ \A n \in Ids : SameState(index[n], EntryAt(c, cursor, n))
  BY <1>1 DEF CoreInv, CopyInv, IndexInv, Copying
<1>5. f = Put(d, ncur, End) /\ cell'[active] = c
  BY <1>1, <1>2, WrittenPut
<1>6. /\ End \in Cells /\ End.t = "END" /\ End.ok /\ End.id = NoId /\ Size(End) = UpdSize
      /\ End.t \in RecordTypes
  BY PlainUnits DEF End, Unit, UnitTypes, RecordTypes, Size
<1>7. GoodRecord(d, ncur, End)
  BY <1>6 DEF GoodRecord
<1>8. GoodTail(d)
  BY <1>4 DEF GoodTail, Blank, Unit, RecordTypes
<1>9. /\ f \in Contents /\ GoodLog(f)
      /\ LogOf(f) = LogOf(d) \cup {ncur} /\ LogEnd(f) = ncur + UpdSize
      /\ f[ncur] = End
      /\ \A x \in Offsets : x >= ncur + UpdSize => f[x] = d[x]
      /\ \A n \in Ids : EntryAt(f, ncur + UpdSize, n) = EntryAt(d, ncur, n)
  <2> HIDE DEF d, f
  <2>1. /\ f \in Contents /\ GoodLog(f)
        /\ LogOf(f) = LogOf(d) \cup {LogEnd(d)} /\ LogEnd(f) = LogEnd(d) + Size(End)
        /\ f[LogEnd(d)] = End
        /\ \A x \in Offsets : x >= LogEnd(d) + Size(End) => f[x] = d[x]
        /\ \A n \in Ids : EntryAt(f, LogEnd(f), n) =
              IF End.id # n THEN EntryAt(d, LogEnd(d), n)
              ELSE EntryOf(End.st, End.att, IF End.t = "MESSAGE" THEN LogEnd(d)
                                            ELSE EntryAt(d, LogEnd(d), n).off)
    BY <1>2, <1>3, <1>4, <1>5, <1>6, <1>7, <1>8, GoodAppend
  <2> QED BY <1>4, <1>6, <2>1, IdsAssumption
<1>10. /\ Chosen' = active /\ FlashInv' /\ SameFound
  <2>1. hdr[target].status = "COMPACTING"
    BY <1>1 DEF CoreInv, RegionInv, Copying
  <2> QED BY <1>1, <1>2, <1>5, <2>1, TargetOnly DEF Copying
<1>11. CopyInv'
  <2>1. HasEnd(f)
    BY <1>6, <1>9 DEF HasEnd
  <2>2. \A x \in Offsets : x >= ncur' => f[x] = Blank
    BY <1>1, <1>2, <1>3, <1>4, <1>9, OffsetsNat
  <2>3. \A n \in Ids : index'[n] = EntryAt(f, ncur', n)
    BY <1>1, <1>4, <1>9
  <2> QED BY <1>1, <1>2, <1>9, <2>1, <2>2, <2>3 DEF CopyInv, Copying
<1>12. RegionInv'
  BY <1>1, <1>2, <1>10 DEF CoreInv, RegionInv, Settled, Formatting, Copying, Switching
<1>13. IndexInv'
  <2>1. cursor' = LogEnd(cell'[active'])
    BY <1>1, <1>5 DEF CoreInv, IndexInv, Copying
  <2> QED BY <1>1, <1>4, <1>5, <2>1 DEF IndexInv, Settled, Formatting, Copying, Switching
<1>14. LimitInv'
  BY <1>1, LimitSame DEF CoreInv
<1> QED BY <1>10, <1>11, <1>12, <1>13, <1>14 DEF CoreInv

\* The flip: a recovery now reads the new log, which says the same.
LEMMA CoreCompactFlip ==
  ASSUME TypeOK, TypeOK', GenInv, CoreInv, CompactFlip
  PROVE  CoreInv' /\ SameFound
<1> DEFINE d == cell[target]
<1>1. /\ pc = "c_flip" /\ pc' = "c_stale" /\ UNCHANGED <<cell, active, cursor, index, ncur>>
      /\ hdr' = [hdr EXCEPT ![target].status = "ACTIVE"]
  BY DEF CompactFlip, ctx
<1>2. /\ active \in Regions /\ target \in Regions /\ target # active /\ target' = target
      /\ d \in Contents /\ Regions = {active, target} /\ target = 1 - active
  BY <1>1, TwoRegions DEF target
<1>3. /\ hdr'[target].status = "ACTIVE" /\ hdr'[target].gen = hdr[target].gen
      /\ hdr'[active] = hdr[active]
      /\ hdr[target].gen = hdr[active].gen + 1 /\ hdr[active].gen \in Nat
      /\ hdr[active].status = "ACTIVE"
  BY <1>1, <1>2 DEF TypeOK, GenInv, CoreInv, RegionInv, Copying
<1>4. ActiveRegions' = Regions /\ Chosen' = target
  <2>1. ActiveRegions' = Regions
    BY <1>2, <1>3 DEF ActiveRegions
  <2>2. hdr'[target].gen > hdr'[active].gen
    BY <1>3
  <2> QED BY <1>2, <2>1, <2>2, ChosenNewerNext
<1>5. /\ GoodLog(d) /\ ncur = LogEnd(d) /\ HasEnd(d)
      /\ \A x \in Offsets : x >= ncur => d[x] = Blank
      /\ \A m \in Ids : index[m] = EntryAt(d, ncur, m)
  BY <1>1 DEF CoreInv, CopyInv, Copying
<1>6. Good(d)
  <2> HIDE DEF d
  <2>1. Blank.t \notin RecordTypes
    BY DEF Blank, Unit, RecordTypes
  <2>2. GoodTail(d) /\ GoodRoom(d)
    BY <1>5, <2>1 DEF GoodTail, GoodRoom
  <2> QED BY <1>5, <2>2 DEF Good
<1>7. FlashInv'
  <2>1. \A r \in Regions : hdr'[r].status # "EMPTY"
    BY <1>2, <1>3
  <2> QED BY <1>1, <1>4, <1>6, <2>1 DEF FlashInv
<1>8. RegionInv' /\ CopyInv'
  BY <1>1, <1>2, <1>3, <1>4 DEF RegionInv, CopyInv, Settled, Formatting, Copying, Switching
<1>9. IndexInv'
  BY <1>1, <1>2, <1>5 DEF IndexInv, Settled, Formatting, Copying, Switching
<1>10. LimitInv'
  BY <1>1, LimitSame DEF CoreInv
<1>11. SameFound
  <2>1. ActiveRegions' # {}
    BY <1>2, <1>4
  <2>2. \A m \in Ids : OnFlash(m)' = index[m]
    BY <1>1, <1>4, <1>5, <2>1, OnFlashReadsNext DEF Final
  <2>3. \A m \in Ids : SameState(index[m], OnFlash(m))
    BY <1>1, IndexFound DEF Copying
  <2> QED BY <2>2, <2>3 DEF SameFound, SameState
<1> QED BY <1>7, <1>8, <1>9, <1>10, <1>11 DEF CoreInv

\* The old region is marked, then erased: it is not read any more.
LEMMA CoreCompactStale ==
  ASSUME TypeOK, TypeOK', CoreInv, CompactStale
  PROVE  CoreInv' /\ SameFound
<1>1. /\ pc = "c_stale" /\ pc' = "c_reclaim" /\ UNCHANGED <<cell, active, cursor, index, ncur>>
      /\ hdr' = [hdr EXCEPT ![active].status = "STALE"]
  BY DEF CompactStale, ctx
<1>2. /\ active \in Regions /\ target \in Regions /\ target # active /\ target' = target
      /\ Regions = {active, target} /\ 1 - target = active
  BY <1>1, TwoRegions DEF target, Regions
<1>3. /\ hdr'[target] = hdr[target] /\ hdr'[active].status = "STALE"
      /\ hdr[target].status = "ACTIVE" /\ Chosen = target
  BY <1>1, <1>2 DEF TypeOK, CoreInv, RegionInv, Switching
<1>4. ActiveRegions' = {target} /\ Chosen' = target /\ ActiveRegions # {} /\ Good(cell[target])
  BY <1>1, <1>2, <1>3, OneActiveNext, IndexFound DEF Switching
<1>5. FlashInv'
  BY <1>1, <1>2, <1>3, <1>4 DEF FlashInv
<1>6. RegionInv' /\ CopyInv'
  BY <1>1, <1>2, <1>3, <1>4 DEF RegionInv, CopyInv, Settled, Formatting, Copying, Switching
<1>7. IndexInv'
  BY <1>1, <1>2 DEF CoreInv, IndexInv, Settled, Formatting, Copying, Switching
<1>8. LimitInv'
  BY <1>1, LimitSame DEF CoreInv
<1>9. SameFound
  BY <1>1, <1>3, <1>4, FoundKept
<1> QED BY <1>5, <1>6, <1>7, <1>8, <1>9 DEF CoreInv

\* The old region is erased and the compacted one takes its place.
LEMMA CoreCompactReclaim ==
  ASSUME TypeOK, TypeOK', CoreInv, CompactReclaim
  PROVE  CoreInv' /\ SameFound /\ HasEnd(cell'[active'])
<1>1. /\ pc = "c_reclaim" /\ pc' = "append" /\ EnsureErased(active)
      /\ active' = target /\ cursor' = ncur /\ UNCHANGED index
  BY DEF CompactReclaim, SwitchRegion
<1>2. /\ active \in Regions /\ target \in Regions /\ target # active /\ target' = active
      /\ Regions = {active, target} /\ 1 - target = active
  BY <1>1, TwoRegions DEF target, Regions
<1>3. /\ hdr'[active].status = "EMPTY" /\ \A x \in Offsets : cell'[active][x] = Blank
      /\ hdr'[target] = hdr[target] /\ cell'[target] = cell[target]
  BY <1>1, <1>2, Erased DEF CoreInv
<1>4. hdr[target].status = "ACTIVE" /\ Chosen = target
  BY <1>1 DEF CoreInv, RegionInv, Switching
<1>5. ActiveRegions' = {target} /\ Chosen' = target /\ ActiveRegions # {} /\ Good(cell[target])
  BY <1>1, <1>2, <1>3, <1>4, OneActiveNext, IndexFound DEF Switching
<1>6. FlashInv'
  BY <1>1, <1>2, <1>3, <1>4, <1>5 DEF FlashInv
<1>7. RegionInv' /\ CopyInv'
  BY <1>1, <1>2, <1>3, <1>4, <1>5 DEF RegionInv, CopyInv, Settled, Formatting, Copying, Switching
<1>8. IndexInv' /\ HasEnd(cell'[active'])
  BY <1>1, <1>2, <1>3 DEF CoreInv, IndexInv, Settled, Formatting, Copying, Switching
<1>9. LimitInv'
  BY <1>1, LimitSame DEF CoreInv
<1>10. SameFound
  BY <1>1, <1>3, <1>4, <1>5, FoundKept
<1> QED BY <1>6, <1>7, <1>8, <1>9, <1>10 DEF CoreInv

-----------------------------------------------------------------------------
(* The append that ends an operation.                                      *)

\* What is found of a message when the record rec has been appended.
After(rec, m, e) ==
  IF rec.id # m THEN OnFlash(m)
  ELSE EntryOf(rec.st, rec.att, IF rec.t = "MESSAGE" THEN e ELSE OnFlash(m).off)

\* The record of an operation is one that the log can take.
LEMMA OpRecord ==
  ASSUME TypeOK, HeldInv, CoreInv, OpInv, pc = "append"
  PROVE  /\ op.kind # "none" /\ op.rec \in Cells /\ op.rec.id \in Ids /\ op.rec.ok
         /\ op.rec.t \in {"MESSAGE", "UPDATE"}
         /\ op.rec.t = "MESSAGE" <=> op.kind = "enqueue"
         /\ op.rec.st \in States /\ op.rec.att \in Nat
         /\ GoodRecord(cell[active], LogEnd(cell[active]), op.rec)
<1> DEFINE c == cell[active]
           m == op.rec.id
<1>1. op.kind # "none" /\ op.kind \in Kinds /\ op.rec \in Cells
  BY DEF HeldInv, Busy, TypeOK
<1>2. m \in Ids /\ op.kind # "corrupt"
  BY <1>1 DEF OpInv
<1>3. /\ c \in Contents /\ GoodLog(c) /\ cursor = LogEnd(c) /\ cursor \in Nat
      /\ \A n \in Ids : index[n] = EntryAt(c, cursor, n)
  BY TwoRegions, IndexFound DEF CoreInv, IndexInv, Settled, Good, TypeOK
<1>4. Indexed = IndexedAt(c, cursor)
  <2> HIDE DEF c
  <2> QED BY <1>3, IndexIsLog
<1>5. index[m].att \in Nat
  BY <1>2 DEF TypeOK, Entries
<1>6. CASE op.kind = "enqueue"
  <2>1. /\ op.rec = Message(m, "PENDING", 0, m) /\ UnknownOnFlash(m)
        /\ Cardinality(Indexed) < MaxMessages
    BY <1>1, <1>6 DEF OpInv
  <2>2. /\ op.rec.t = "MESSAGE" /\ op.rec.st = "PENDING" /\ op.rec.body = m /\ op.rec.ok
        /\ op.rec.att = 0
    BY <2>1 DEF Message
  <2>3. Before(c, cursor, m) = {}
    <3>1. \A o \in LogOf(c) : o \in Offsets
      <4> HIDE DEF c
      <4> QED BY <1>3, LogFacts
    <3>2. \A o \in Offsets : c[o].id # m
      BY <2>1, TwoRegions DEF UnknownOnFlash
    <3> QED BY <3>1, <3>2 DEF Before
  <2>4. GoodRecord(c, cursor, op.rec)
    BY <1>4, <2>1, <2>2, <2>3 DEF GoodRecord
  <2> QED BY <1>1, <1>2, <1>3, <1>6, <2>2, <2>4 DEF States
<1>7. CASE op.kind # "enqueue"
  <2>1. /\ \E st \in States, att \in Nat : op.rec = Update(m, st, att)
        /\ m \in Indexed
    <3>1. /\ op.kind \in {"claim", "deliver", "retry", "dead", "remove", "requeue"}
      BY <1>1, <1>2, <1>7 DEF Kinds
    <3> QED BY <1>1, <1>2, <1>5, <3>1 DEF OpInv, States, Indexed
  <2>2. op.rec.t = "UPDATE" /\ op.rec.ok /\ op.rec.st \in States /\ op.rec.att \in Nat
    BY <2>1 DEF Update
  <2>3. GoodRecord(c, cursor, op.rec)
    BY <1>4, <2>1, <2>2 DEF GoodRecord
  <2> QED BY <1>1, <1>2, <1>3, <1>7, <2>2, <2>3
<1> QED BY <1>6, <1>7

\* Once the record of the operation is on flash: the log, and what a recovery
\* would find.
LEMMA Appended ==
  ASSUME TypeOK, TypeOK', HeldInv, CoreInv, RoomInv, OpInv, pc = "append",
         Fits(cursor, op.rec), cell' = Written(active, cursor, op.rec), UNCHANGED hdr
  PROVE  /\ FlashInv' /\ ActiveRegions' = ActiveRegions /\ Chosen' = active /\ Chosen = active
         /\ ActiveRegions # {}
         /\ LogEnd(cell'[active]) = cursor + Size(op.rec)
         /\ \A m \in Ids : OnFlash(m)' = After(op.rec, m, cursor)
<1> DEFINE c == cell[active]
           d == cell'[active]
           e == LogEnd(c)
           rec == op.rec
<1>1. /\ c \in Contents /\ Good(c) /\ cursor = e /\ active \in Regions
      /\ \A n \in Ids : OnFlash(n) = EntryAt(c, e, n)
      /\ Chosen = active /\ ActiveRegions # {}
  BY TwoRegions, IndexFound DEF CoreInv, IndexInv, Settled, Final
<1>2. /\ d = Put(c, e, rec) /\ \A r \in Regions \ {active} : cell'[r] = cell[r]
  BY <1>1, WrittenPut
<1>3. /\ rec \in Cells /\ rec.t \in RecordTypes /\ rec.ok /\ GoodRecord(c, e, rec)
      /\ e + Size(rec) <= Capacity
  BY <1>1, OpRecord DEF RecordTypes, Fits
<1>4. /\ d \in Contents /\ GoodLog(d) /\ GoodTail(d)
      /\ LogOf(d) = LogOf(c) \cup {e} /\ LogEnd(d) = e + Size(rec)
      /\ \A o \in LogOf(c) : d[o] = c[o]
      /\ \A m \in Ids : EntryAt(d, LogEnd(d), m) =
              IF rec.id # m THEN EntryAt(c, e, m)
              ELSE EntryOf(rec.st, rec.att, IF rec.t = "MESSAGE" THEN e ELSE EntryAt(c, e, m).off)
  <2> HIDE DEF rec, c, d
  <2> QED BY <1>1, <1>2, <1>3, GoodAppend DEF Good
<1>5. GoodRoom(d)
  <2>1. CASE HasEnd(c)
    BY <1>4, <2>1 DEF GoodRoom, HasEnd
  <2>2. CASE cursor + Size(rec) + SectorSize <= Capacity
    BY <1>1, <1>4, <2>2 DEF GoodRoom
  <2> QED BY <2>1, <2>2 DEF RoomInv
<1>6. ActiveRegions' = ActiveRegions /\ Chosen' = active
  BY <1>1, SameChoice
<1>7. FlashInv'
  <2>1. hdr[active].status = "ACTIVE"
    BY DEF CoreInv, RegionInv, Settled
  <2> QED BY <1>2, <1>4, <1>5, <1>6, <2>1 DEF CoreInv, FlashInv, Good
<1>8. \A m \in Ids : OnFlash(m)' = EntryAt(d, LogEnd(d), m)
  BY <1>1, <1>6, OnFlashReadsNext DEF Final
<1> QED BY <1>1, <1>4, <1>6, <1>7, <1>8 DEF After

\* The operation's effect on the index is the record's effect on the log.
LEMMA CoreDoAppend ==
  ASSUME TypeOK, TypeOK', HeldInv, CoreInv, RoomInv, OpInv, DoAppend
  PROVE  CoreInv' /\ \A m \in Ids : OnFlash(m)' = After(op.rec, m, cursor)
<1>1. /\ pc = "append" /\ pc' \in {"requeue", "idle"} /\ UNCHANGED <<hdr, active>>
      /\ Fits(cursor, op.rec) /\ cell' = Written(active, cursor, op.rec)
      /\ cursor' = cursor + Size(op.rec) /\ index' = Applied /\ target' = target
  BY DEF DoAppend, Return, target
<1>2. /\ FlashInv' /\ ActiveRegions' = ActiveRegions /\ Chosen' = active /\ Chosen = active
      /\ LogEnd(cell'[active]) = cursor + Size(op.rec) /\ ActiveRegions # {}
      /\ \A m \in Ids : OnFlash(m)' = After(op.rec, m, cursor)
  BY <1>1, Appended
<1>3. /\ op.rec.id \in Ids /\ (op.rec.t = "MESSAGE" <=> op.kind = "enqueue")
      /\ op.kind # "none"
  BY <1>1, OpRecord
<1>4. \A m \in Ids : index[m] = OnFlash(m)
  BY <1>1, IndexFound DEF Settled
<1>5. \A m \in Ids : index'[m] = After(op.rec, m, cursor)
  BY <1>1, <1>3, <1>4 DEF Applied, After, TypeOK
<1>6. \A m \in Ids : index'[m] = EntryAt(cell'[active'], cursor', m)
  BY <1>1, <1>2, <1>5, OnFlashReadsNext DEF Final
<1>7. IndexInv'
  BY <1>1, <1>2, <1>6 DEF IndexInv, Settled, Formatting, Copying, Switching
<1>8. RegionInv' /\ CopyInv'
  BY <1>1, <1>2 DEF CoreInv, RegionInv, CopyInv, Settled, Formatting, Copying, Switching
<1>9. LimitInv'
  <2>1. \A m \in Ids : m # op.rec.id => index'[m] = index[m]
    BY <1>4, <1>5 DEF After
  <2>2. CASE op.kind = "enqueue"
    <3>1. Cardinality(Indexed) < MaxMessages /\ Indexed' \subseteq Indexed \cup {op.rec.id}
      BY <1>3, <2>1, <2>2 DEF OpInv, Indexed
    <3>2. Cardinality(Indexed \cup {op.rec.id}) <= Cardinality(Indexed) + 1
          /\ IsFiniteSet(Indexed \cup {op.rec.id})
          /\ Cardinality(Indexed \cup {op.rec.id}) \in Nat
      BY OneMore
    <3>3. Cardinality(Indexed') <= Cardinality(Indexed \cup {op.rec.id})
          /\ Cardinality(Indexed') \in Nat
      BY <3>1, <3>2, FS_Subset, FS_CardinalityType
    <3> QED BY <3>1, <3>2, <3>3, IndexFinite, BoundAssumption DEF LimitInv
  <2>3. CASE op.kind # "enqueue"
    <3>1. op.rec.id \in Indexed
      BY <1>3, <2>3 DEF OpInv, Indexed, TypeOK, Kinds
    <3>2. Indexed' \subseteq Indexed
      BY <2>1, <3>1 DEF Indexed
    <3>3. Cardinality(Indexed') <= Cardinality(Indexed) /\ Cardinality(Indexed') \in Nat
      BY <3>2, IndexFinite, FS_Subset, FS_CardinalityType
    <3> QED BY <3>3, IndexFinite, BoundAssumption DEF LimitInv, CoreInv
  <2> QED BY <2>2, <2>3
<1> QED BY <1>2, <1>7, <1>8, <1>9 DEF CoreInv

\* A write that leaves no record: torn by a power loss, or over units that an
\* earlier one tore.
LEMMA TornTail ==
  ASSUME TypeOK, TypeOK', CoreInv, pc = "append", UNCHANGED hdr,
         \A r \in Regions \ {active} : cell'[r] = cell[r],
         \A x \in Offsets : x < cursor => cell'[active][x] = cell[active][x],
         \A x \in Offsets : \/ cell'[active][x] = cell[active][x]
                            \/ cell'[active][x].t \notin RecordTypes
  PROVE  /\ FlashInv' /\ SameFound /\ ActiveRegions' = ActiveRegions /\ Chosen' = active
         /\ LogEnd(cell'[active]) = cursor
         /\ \A m \in Ids : EntryAt(cell'[active], cursor, m) = EntryAt(cell[active], cursor, m)
<1> DEFINE c == cell[active]
           d == cell'[active]
<1>1. /\ c \in Contents /\ d \in Contents /\ Good(c) /\ cursor = LogEnd(c) /\ cursor \in Nat
      /\ Chosen = active /\ ActiveRegions # {} /\ active \in Regions
  BY TwoRegions, TwoRegionsNext, IndexFound DEF CoreInv, IndexInv, Settled, TypeOK
<1>2. \A x \in Offsets : x >= cursor => d[x].t \notin RecordTypes
  BY <1>1 DEF Good, GoodTail
<1>3. /\ Good(d) /\ LogEnd(d) = LogEnd(c)
      /\ \A e \in Nat, m \in Ids : EntryAt(d, e, m) = EntryAt(c, e, m)
  <2> HIDE DEF c, d
  <2>1. \A x \in Offsets : x < LogEnd(c) => d[x] = c[x]
    BY <1>1 DEF c, d
  <2> QED BY <1>1, <1>2, <2>1, GoodTorn
<1>4. ActiveRegions' = ActiveRegions /\ Chosen' = active
  BY <1>1, SameChoice
<1>5. hdr[active].status = "ACTIVE"
  BY DEF CoreInv, RegionInv, Settled
<1>6. FlashInv'
  BY <1>1, <1>3, <1>4, <1>5 DEF CoreInv, FlashInv
<1>7. SameFound
  BY <1>1, <1>3, <1>4, OnFlashReads, OnFlashReadsNext DEF SameFound, SameState, Final
<1> QED BY <1>1, <1>3, <1>4, <1>6, <1>7

\* What an interrupted or a refused write leaves beyond the log.
LEMMA SmearedTail ==
  ASSUME TypeOK, NEW r \in Regions, NEW o \in Nat, NEW rec \in Cells,
         \/ cell' = Smeared(r, o, rec)
         \/ \E k \in 1 .. Size(rec) : cell' = TornAt(r, o, k)
  PROVE  /\ \A s \in Regions \ {r} : cell'[s] = cell[s]
         /\ \A x \in Offsets : x < o => cell'[r][x] = cell[r][x]
         /\ \A x \in Offsets : \/ cell'[r][x] = cell[r][x]
                               \/ cell'[r][x].t \notin RecordTypes
<1>1. Junk.t \notin RecordTypes /\ Unit("TORN").t \notin RecordTypes
  BY DEF Junk, Unit, RecordTypes
<1>2. \A n \in Nat : \A x \in Offsets : x < o => x \notin Span(o, n) /\ x # o
  BY OffsetsNat DEF Span
<1>3. CASE cell' = Smeared(r, o, rec)
  BY <1>1, <1>2, <1>3, SizeNat DEF Smeared, TypeOK
<1>4. ASSUME NEW k \in 1 .. Size(rec), cell' = TornAt(r, o, k)
      PROVE  /\ \A s \in Regions \ {r} : cell'[s] = cell[s]
             /\ \A x \in Offsets : x < o => cell'[r][x] = cell[r][x]
             /\ \A x \in Offsets : \/ cell'[r][x] = cell[r][x]
                                   \/ cell'[r][x].t \notin RecordTypes
  <2>1. k \in Nat
    BY SizeNat
  <2> QED BY <1>1, <1>2, <1>4, <2>1 DEF TornAt, TypeOK
<1> QED BY <1>3, <1>4

\* A write over torn units is refused and leaves the log.
LEMMA CoreWriteRefused ==
  ASSUME TypeOK, TypeOK', CoreInv, WriteRefused
  PROVE  CoreInv' /\ SameFound
<1>1. /\ pc = "append" /\ pc' \in {"failed", "idle"} /\ UNCHANGED <<hdr, active, cursor, index>>
      /\ cell' = Smeared(active, cursor, op.rec) /\ target' = target
  BY DEF WriteRefused, Abandon, ctx, target
<1>2. /\ FlashInv' /\ SameFound /\ ActiveRegions' = ActiveRegions /\ Chosen' = active
      /\ LogEnd(cell'[active]) = cursor
      /\ \A m \in Ids : EntryAt(cell'[active], cursor, m) = EntryAt(cell[active], cursor, m)
  <2>1. op.rec \in Cells /\ active \in Regions /\ cursor \in Nat
    BY DEF TypeOK
  <2> QED BY <1>1, <2>1, SmearedTail, TornTail
<1>3. IndexInv'
  BY <1>1, <1>2 DEF CoreInv, IndexInv, Settled, Formatting, Copying, Switching
<1>4. RegionInv' /\ CopyInv'
  BY <1>1, <1>2 DEF CoreInv, RegionInv, CopyInv, Settled, Formatting, Copying, Switching
<1>5. LimitInv'
  BY <1>1, LimitSame DEF CoreInv
<1> QED BY <1>2, <1>3, <1>4, <1>5 DEF CoreInv

-----------------------------------------------------------------------------
(* Power loss.                                                             *)

\* What a recovery would find after a power loss: what it would have found, or
\* what it will find once the operation in progress is done.
LEMMA CorePowerLoss ==
  ASSUME CrashOnly, TypeOK, TypeOK', GenInv, HeldInv, CoreInv, RoomInv, OpInv, PowerLoss
  PROVE  /\ CoreInv'
         /\ \/ SameFound
            \/ /\ pc = "append" /\ Fits(cursor, op.rec)
               /\ \A m \in Ids : OnFlash(m)' = After(op.rec, m, cursor)
<1> DEFINE Found == \/ SameFound
                    \/ /\ pc = "append" /\ Fits(cursor, op.rec)
                       /\ \A m \in Ids : OnFlash(m)' = After(op.rec, m, cursor)
<1> SUFFICES FlashInv' /\ Found
  BY CoreReset DEF PowerLoss
<1>1. CASE UNCHANGED flash
  BY <1>1, FlashSame DEF CoreInv
<1>2. CASE AppendLands
  BY <1>2, Appended DEF AppendLands
<1>3. CASE AppendTears
  <2>1. op.rec \in Cells /\ active \in Regions /\ cursor \in Nat
    BY DEF TypeOK
  <2>2. /\ \A s \in Regions \ {active} : cell'[s] = cell[s]
        /\ \A x \in Offsets : x < cursor => cell'[active][x] = cell[active][x]
        /\ \A x \in Offsets : \/ cell'[active][x] = cell[active][x]
                              \/ cell'[active][x].t \notin RecordTypes
    BY <1>3, <2>1, SmearedTail DEF AppendTears
  <2> QED BY <1>3, <2>2, TornTail DEF AppendTears
<1>4. CASE HeaderTears
  <2>1. CASE pc = "f_hdr"
    <3>1. hdr' = [hdr EXCEPT ![0].status = "JUNK"] /\ UNCHANGED cell /\ ActiveRegions = {}
      BY <1>4, <2>1 DEF HeaderTears, HeaderTarget, CoreInv, RegionInv, Formatting
    <3>2. hdr'[0].status = "JUNK" /\ \A s \in Regions \ {0} : hdr'[s] = hdr[s]
      BY <3>1 DEF TypeOK, Regions
    <3>3. ActiveRegions' = {}
      BY <3>1, <3>2 DEF ActiveRegions
    <3> QED BY <3>1, <3>2, <3>3, FoundNothing DEF CoreInv, FlashInv
  <2>2. CASE pc = "c_hdr"
    <3>1. hdr' = [hdr EXCEPT ![target].status = "JUNK"] /\ UNCHANGED cell
      BY <1>4, <2>2 DEF HeaderTears, HeaderTarget
    <3>2. hdr'[target].status = "JUNK" /\ hdr'[active] = hdr[active]
      BY <3>1, TwoRegions DEF TypeOK
    <3> QED BY <2>2, <3>1, <3>2, TargetOnly
  <2> QED BY <1>4, <2>1, <2>2 DEF HeaderTears, HeaderTarget
<1> QED BY <1>1, <1>2, <1>3, <1>4 DEF PowerLoss, CrashOnly

-----------------------------------------------------------------------------
(* The invariant, step by step.                                            *)

\* With power losses only, no call returns an error and no byte changes.
LEMMA NoFaults == CrashOnly => ~FlashError /\ ~Rot
BY DEF CrashOnly, FlashError, Rot, Fault

\* A step that an operation begins with, or ends with an error, writes nothing.
LEMMA CoreBegin ==
  ASSUME CoreInv, pc \in {"idle", "requeue"}, UNCHANGED <<flash, ctx>>,
         NEW kind, NEW rec, NEW body, Begin(kind, rec, body)
  PROVE  CoreInv' /\ SameFound
BY CoreSettled, FlashSame DEF Begin, Settled

\* What a recovery would find is left, or is changed by the record of the
\* operation that ends; and the index follows the log (every function that
\* writes flash).
LEMMA CoreNext ==
  ASSUME CrashOnly, TypeOK, TypeOK', GenInv, HeldInv, CoreInv, RoomInv, OpInv, [Next]_vars
  PROVE  /\ CoreInv'
         /\ \/ SameFound
            \/ /\ DoAppend \/ PowerLoss
               /\ pc = "append" /\ \A m \in Ids : OnFlash(m)' = After(op.rec, m, cursor)
<1> DEFINE Goal == /\ CoreInv'
                   /\ \/ SameFound
                      \/ /\ DoAppend \/ PowerLoss
                         /\ pc = "append" /\ \A m \in Ids : OnFlash(m)' = After(op.rec, m, cursor)
<1>1. CASE Recovery
  <2>1. CASE Boot
    BY <2>1, CoreBoot, FlashSame
  <2>2. CASE Format
    <3>1. 0 \in Regions /\ 1 \in Regions
      BY DEF Regions
    <3> QED BY <2>2, <3>1, CoreFormatErase, CoreFormatHeader DEF Format
  <2>3. CASE EraseSpare
    BY <2>3, CoreEraseSpare
  <2>4. CASE ScanRecord
    BY <2>4, CoreScanRecord, FlashSame
  <2>5. CASE ScanEnd
    BY <2>5, CoreScanEnd, FlashSame
  <2>6. CASE Recovered
    BY <2>6, CoreSettled, FlashSame DEF Recovered, Settled
  <2>7. ASSUME NEW m \in Ids, Requeue(m) PROVE Goal
    BY <2>7, CoreBegin DEF Requeue
  <2> QED BY <1>1, <2>1, <2>2, <2>3, <2>4, <2>5, <2>6, <2>7 DEF Recovery
<1>2. CASE Restart
  BY <1>2, CoreReset, FlashSame DEF Restart, CoreInv
<1>3. CASE Compaction
  <2>1. CASE CompactErase
    BY <2>1, CoreCompactErase, FlashSame
  <2>2. CASE Horizon
    BY <2>2, CoreSettled, FlashSame DEF Horizon, vars, flash, ctx, Settled
  <2>3. ASSUME NEW m \in Ids, CompactCopy(m) PROVE Goal
    BY <2>3, CoreCompactCopy
  <2> QED BY <1>3, <2>1, <2>2, <2>3, CoreCompactHeader, CoreCompactEnd, NoCopyRefused,
             CoreCompactFlip, CoreCompactStale, CoreCompactReclaim DEF Compaction
<1>4. CASE Append
  <2>1. CASE DoAppend
    BY <2>1, CoreDoAppend DEF DoAppend
  <2>2. CASE NoRoom
    <3>1. pc = "append" /\ pc' \in {"failed", "idle"} /\ UNCHANGED <<flash, ctx>>
      BY <2>2 DEF NoRoom, Abandon
    <3> QED BY <3>1, CoreSettled, FlashSame DEF Settled
  <2>3. CASE WriteRefused
    BY <2>3, CoreWriteRefused
  <2> QED BY <1>4, <2>1, <2>2, <2>3 DEF Append
<1>5. CASE Publisher
  BY <1>5, CoreBegin DEF Publisher, Enqueue, Remove
<1>6. CASE Worker
  <2>1. ASSUME NEW m \in Ids, Claim(m) PROVE Goal
    BY <2>1, CoreBegin DEF Claim
  <2>2. CASE MarkDelivered
    BY <2>2, CoreBegin DEF MarkDelivered
  <2>3. CASE ScheduleRetry
    BY <2>3, CoreBegin DEF ScheduleRetry
  <2> QED BY <1>6, <2>1, <2>2, <2>3 DEF Worker
<1>7. CASE PowerLoss
  BY <1>7, CorePowerLoss
<1>8. CASE PollIdle \/ UNCHANGED vars
  <2>1. UNCHANGED <<flash, vars>>
    BY <1>8 DEF PollIdle, vars, flash
  <2>2. CoreInv'
    <3>1. FlashInv' /\ LimitInv' /\ ActiveRegions' = ActiveRegions /\ Chosen' = Chosen
      BY <2>1, FlashSame, LimitSame DEF CoreInv, vars
    <3>2. UNCHANGED <<hdr, cell, pc, active, cursor, index, ncur, todo>> /\ target' = target
      BY <2>1 DEF vars, target
    <3>3. RegionInv' /\ IndexInv'
      BY <3>1, <3>2 DEF CoreInv, RegionInv, IndexInv
    <3>4. CopyInv'
      BY <3>1, <3>2 DEF CoreInv, CopyInv, Uncopied
    <3> QED BY <3>1, <3>3, <3>4 DEF CoreInv
  <2> QED BY <2>1, <2>2, FlashSame
<1> QED BY <1>1, <1>2, <1>3, <1>4, <1>5, <1>6, <1>7, <1>8, NoFaults DEF Next

\* ensure_space_locked leaves room for an END record after every append, but
\* one that follows a compaction, whose log has one.
LEMMA RoomNext ==
  ASSUME CrashOnly, TypeOK, TypeOK', CoreInv, RoomInv, [Next]_vars
  PROVE  RoomInv'
<1> SUFFICES ASSUME pc' = "append" PROVE RoomInv'
  BY DEF RoomInv
<1>1. ASSUME NEW kind, NEW rec, NEW body, Begin(kind, rec, body), UNCHANGED cursor
      PROVE  RoomInv'
  <2>1. op'.rec = rec /\ ~NeedsCompaction(rec)
    BY <1>1 DEF Begin
  <2>2. rec \in Cells
    BY <2>1 DEF TypeOK
  <2>3. Size(rec) \in Nat /\ cursor \in Nat /\ Capacity \in Nat /\ SectorSize \in Nat
    BY <2>2, SizeNat, SizeAssumption DEF TypeOK
  <2>4. cursor + Size(rec) + SectorSize <= Capacity
    BY <2>1, <2>3 DEF NeedsCompaction
  <2> QED BY <1>1, <2>1, <2>4 DEF RoomInv
<1>2. CASE CompactReclaim
  BY <1>2, CoreCompactReclaim DEF RoomInv
<1>3. CASE UNCHANGED vars
  BY <1>3 DEF vars, RoomInv
<1>4. CASE Recovery
  BY <1>1, <1>4 DEF Recovery, Boot, Format, FormatErase, FormatHeader, EraseSpare, ScanRecord,
     ScanEnd, Recovered, Requeue, ctx
<1>5. CASE Compaction
  <2>1. CASE Horizon
    BY <2>1 DEF Horizon, vars
  <2>2. CASE CompactErase \/ CompactHeader \/ CompactEnd \/ CompactFlip \/ CompactStale
    BY <2>2 DEF CompactErase, CompactHeader, CompactEnd, CompactFlip, CompactStale
  <2>3. ~CopyRefused
    BY NoCopyRefused
  <2>4. ASSUME NEW m \in Ids, CompactCopy(m) PROVE FALSE
    BY <2>4 DEF CompactCopy
  <2> QED BY <1>2, <1>5, <2>1, <2>2, <2>3, <2>4 DEF Compaction
<1>6. CASE Append \/ Restart \/ PowerLoss \/ PollIdle
  BY <1>6 DEF Append, DoAppend, NoRoom, WriteRefused, Return, Abandon, Restart, PowerLoss, PollIdle, vars
<1>7. CASE Publisher
  BY <1>1, <1>7 DEF Publisher, Enqueue, Remove, ctx
<1>8. CASE Worker
  <2>1. ASSUME NEW m \in Ids, Claim(m) PROVE RoomInv'
    BY <1>1, <2>1 DEF Claim, ctx
  <2>2. CASE MarkDelivered
    BY <1>1, <2>2 DEF MarkDelivered, ctx
  <2>3. CASE ScheduleRetry
    BY <1>1, <2>3 DEF ScheduleRetry, ctx
  <2> QED BY <1>8, <2>1, <2>2, <2>3 DEF Worker
<1> QED BY <1>3, <1>4, <1>5, <1>6, <1>7, <1>8, NoFaults DEF Next

\* What an idle backend knows of a message it would write a record of.
LEMMA IdleKnows ==
  ASSUME TypeOK, CoreInv, pc \in {"idle", "requeue"}, NEW m \in Ids
  PROVE  /\ index[m] = OnFlash(m) /\ index[m].att \in Nat
         /\ index[m] = Absent <=> index[m].st = "NONE"
         /\ index[m] # Absent => Readable(m) /\ BytesAt(index[m].off, m) = m
<1> DEFINE c == cell[active]
<1>1. /\ index[m] = OnFlash(m) /\ index[m] = EntryAt(c, cursor, m) /\ GoodLog(c) /\ cursor \in Nat
  BY IndexFound DEF CoreInv, IndexInv, Settled, Good, TypeOK
<1>2. index[m] = Absent <=> index[m].st = "NONE"
  BY <1>1, FoundShape, AbsentState DEF CoreInv, LiveStates
<1>3. ASSUME index[m] # Absent PROVE Readable(m) /\ BytesAt(index[m].off, m) = m
  <2>1. c = cell[active]
    OBVIOUS
  <2> HIDE DEF c
  <2> QED BY <1>1, <1>3, <2>1, Stored
<1>4. index[m].att \in Nat
  BY DEF TypeOK, Entries
<1> QED BY <1>1, <1>2, <1>3, <1>4

\* An operation that begins has something to say of its message.
LEMMA OpBegins ==
  ASSUME CrashOnly, TypeOK, TypeOK', FreshInv, HeldInv, CoreInv, HistoryInv,
         \/ \E m \in Ids : Requeue(m) \/ Enqueue(m) \/ Remove(m) \/ Claim(m)
         \/ MarkDelivered \/ ScheduleRetry
  PROVE  OpInv'
<1> USE DEF flash, ctx, history
<1>1. ASSUME NEW m \in Ids, Requeue(m) PROVE OpInv'
  <2>1. op'.kind = "requeue" /\ op'.rec = Update(m, "PENDING", index[m].att)
        /\ index[m].st = "IN_FLIGHT" /\ UNCHANGED index
    BY <1>1 DEF Requeue, Begin
  <2> QED BY <2>1 DEF OpInv, Update
<1>2. ASSUME NEW m \in Ids, Enqueue(m) PROVE OpInv'
  <2>1. /\ op'.kind = "enqueue" /\ op'.rec = Message(m, "PENDING", 0, m)
        /\ UNCHANGED <<index, cell, started>> /\ fate'[m] = "offered" /\ fate[m] = "fresh"
        /\ pc = "idle" /\ Cardinality(Indexed) < MaxMessages
    BY <1>2 DEF Enqueue, Begin, TypeOK
  <2>2. UnknownOnFlash(m) /\ index[m].st = "NONE"
    BY <2>1 DEF FreshInv, Unknown
  <2>3. UnknownOnFlash(m)' /\ Indexed' = Indexed
    BY <2>1, <2>2 DEF UnknownOnFlash, Indexed
  <2>4. index'[m] = Absent /\ started'[m] = 0
    BY <2>1, <2>2, IdleKnows DEF HistoryInv
  <2>5. op'.rec.id = m
    BY <2>1 DEF Message
  <2> QED BY <2>1, <2>3, <2>4, <2>5 DEF OpInv
<1>3. ASSUME NEW m \in Ids, Remove(m) PROVE OpInv'
  <2>1. /\ op'.kind = "remove" /\ op'.rec = Update(m, "REMOVED", index[m].att)
        /\ index[m].st = "PENDING" /\ UNCHANGED index /\ fate'[m] = "closing"
    BY <1>3 DEF Remove, Begin, TypeOK
  <2> QED BY <2>1 DEF OpInv, Update
<1>4. ASSUME NEW m \in Ids, Claim(m) PROVE OpInv'
  <2>1. Readable(m) /\ BytesAt(index[m].off, m) = m
    BY <1>4, IdleKnows DEF Claim, Absent
  <2>2. /\ op'.kind = "claim" /\ op'.rec = Update(m, "IN_FLIGHT", index[m].att + 1)
        /\ op'.body = m /\ index[m].st = "PENDING" /\ UNCHANGED index
    BY <1>4, <2>1 DEF Claim, Begin, CrashOnly, Fault
  <2> QED BY <2>2 DEF OpInv, Update
<1>5. CASE MarkDelivered
  <2>1. held.id \in Ids /\ index[held.id].st = "IN_FLIGHT"
    BY <1>5 DEF MarkDelivered, HeldInv
  <2>2. /\ op'.kind = "deliver" /\ op'.rec = Update(held.id, "DELIVERED", index[held.id].att)
        /\ UNCHANGED index /\ fate'[held.id] = "closing"
    BY <1>5, <2>1 DEF MarkDelivered, Begin, TypeOK
  <2> QED BY <2>1, <2>2 DEF OpInv, Update
<1>6. CASE ScheduleRetry
  <2>1. held.id \in Ids /\ index[held.id].st = "IN_FLIGHT"
    BY <1>6 DEF ScheduleRetry, HeldInv
  <2> DEFINE att == index[held.id].att
  <2>2. /\ UNCHANGED index
        /\ \/ ShouldRetry(att) /\ op'.kind = "retry" /\ op'.rec = Update(held.id, "PENDING", att)
           \/ op'.kind = "dead" /\ op'.rec = Update(held.id, "DEAD_LETTER", att)
    BY <1>6 DEF ScheduleRetry, Begin
  <2>3. index' = index /\ op'.rec.id = held.id
    BY <2>2 DEF Update
  <2>4. CASE ShouldRetry(att) /\ op'.kind = "retry" /\ op'.rec = Update(held.id, "PENDING", att)
    BY <2>1, <2>3, <2>4 DEF OpInv, ShouldRetry
  <2>5. CASE op'.kind = "dead" /\ op'.rec = Update(held.id, "DEAD_LETTER", att)
    BY <2>1, <2>3, <2>5 DEF OpInv
  <2> QED BY <2>2, <2>4, <2>5
<1> QED BY <1>1, <1>2, <1>3, <1>4, <1>5, <1>6

\* A compaction writes no record of a message that is not in the index.
LEMMA OpCompaction ==
  ASSUME TypeOK, TypeOK', CoreInv, OpInv, Compaction PROVE OpInv'
<1> USE DEF flash, ctx, history
<1>0. active \in Regions /\ target \in Regions /\ ~CopyRefused
  BY TwoRegions, NoCopyRefused
<1>1. ASSUME UNCHANGED cell, NEW m \in Ids, UnknownOnFlash(m) PROVE UnknownOnFlash(m)'
  BY <1>1 DEF UnknownOnFlash
<1>2. ASSUME UNCHANGED index, NEW m \in Ids
      PROVE  /\ SameState(index'[m], index[m])
             /\ index[m] = Absent => index'[m] = Absent
  BY <1>2 DEF SameState
<1>3. CASE CompactErase \/ CompactReclaim
  <2>1. UNCHANGED <<op, fate, started, index>>
    BY <1>3 DEF CompactErase, CompactReclaim, SwitchRegion
  <2>2. EnsureErased(target) \/ EnsureErased(active)
    BY <1>3 DEF CompactErase, CompactReclaim
  <2>3. \A m \in Ids : UnknownOnFlash(m) => UnknownOnFlash(m)'
    BY <1>0, <2>2, UnknownErased
  <2> QED BY <1>2, <2>1, <2>3, OpSame
<1>4. CASE CompactHeader \/ CompactFlip \/ CompactStale \/ Horizon
  <2>1. UNCHANGED <<op, fate, started, index>> /\ UNCHANGED cell
    BY <1>4 DEF CompactHeader, CompactFlip, CompactStale, Horizon, vars
  <2> QED BY <1>1, <1>2, <2>1, OpSame
<1>5. CASE CompactEnd
  <2>1. UNCHANGED <<op, fate, started, index>> /\ cell' = Written(target, ncur, End)
    BY <1>5 DEF CompactEnd
  <2>2. End \in Cells /\ \A m \in Ids : End.id # m
    BY PlainUnits, IdsAssumption DEF End, Unit, UnitTypes, RecordTypes
  <2>3. \A m \in Ids : UnknownOnFlash(m) => UnknownOnFlash(m)'
    BY <1>0, <2>1, <2>2, UnknownKept
  <2> QED BY <1>2, <2>1, <2>3, OpSame
<1>6. ASSUME NEW n \in Ids, CompactCopy(n) PROVE OpInv'
  <2>1. UNCHANGED <<op, fate, started>> /\ cell' = Written(target, ncur, Copy(n))
        /\ pc = "c_copy" /\ n \in todo
    BY <1>6 DEF CompactCopy
  <2>2. \A m \in Ids : /\ SameState(index'[m], index[m])
                       /\ index[m] = Absent => index'[m] = Absent
    BY <1>6, CoreCompactCopy
  <2>3. Copy(n) \in Cells /\ Copy(n).id = n /\ index[n] # Absent
    BY <2>1, CopyType, Copyable DEF Copy, Message
  <2>4. \A m \in Ids : UnknownOnFlash(m) /\ index[m] = Absent => UnknownOnFlash(m)'
    <3> SUFFICES ASSUME NEW m \in Ids, UnknownOnFlash(m), index[m] = Absent
                 PROVE  UnknownOnFlash(m)'
      OBVIOUS
    <3>1. n # m
      BY <2>3
    <3> QED BY <1>0, <2>1, <2>3, <3>1, UnknownKept
  <2> QED BY <2>1, <2>2, <2>4, OpSame
<1> QED BY <1>0, <1>3, <1>4, <1>5, <1>6 DEF Compaction

\* What an operation is about to write stays what its index entry calls for.
LEMMA OpNext ==
  ASSUME CrashOnly, TypeOK, TypeOK', FreshInv, HeldInv, HeldInv', CoreInv, OpInv, HistoryInv,
         [Next]_vars
  PROVE  OpInv'
<1>1. CASE pc' \notin Busy
  BY <1>1 DEF HeldInv, OpInv
<1>2. CASE pc' \in Busy
  <2>1. CASE Recovery
    <3>1. \E m \in Ids : Requeue(m)
      BY <1>2, <2>1 DEF Busy, Recovery, Boot, Format, FormatErase, FormatHeader, EraseSpare,
         ScanRecord, ScanEnd, Recovered
    <3> QED BY <3>1, OpBegins
  <2>2. CASE Compaction
    BY <2>2, OpCompaction
  <2>3. CASE Publisher \/ Worker
    BY <2>3, OpBegins DEF Publisher, Worker
  <2>4. CASE UNCHANGED vars
    BY <2>4 DEF vars, OpInv, UnknownOnFlash, Indexed
  <2>5. ~Append /\ ~Restart /\ ~PowerLoss /\ ~PollIdle
    BY <1>2 DEF Busy, Append, DoAppend, NoRoom, WriteRefused, Return, Abandon, Restart,
       PowerLoss, PollIdle, vars
  <2> QED BY <2>1, <2>2, <2>3, <2>4, <2>5, NoFaults DEF Next
<1> QED BY <1>1, <1>2

-----------------------------------------------------------------------------
(* What callers were told.                                                 *)

\* Only the append that ends an operation accepts a message, counts an attempt
\* or gives the worker a message.
LEMMA ToldNothing ==
  ASSUME CrashOnly, TypeOK, [Next]_vars, ~DoAppend
  PROVE  /\ UNCHANGED started /\ held' \in {held, NoHeld}
         /\ \A m \in Ids : fate'[m] = "accepted" => fate[m] = "accepted"
<1> USE DEF flash, ctx, history, budget
<1>1. ASSUME Abandon
      PROVE  /\ UNCHANGED started /\ held' \in {held, NoHeld}
             /\ \A m \in Ids : fate'[m] = "accepted" => fate[m] = "accepted"
  BY <1>1 DEF Abandon, TypeOK
<1>2. CASE UNCHANGED <<started, fate>> /\ held' \in {held, NoHeld}
  BY <1>2
<1>3. CASE Recovery \/ Restart
  <2>1. UNCHANGED <<started, fate>> /\ held' \in {held, NoHeld}
    BY <1>3 DEF Recovery, Boot, Format, FormatErase, FormatHeader, EraseSpare, ScanRecord,
       ScanEnd, Recovered, Requeue, Restart, ResetRam
  <2> QED BY <1>2, <2>1
<1>4. CASE Compaction
  <2>1. CASE CopyRefused
    BY <1>1, <2>1 DEF CopyRefused
  <2>2. CASE ~CopyRefused
    <3>1. UNCHANGED <<started, fate, held>>
      BY <1>4, <2>2 DEF Compaction, CompactErase, CompactHeader, CompactEnd, CompactFlip,
         CompactStale, CompactReclaim, SwitchRegion, CompactCopy, Horizon, vars
    <3> QED BY <1>2, <3>1
  <2> QED BY <2>1, <2>2
<1>5. CASE NoRoom \/ WriteRefused
  BY <1>1, <1>5 DEF NoRoom, WriteRefused
<1>6. CASE Publisher
  BY <1>6 DEF Publisher, Enqueue, Remove, TypeOK
<1>7. CASE Worker
  <2>1. ASSUME NEW m \in Ids, Claim(m) PROVE UNCHANGED <<started, fate, held>>
    BY <2>1 DEF Claim
  <2>2. CASE MarkDelivered
    BY <2>2 DEF MarkDelivered, TypeOK
  <2>3. CASE ScheduleRetry
    BY <2>3 DEF ScheduleRetry
  <2> QED BY <1>2, <1>7, <2>1, <2>2, <2>3 DEF Worker
<1>8. CASE PowerLoss \/ PollIdle \/ UNCHANGED vars
  <2>1. UNCHANGED <<started, fate>> /\ held' \in {held, NoHeld}
    BY <1>8 DEF PowerLoss, ResetRam, PollIdle, vars
  <2> QED BY <1>2, <2>1
<1> QED BY <1>3, <1>4, <1>5, <1>6, <1>7, <1>8, NoFaults DEF Next, Append

\* The record that is appended, what it makes of its message and what callers
\* know of it.
LEMMA OpEffect ==
  ASSUME TypeOK, HeldInv, CoreInv, OpInv, pc = "append",
         \A m \in Ids : OnFlash(m)' = After(op.rec, m, cursor),
         NEW i, i = op.rec.id
  PROVE  LET f == OnFlash(i)
             g == OnFlash(i)'
         IN /\ i \in Ids /\ \A m \in Ids \ {i} : OnFlash(m)' = OnFlash(m)
            /\ op.kind \in {"deliver", "remove"} =>
                 g = Absent /\ Closes(op.rec.st) /\ fate[i] = "closing"
            /\ op.kind \notin {"deliver", "remove"} =>
                 g # Absent /\ g.st = op.rec.st /\ g.att = op.rec.att /\ ~Closes(op.rec.st)
            /\ op.kind = "enqueue" =>
                 f = Absent /\ op.rec.st = "PENDING" /\ op.rec.att = 0 /\ started[i] = 0
            /\ op.kind # "enqueue" => f # Absent /\ f.att \in Nat
            /\ op.kind = "claim" =>
                 /\ op.rec.st = "IN_FLIGHT" /\ op.rec.att = f.att + 1 /\ f.st = "PENDING"
                 /\ op.body = i
            /\ op.kind = "retry" =>
                 op.rec.st = "PENDING" /\ op.rec.att = f.att /\ ShouldRetry(f.att)
            /\ op.kind = "dead" => op.rec.st = "DEAD_LETTER" /\ op.rec.att = f.att
            /\ op.kind = "requeue" => op.rec.st = "PENDING" /\ op.rec.att = f.att
            /\ op.kind \in {"enqueue", "claim", "retry", "dead", "requeue", "deliver", "remove"}
<1> DEFINE f == OnFlash(i)
           g == OnFlash(i)'
<1>1. /\ i \in Ids /\ op.kind # "none" /\ op.rec.st \in States
      /\ op.kind \in Kinds
  BY OpRecord DEF TypeOK
<1>2. f = index[i] /\ index[i].att \in Nat /\ index[i] \in Entries
  BY <1>1, IndexFound DEF Settled, TypeOK, Entries
<1>3. g = EntryOf(op.rec.st, op.rec.att, IF op.rec.t = "MESSAGE" THEN cursor ELSE f.off)
  BY <1>1 DEF After
<1>4. \A m \in Ids \ {i} : OnFlash(m)' = OnFlash(m)
  BY DEF After
<1>5. op.kind \in {"enqueue", "claim", "retry", "dead", "requeue", "deliver", "remove"}
  BY <1>1 DEF OpInv, Kinds
<1>6. ~Closes(op.rec.st) =>
        g # Absent /\ g.st = op.rec.st /\ g.att = op.rec.att
  BY <1>1, <1>3 DEF EntryOf, Absent, States
<1>7. CASE op.kind \in {"deliver", "remove"}
  <2>1. Closes(op.rec.st) /\ fate[i] = "closing" /\ index[i].st \in {"IN_FLIGHT", "PENDING"}
    BY <1>1, <1>7 DEF OpInv, Update, Closes
  <2>2. g = Absent
    BY <1>3, <2>1 DEF EntryOf
  <2>3. f # Absent
    BY <1>2, <2>1 DEF Absent
  <2> QED BY <1>1, <1>2, <1>4, <1>7, <2>1, <2>2, <2>3
<1>8. CASE op.kind = "enqueue"
  <2>1. op.rec = Message(i, "PENDING", 0, i) /\ index[i] = Absent /\ started[i] = 0
    BY <1>8 DEF OpInv
  <2>2. op.rec.st = "PENDING" /\ op.rec.att = 0
    BY <2>1 DEF Message
  <2> QED BY <1>1, <1>2, <1>4, <1>6, <1>8, <2>1, <2>2 DEF Closes
<1>9. CASE op.kind \in {"claim", "retry", "dead", "requeue"}
  <2>1. /\ index[i].st \in {"PENDING", "IN_FLIGHT"}
        /\ op.kind = "claim" => /\ op.rec = Update(i, "IN_FLIGHT", index[i].att + 1)
                                /\ index[i].st = "PENDING" /\ op.body = i
        /\ op.kind = "retry" => op.rec = Update(i, "PENDING", index[i].att)
                                /\ ShouldRetry(index[i].att)
        /\ op.kind = "dead" => op.rec = Update(i, "DEAD_LETTER", index[i].att)
        /\ op.kind = "requeue" => op.rec = Update(i, "PENDING", index[i].att)
    BY <1>9 DEF OpInv
  <2>2. \A st, att : op.rec = Update(i, st, att) => op.rec.st = st /\ op.rec.att = att
    BY DEF Update
  <2>3. /\ op.kind = "claim" => op.rec.st = "IN_FLIGHT" /\ op.rec.att = index[i].att + 1
        /\ op.kind = "retry" => op.rec.st = "PENDING" /\ op.rec.att = index[i].att
        /\ op.kind = "dead" => op.rec.st = "DEAD_LETTER" /\ op.rec.att = index[i].att
        /\ op.kind = "requeue" => op.rec.st = "PENDING" /\ op.rec.att = index[i].att
    BY <2>1, <2>2, Zenon
  <2>4. ~Closes(op.rec.st) /\ f # Absent
    BY <1>2, <1>9, <2>1, <2>3 DEF Closes, Absent
  <2> HIDE DEF f, g
  <2> QED BY <1>1, <1>2, <1>4, <1>6, <1>9, <2>1, <2>3, <2>4 DEF f, g
<1> QED BY <1>5, <1>7, <1>8, <1>9

\* What callers were told stays what a recovery would find.
LEMMA HistoryNext ==
  ASSUME CrashOnly, TypeOK, TypeOK', FreshInv, HeldInv, CoreInv, CoreInv', RoomInv, OpInv,
         HistoryInv, [Next]_vars,
         \/ SameFound
         \/ /\ DoAppend \/ PowerLoss
            /\ pc = "append" /\ \A m \in Ids : OnFlash(m)' = After(op.rec, m, cursor)
  PROVE  HistoryInv'
<1> PICK i : i = op.rec.id
  OBVIOUS
<1>0. /\ \A m \in Ids : fate'[m] = "fresh" => fate[m] = "fresh"
      /\ FlashInv /\ FlashInv'
      /\ \A m \in Ids : started[m] \in Nat
  BY NeverFreshAgain DEF CoreInv, TypeOK
<1>1. CASE SameFound /\ ~DoAppend
  BY <1>0, <1>1, ToldNothing, HistorySame
<1>2. CASE pc = "append" /\ \A m \in Ids : OnFlash(m)' = After(op.rec, m, cursor)
  <2>1. CASE DoAppend
    <3>1. /\ fate' = CASE op.kind = "enqueue" -> [fate EXCEPT ![i] = "accepted"]
                       [] Closes(op.rec.st)   -> [fate EXCEPT ![i] = "closed"]
                       [] OTHER -> fate
          /\ started' = IF op.kind = "claim" THEN [started EXCEPT ![i] = @ + 1] ELSE started
          /\ held' = CASE op.kind = "claim" -> [id |-> i, body |-> op.body]
                       [] Reports(op.kind) -> NoHeld
                       [] OTHER -> held
      BY <2>1 DEF DoAppend
    <3>2. Durable'
      <4> SUFFICES ASSUME NEW m \in Ids, fate'[m] = "accepted" PROVE OnFlash(m)' # Absent
        BY DEF Durable
      <4>1. CASE m # i
        <5>1. fate[m] = "accepted" /\ OnFlash(m)' = OnFlash(m)
          BY <1>2, <3>1, <4>1, OpEffect DEF TypeOK
        <5> QED BY <5>1 DEF HistoryInv, Durable
      <4>2. CASE m = i
        <5>1. op.kind \notin {"deliver", "remove"}
          BY <1>2, <3>1, <4>2, OpEffect DEF TypeOK
        <5> QED BY <1>2, <4>2, <5>1, OpEffect
      <4> QED BY <4>1, <4>2
    <3>3. AttemptsDurable'
      <4> SUFFICES ASSUME NEW m \in Ids, OnFlash(m)' # Absent PROVE started'[m] <= OnFlash(m)'.att
        BY DEF AttemptsDurable
      <4>1. CASE m # i
        <5>1. started'[m] = started[m] /\ OnFlash(m)' = OnFlash(m)
          BY <1>2, <3>1, <4>1, OpEffect DEF TypeOK
        <5> QED BY <4>1, <5>1 DEF HistoryInv, AttemptsDurable
      <4>2. CASE m = i /\ op.kind = "claim"
        <5>1. started'[m] = started[m] + 1
          BY <3>1, <4>2 DEF TypeOK
        <5>2. /\ OnFlash(m)'.att = OnFlash(m).att + 1 /\ OnFlash(m) # Absent
              /\ OnFlash(m).att \in Nat
          BY <1>2, <4>2, OpEffect
        <5>3. started[m] <= OnFlash(m).att
          BY <5>2 DEF HistoryInv, AttemptsDurable
        <5> QED BY <1>0, <5>1, <5>2, <5>3
      <4>3. CASE m = i /\ op.kind = "enqueue"
        BY <1>2, <3>1, <4>3, OpEffect
      <4>4. CASE m = i /\ op.kind \notin {"enqueue", "claim"}
        <5>1. OnFlash(m)'.att = OnFlash(m).att /\ OnFlash(m) # Absent /\ started'[m] = started[m]
          BY <1>2, <3>1, <4>4, OpEffect
        <5> QED BY <5>1 DEF HistoryInv, AttemptsDurable
      <4> QED BY <4>1, <4>2, <4>3, <4>4
    <3>4. PayloadIntact'
      <4>1. op.kind = "claim" => op.body = i
        BY <1>2, OpEffect
      <4> QED BY <3>1, <4>1 DEF HistoryInv, PayloadIntact, NoHeld
    <3>5. \A m \in Ids : fate'[m] = "fresh" => started'[m] = 0
      <4> SUFFICES ASSUME NEW m \in Ids, fate'[m] = "fresh" PROVE started'[m] = 0
        OBVIOUS
      <4>1. fate[m] = "fresh" /\ started[m] = 0
        BY <1>0 DEF HistoryInv
      <4>2. op.kind = "claim" => m # i
        <5> SUFFICES ASSUME op.kind = "claim", m = i PROVE FALSE
          OBVIOUS
        <5>1. op.rec.id \in Ids /\ fate[op.rec.id] = "fresh"
          BY <4>1
        <5> QED BY <5>1 DEF FreshInv, Unknown
      <4> QED BY <3>1, <4>1, <4>2 DEF TypeOK
    <3> QED BY <3>2, <3>3, <3>4, <3>5 DEF HistoryInv
  <2>2. CASE ~DoAppend
    <3>1. /\ UNCHANGED started /\ held' \in {held, NoHeld}
          /\ \A m \in Ids : fate'[m] = "accepted" => fate[m] = "accepted"
      BY <2>2, ToldNothing
    <3>2. Durable'
      <4> SUFFICES ASSUME NEW m \in Ids, fate[m] = "accepted" PROVE OnFlash(m)' # Absent
        BY <3>1 DEF Durable
      <4>1. OnFlash(m) # Absent
        BY DEF HistoryInv, Durable
      <4>2. m = i => op.kind \notin {"deliver", "remove"}
        BY <1>2, OpEffect
      <4> QED BY <1>2, <4>1, <4>2, OpEffect
    <3>3. AttemptsDurable'
      <4> SUFFICES ASSUME NEW m \in Ids, OnFlash(m)' # Absent PROVE started[m] <= OnFlash(m)'.att
        BY <3>1 DEF AttemptsDurable
      <4>1. CASE m # i
        BY <1>2, <4>1, OpEffect DEF HistoryInv, AttemptsDurable
      <4>2. CASE m = i /\ op.kind = "enqueue"
        BY <1>2, <4>2, OpEffect
      <4>3. CASE m = i /\ op.kind # "enqueue"
        <5>1. /\ OnFlash(m) # Absent /\ OnFlash(m).att \in Nat
              /\ OnFlash(m)'.att = OnFlash(m).att \/ OnFlash(m)'.att = OnFlash(m).att + 1
          BY <1>2, <4>3, OpEffect
        <5>2. started[m] <= OnFlash(m).att
          BY <5>1 DEF HistoryInv, AttemptsDurable
        <5> QED BY <1>0, <5>1, <5>2
      <4> QED BY <4>1, <4>2, <4>3
    <3>4. PayloadIntact'
      BY <3>1 DEF HistoryInv, PayloadIntact, NoHeld
    <3> QED BY <1>0, <3>1, <3>2, <3>3, <3>4 DEF HistoryInv
  <2> QED BY <2>1, <2>2
<1>3. CASE SameFound /\ DoAppend
  <2>1. pc = "append" /\ \A m \in Ids : OnFlash(m)' = After(op.rec, m, cursor)
    BY <1>3, CoreDoAppend DEF DoAppend
  <2> QED BY <1>2, <2>1
<1> QED BY <1>1, <1>2, <1>3

\* A recovery is entered by a crash only, and every crash is counted.
LEMMA RecoveringStep ==
  ASSUME CrashOnly, TypeOK, HeldInv, [Next]_vars
  PROVE  \/ UNCHANGED crashes /\ (Recovering' => Recovering)
         \/ crashes' = crashes + 1
<1> USE DEF flash, ctx, history, budget
<1>1. ASSUME NEW kind, NEW rec, NEW body, Begin(kind, rec, body), pc = "idle", kind # "requeue"
      PROVE  ~Recovering'
  BY <1>1 DEF Begin, Recovering, Formatting
<1>2. ASSUME Abandon PROVE Recovering' => Recovering
  BY <1>2 DEF Abandon, Recovering, Formatting, NoOp
<1>3. CASE Recovery \/ Restart
  <2>1. Recovering
    BY <1>3 DEF Recovery, Boot, Format, FormatErase, FormatHeader, EraseSpare, ScanRecord,
       ScanEnd, Recovered, Requeue, Restart, Recovering, Formatting
  <2>2. UNCHANGED crashes
    BY <1>3 DEF Recovery, Boot, Format, FormatErase, FormatHeader, EraseSpare, ScanRecord,
       ScanEnd, Recovered, Requeue, Restart
  <2> QED BY <2>1, <2>2
<1>4. CASE Compaction
  <2>1. CASE CopyRefused
    BY <1>2, <2>1 DEF CopyRefused
  <2>2. CASE Horizon
    BY <2>2 DEF Horizon, vars, Recovering
  <2>3. CASE ~CopyRefused /\ ~Horizon
    <3>1. /\ UNCHANGED <<op, crashes>>
          /\ pc' \in {"c_hdr", "c_copy", "c_flip", "c_stale", "c_reclaim", "append"}
      BY <1>4, <2>3 DEF Compaction, CompactErase, CompactHeader, CompactEnd, CompactFlip,
         CompactStale, CompactReclaim, SwitchRegion, CompactCopy
    <3> QED BY <3>1 DEF Recovering, Formatting
  <2> QED BY <2>1, <2>2, <2>3
<1>5. CASE DoAppend
  BY <1>5 DEF DoAppend, Return, NoOp, Recovering, Formatting
<1>6. CASE NoRoom \/ WriteRefused
  BY <1>2, <1>6 DEF NoRoom, WriteRefused
<1>7. CASE Publisher
  BY <1>1, <1>7 DEF Publisher, Enqueue, Remove
<1>8. CASE Worker
  <2>1. ASSUME NEW m \in Ids, Claim(m) PROVE ~Recovering' /\ UNCHANGED crashes
    BY <1>1, <2>1 DEF Claim
  <2>2. CASE MarkDelivered
    BY <1>1, <2>2 DEF MarkDelivered
  <2>3. CASE ScheduleRetry
    BY <1>1, <2>3 DEF ScheduleRetry
  <2> QED BY <1>8, <2>1, <2>2, <2>3 DEF Worker
<1>9. CASE PowerLoss
  BY <1>9 DEF PowerLoss
<1>10. CASE PollIdle \/ UNCHANGED vars
  BY <1>10 DEF PollIdle, vars, Recovering
<1> QED BY <1>3, <1>4, <1>5, <1>6, <1>7, <1>8, <1>9, <1>10, NoFaults DEF Next, Append

\* Every attempt a claim may take is within the limit, or a crash is counted for it.
LEMMA TriesNext ==
  ASSUME CrashOnly, TypeOK, TypeOK', HeldInv, CoreInv, CoreInv', RoomInv, OpInv, HistoryInv,
         TriesInv, [Next]_vars,
         \/ SameFound
         \/ /\ DoAppend \/ PowerLoss
            /\ pc = "append" /\ \A m \in Ids : OnFlash(m)' = After(op.rec, m, cursor)
  PROVE  TriesInv'
<1> PICK i : i = op.rec.id
  OBVIOUS
<1>0. /\ FlashInv /\ FlashInv'
      /\ \/ UNCHANGED crashes /\ (Recovering' => Recovering)
         \/ crashes' = crashes + 1
  BY RecoveringStep DEF CoreInv
<1>1. CASE SameFound /\ ~DoAppend
  BY <1>0, <1>1, ToldNothing, TriesSame
<1>2. CASE /\ DoAppend \/ PowerLoss
           /\ pc = "append" /\ \A m \in Ids : OnFlash(m)' = After(op.rec, m, cursor)
  <2> SUFFICES ASSUME MaxAttempts # 0, NEW m \in Ids
               PROVE  /\ started'[m] <= MaxAttempts + crashes'
                      /\ OnFlash(m)' # Absent =>
                           OnFlash(m)'.att
                             + (IF Recovering' \/ OnFlash(m)'.st = "PENDING" THEN 1 ELSE 0)
                           <= MaxAttempts + crashes'
    BY DEF TriesInv
  <2> DEFINE f == OnFlash(m)
             g == OnFlash(m)'
             up(e, R) == IF R \/ e.st = "PENDING" THEN 1 ELSE 0
  <2>1. /\ MaxAttempts \in Nat /\ MaxAttempts > 0 /\ crashes \in Nat /\ crashes' \in Nat
        /\ started[m] \in Nat /\ started[m] <= MaxAttempts + crashes
        /\ f # Absent => /\ f.att \in Nat /\ started[m] <= f.att
                         /\ f.att + up(f, Recovering) <= MaxAttempts + crashes
    <3>1. f # Absent => f.att \in Nat
      BY <1>0, FoundShape
    <3> QED BY <3>1, BoundAssumption DEF TypeOK, TriesInv, HistoryInv, AttemptsDurable
  <2>2. CASE m # i
    <3>1. g = f
      BY <1>2, <2>2, OpEffect
    <3>2. started'[m] = started[m]
      BY <1>2, <2>2 DEF DoAppend, PowerLoss, history, TypeOK
    <3> HIDE DEF f, g
    <3>3. CASE UNCHANGED crashes /\ (Recovering' => Recovering)
      BY <2>1, <3>1, <3>2, <3>3 DEF g
    <3>4. CASE crashes' = crashes + 1
      <4>1. f # Absent => f.att <= MaxAttempts + crashes
        BY <2>1
      <4> QED BY <2>1, <3>1, <3>2, <3>4, <4>1 DEF g
    <3> QED BY <1>0, <3>3, <3>4
  <2>3. CASE m = i
    <3>1. /\ op.kind \in {"enqueue", "claim", "retry", "dead", "requeue", "deliver", "remove"}
          /\ op.kind \in {"deliver", "remove"} => g = Absent
          /\ op.kind \notin {"deliver", "remove"} =>
               g # Absent /\ g.st = op.rec.st /\ g.att = op.rec.att
          /\ op.kind = "enqueue" => op.rec.st = "PENDING" /\ op.rec.att = 0 /\ started[m] = 0
          /\ op.kind # "enqueue" => f # Absent
          /\ op.kind = "claim" =>
               op.rec.st = "IN_FLIGHT" /\ op.rec.att = f.att + 1 /\ f.st = "PENDING"
          /\ op.kind = "retry" => op.rec.st = "PENDING" /\ op.rec.att = f.att
                                  /\ ShouldRetry(f.att)
          /\ op.kind = "dead" => op.rec.st = "DEAD_LETTER" /\ op.rec.att = f.att
          /\ op.kind = "requeue" => op.rec.st = "PENDING" /\ op.rec.att = f.att
      BY <1>2, <2>3, OpEffect
    <3>2. CASE PowerLoss
      <4>1. crashes' = crashes + 1 /\ started'[m] = started[m]
        BY <3>2 DEF PowerLoss, history
      <4>2. g # Absent => g.att \in Nat /\ g.att <= MaxAttempts + crashes
        <5> HIDE DEF f, g
        <5>1. CASE op.kind = "enqueue"
          BY <2>1, <3>1, <5>1
        <5>2. CASE op.kind = "claim"
          BY <2>1, <3>1, <5>2
        <5>3. CASE op.kind \in {"retry", "dead", "requeue"}
          <6>1. g.att = f.att /\ f # Absent
            BY <3>1, <5>3
          <6> QED BY <2>1, <6>1
        <5> QED BY <3>1, <5>1, <5>2, <5>3
      <4> HIDE DEF g
      <4> QED BY <2>1, <4>1, <4>2 DEF g
    <3>3. CASE DoAppend
      <4>1. /\ crashes' = crashes
            /\ started'[m] = IF op.kind = "claim" THEN started[m] + 1 ELSE started[m]
            /\ Recovering' <=> op.kind = "requeue"
            /\ op.kind = "requeue" => Recovering
        BY <2>3, <3>3 DEF DoAppend, budget, TypeOK, Return, Recovering, Formatting, NoOp
      <4>2. /\ started'[m] <= MaxAttempts + crashes
            /\ g # Absent => g.att + up(g, Recovering') <= MaxAttempts + crashes
        <5> HIDE DEF f, g
        <5>1. CASE op.kind = "enqueue"
          BY <2>1, <3>1, <4>1, <5>1
        <5>2. CASE op.kind = "claim"
          BY <2>1, <3>1, <4>1, <5>2
        <5>3. CASE op.kind = "retry"
          <6>1. f.att < MaxAttempts /\ g.att = f.att /\ g.st = "PENDING" /\ f.att \in Nat
            BY <2>1, <3>1, <5>3 DEF ShouldRetry
          <6> QED BY <2>1, <4>1, <5>3, <6>1
        <5>4. CASE op.kind = "dead"
          <6>1. /\ f.att \in Nat /\ f.att <= MaxAttempts + crashes
                /\ g.att = f.att /\ g.st = "DEAD_LETTER"
            BY <2>1, <3>1, <5>4
          <6>2. ~Recovering' /\ started'[m] = started[m]
            BY <4>1, <5>4
          <6>3. up(g, Recovering') = 0
            BY <6>1, <6>2
          <6> HIDE DEF up
          <6> QED BY <2>1, <6>1, <6>2, <6>3
        <5>5. CASE op.kind = "requeue"
          BY <2>1, <3>1, <4>1, <5>5
        <5>6. CASE op.kind \in {"deliver", "remove"}
          BY <2>1, <3>1, <4>1, <5>6
        <5> QED BY <3>1, <5>1, <5>2, <5>3, <5>4, <5>5, <5>6
      <4> HIDE DEF g
      <4> QED BY <4>1, <4>2 DEF g
    <3> QED BY <1>2, <3>2, <3>3
  <2> QED BY <2>2, <2>3
<1>3. CASE SameFound /\ DoAppend
  <2>1. pc = "append" /\ \A m \in Ids : OnFlash(m)' = After(op.rec, m, cursor)
    BY <1>3, CoreDoAppend DEF DoAppend
  <2> QED BY <1>2, <1>3, <2>1
<1> QED BY <1>1, <1>2, <1>3

-----------------------------------------------------------------------------
(* The invariant is inductive; the theorems.                               *)

\* A blank partition.
LEMMA DurableInit == Init => DurableInv
<1> SUFFICES ASSUME Init PROVE DurableInv
  OBVIOUS
<1>1. ActiveRegions = {} /\ \A r \in Regions, x \in Offsets : cell[r][x] = Blank
  BY DEF Init, ActiveRegions, Empty
<1>2. \A m \in Ids : OnFlash(m) = Absent
  BY <1>1 DEF OnFlash
<1>3. FlashInv
  BY <1>1 DEF FlashInv
<1>4. RegionInv /\ IndexInv /\ CopyInv /\ RoomInv
  BY <1>1 DEF Init, RegionInv, IndexInv, CopyInv, RoomInv, Formatting, Settled, Copying, Switching
<1>5. LimitInv
  <2>1. Indexed = {}
    BY DEF Init, Indexed, Absent
  <2> QED BY <2>1, FS_EmptySet, BoundAssumption DEF LimitInv
<1>6. OpInv
  BY DEF Init, OpInv, NoOp
<1>7. HistoryInv /\ TriesInv
  <2>1. MaxAttempts \in Nat /\ crashes = 0 /\ \A m \in Ids : started[m] = 0 /\ fate[m] = "fresh"
    BY BoundAssumption DEF Init
  <2>2. held = NoHeld
    BY DEF Init
  <2> QED BY <1>2, <2>1, <2>2
          DEF HistoryInv, TriesInv, Durable, AttemptsDurable, PayloadIntact, NoHeld
<1> QED BY <1>3, <1>4, <1>5, <1>6, <1>7 DEF DurableInv, CoreInv

\* The conjuncts together are inductive.
LEMMA DurableNext ==
  ASSUME CrashOnly
  PROVE  /\ TypeOK /\ GenInv /\ FreshInv /\ HeldInv /\ DurableInv
         /\ [Next]_vars
         => /\ TypeOK' /\ GenInv' /\ FreshInv' /\ HeldInv' /\ DurableInv'
<1> SUFFICES ASSUME TypeOK, GenInv, FreshInv, HeldInv, DurableInv, [Next]_vars
             PROVE  TypeOK' /\ GenInv' /\ FreshInv' /\ HeldInv' /\ DurableInv'
  OBVIOUS
<1>1. TypeOK' /\ GenInv' /\ FreshInv' /\ HeldInv'
  BY TypeNext, GenNext, FreshNext, HeldNext
<1>2. CoreInv /\ RoomInv /\ OpInv /\ HistoryInv /\ TriesInv
  BY DEF DurableInv
<1>3. /\ CoreInv'
      /\ \/ SameFound
         \/ /\ DoAppend \/ PowerLoss
            /\ pc = "append" /\ \A m \in Ids : OnFlash(m)' = After(op.rec, m, cursor)
  BY <1>1, <1>2, CoreNext
<1>4. RoomInv'
  BY <1>1, <1>2, RoomNext
<1>5. OpInv'
  BY <1>1, <1>2, OpNext
<1>6. HistoryInv'
  BY <1>1, <1>2, <1>3, HistoryNext
<1>7. TriesInv'
  BY <1>1, <1>2, <1>3, TriesNext
<1> QED BY <1>1, <1>3, <1>4, <1>5, <1>6, <1>7 DEF DurableInv

\* What every reachable state satisfies: flash, RAM index, operation in
\* progress and what callers were told agree, at every step of every operation
\* and across every power loss.
THEOREM FlashInvariant ==
  ASSUME CrashOnly
  PROVE  Spec => [](TypeOK /\ GenInv /\ FreshInv /\ HeldInv /\ DurableInv)
<1>0. Init => GenInv /\ FreshInv /\ HeldInv
  BY IdsAssumption DEF Init, GenInv, NewestIsUnique, ActiveRegions, Empty, Regions, FreshInv,
     Unknown, UnknownOnFlash, HeldInv, Busy, NoOp, Blank, Unit, Absent
<1>1. Init => TypeOK /\ GenInv /\ FreshInv /\ HeldInv /\ DurableInv
  BY TypeInit, DurableInit, <1>0
<1>2. /\ TypeOK /\ GenInv /\ FreshInv /\ HeldInv /\ DurableInv
      /\ [Next]_vars
      => (TypeOK /\ GenInv /\ FreshInv /\ HeldInv /\ DurableInv)'
  BY DurableNext
<1> QED BY <1>1, <1>2, PTL DEF Spec

\* "Messages survive a reboot": a message whose publish returned ESP_OK is
\* found by a recovery at any moment until it is delivered or dropped, however
\* often and wherever the power is lost.
THEOREM AcceptedSurvives == ASSUME CrashOnly PROVE Spec => []Durable
<1>1. DurableInv => Durable
  BY DEF DurableInv, HistoryInv
<1> QED BY <1>1, FlashInvariant, PTL

\* Between operations the index in RAM is what scan_region would rebuild.
THEOREM IndexIsTheLog == ASSUME CrashOnly PROVE Spec => []IndexMatchesLog
<1>1. TypeOK /\ DurableInv => IndexMatchesLog
  <2> SUFFICES ASSUME TypeOK, DurableInv, pc = "idle"
               PROVE  active = Chosen /\ \A m \in Ids : index[m] = OnFlash(m)
    BY DEF IndexMatchesLog
  <2> QED BY IndexFound DEF DurableInv, CoreInv, RegionInv, Settled
<1> QED BY <1>1, FlashInvariant, PTL

\* op_claim_next hands over the bytes that were published under that id, though
\* compaction moves them and copies them without checking them.
THEOREM BytesAreTheirs == ASSUME CrashOnly PROVE Spec => []PayloadIntact
<1>1. DurableInv => PayloadIntact
  BY DEF DurableInv, HistoryInv
<1> QED BY <1>1, FlashInvariant, PTL

\* Every operation and every recovery leaves one ACTIVE region and an erased
\* spare for the next compaction.
THEOREM SpareIsErased == ASSUME CrashOnly PROVE Spec => []OneActiveRegion
<1>1. TypeOK /\ DurableInv => OneActiveRegion
  <2> SUFFICES ASSUME TypeOK, DurableInv, pc = "idle"
               PROVE  /\ hdr[active].status = "ACTIVE" /\ hdr[1 - active].status = "EMPTY"
                      /\ \A x \in Offsets : cell[1 - active][x] = Blank
    BY DEF OneActiveRegion
  <2>1. target \in Regions /\ target = 1 - active
    BY TwoRegions
  <2>2. hdr[active].status = "ACTIVE" /\ hdr[target].status = "EMPTY"
    BY DEF DurableInv, CoreInv, RegionInv, Settled
  <2> QED BY <2>1, <2>2 DEF DurableInv, CoreInv, FlashInv
<1> QED BY <1>1, FlashInvariant, PTL

\* A claim's attempt is on flash before the worker starts it, so that a crash
\* in the middle of a delivery cannot under-count attempts.
THEOREM AttemptsOnFlash == ASSUME CrashOnly PROVE Spec => []AttemptsDurable
<1>1. DurableInv => AttemptsDurable
  BY DEF DurableInv, HistoryInv
<1> QED BY <1>1, FlashInvariant, PTL

\* retry_max_attempts is exceeded by a crash at most, and by one for each.
THEOREM AttemptsStayBounded == ASSUME CrashOnly PROVE Spec => []AttemptsBounded
<1>1. DurableInv => AttemptsBounded
  BY DEF DurableInv, TriesInv, AttemptsBounded
<1> QED BY <1>1, FlashInvariant, PTL

\* The copy loop of compact_locked, which checks no bound, never needs one: the
\* reserve kept before every append leaves room for the END record, and a
\* message copied takes no more than the record it is copied from.
THEOREM CopiesFit == ASSUME CrashOnly PROVE Spec => []CompactionFits
<1>1. TypeOK /\ DurableInv => CompactionFits
  BY Copyable DEF DurableInv, CoreInv, CompactionFits
<1> QED BY <1>1, FlashInvariant, PTL

-----------------------------------------------------------------------------
(* The storage contract.                                                   *)

Shut == {"closing", "closed"}

\* The durable state of the contract, in a state and in the next one.
LEMMA StateIs ==
  \A m \in Ids : DurableState(m) =
    IF OnFlash(m) # Absent THEN [st |-> OnFlash(m).st, att |-> OnFlash(m).att]
    ELSE [st |-> IF fate[m] \in Shut THEN "gone" ELSE "absent", att |-> 0]
BY DEF DurableState, Shut
LEMMA StateIsNext ==
  \A m \in Ids : DurableState(m)' =
    IF OnFlash(m)' # Absent THEN [st |-> OnFlash(m)'.st, att |-> OnFlash(m)'.att]
    ELSE [st |-> IF fate'[m] \in Shut THEN "gone" ELSE "absent", att |-> 0]
<1>1. (\A m \in Ids : DurableState(m) =
         IF OnFlash(m) # Absent THEN [st |-> OnFlash(m).st, att |-> OnFlash(m).att]
         ELSE [st |-> IF fate[m] \in Shut THEN "gone" ELSE "absent", att |-> 0])'
  BY StateIs, PTL
<1> QED BY <1>1 DEF Shut

\* A message of which a recovery would find the same is in the same state.
LEMMA StateStays ==
  ASSUME TypeOK, TypeOK', FlashInv, FlashInv', NEW m \in Ids,
         SameState(OnFlash(m)', OnFlash(m)),
         (fate'[m] \in Shut <=> fate[m] \in Shut) \/ OnFlash(m) # Absent
  PROVE  DurableState(m)' = DurableState(m)
<1>1. OnFlash(m)' = Absent <=> OnFlash(m) = Absent
  BY FoundShape, FoundShapeNext, AbsentState DEF SameState
<1> DEFINE f == OnFlash(m)
           g == OnFlash(m)'
           d == DurableState(m)
           e == DurableState(m)'
<1>2. /\ d = IF f # Absent THEN [st |-> f.st, att |-> f.att]
              ELSE [st |-> IF fate[m] \in Shut THEN "gone" ELSE "absent", att |-> 0]
      /\ e = IF g # Absent THEN [st |-> g.st, att |-> g.att]
              ELSE [st |-> IF fate'[m] \in Shut THEN "gone" ELSE "absent", att |-> 0]
      /\ g.st = f.st /\ g.att = f.att /\ (g = Absent <=> f = Absent)
      /\ (fate'[m] \in Shut <=> fate[m] \in Shut) \/ f # Absent
  BY <1>1, StateIs, StateIsNext DEF SameState
<1>3. e = d
  <2> HIDE DEF d, e, f, g
  <2>1. CASE f # Absent
    BY <1>2, <2>1
  <2>2. CASE f = Absent /\ (fate'[m] \in Shut <=> fate[m] \in Shut)
    BY <1>2, <2>2
  <2> QED BY <1>2, <2>1, <2>2
<1> QED BY <1>3

\* Before the append that ends an operation only a message still on flash is
\* declared to be closing.
LEMMA ClosingIsStored ==
  ASSUME CrashOnly, TypeOK, CoreInv, OpInv, [Next]_vars, ~DoAppend, NEW m \in Ids
  PROVE  (fate'[m] \in Shut <=> fate[m] \in Shut) \/ OnFlash(m) # Absent
<1> USE DEF flash, ctx, history, budget
<1>1. ASSUME Abandon
      PROVE  fate'[m] \in Shut <=> fate[m] \in Shut
  <2>1. CASE op.kind = "enqueue"
    <3>1. fate[op.rec.id] = "offered"
      BY <2>1 DEF OpInv
    <3>2. fate' = [fate EXCEPT ![op.rec.id] = "refused"]
      BY <1>1, <2>1 DEF Abandon
    <3> QED BY <3>1, <3>2 DEF TypeOK, Shut
  <2>2. CASE op.kind # "enqueue"
    BY <1>1, <2>2 DEF Abandon
  <2> QED BY <2>1, <2>2
<1>2. CASE UNCHANGED fate
  BY <1>2
<1>3. CASE Recovery \/ Restart
  <2>1. UNCHANGED fate
    BY <1>3 DEF Recovery, Boot, Format, FormatErase, FormatHeader, EraseSpare, ScanRecord,
       ScanEnd, Recovered, Requeue, Restart, ResetRam
  <2> QED BY <2>1
<1>4. CASE Compaction
  <2>1. CASE CopyRefused
    BY <1>1, <2>1 DEF CopyRefused
  <2>2. CASE ~CopyRefused
    <3>1. UNCHANGED fate
      BY <1>4, <2>2 DEF Compaction, CompactErase, CompactHeader, CompactEnd, CompactFlip,
         CompactStale, CompactReclaim, SwitchRegion, CompactCopy, Horizon, vars
    <3> QED BY <3>1
  <2> QED BY <2>1, <2>2
<1>5. CASE NoRoom \/ WriteRefused
  BY <1>1, <1>5 DEF NoRoom, WriteRefused
<1>6. ASSUME NEW n \in Ids, Enqueue(n)
      PROVE  fate'[m] \in Shut <=> fate[m] \in Shut
  BY <1>6 DEF Enqueue, TypeOK, Shut
<1>7. ASSUME NEW n \in Ids, pc = "idle", n \in Indexed, fate' = [fate EXCEPT ![n] = "closing"]
      PROVE  fate'[m] = fate[m] \/ OnFlash(m) # Absent
  <2>1. OnFlash(n) # Absent
    BY <1>7, IdleKnows DEF Indexed
  <2> QED BY <1>7, <2>1 DEF TypeOK
<1>8. ASSUME NEW n \in Ids, Remove(n)
      PROVE  fate'[m] = fate[m] \/ OnFlash(m) # Absent
  <2>1. n \in Indexed
    BY <1>8 DEF Remove, Indexed
  <2> QED BY <1>7, <1>8, <2>1 DEF Remove
<1>9. CASE MarkDelivered
  BY <1>7, <1>9 DEF MarkDelivered, Indexed
<1>10. CASE ScheduleRetry \/ \E n \in Ids : Claim(n)
  BY <1>10 DEF ScheduleRetry, Claim
<1>11. CASE PowerLoss \/ PollIdle \/ UNCHANGED vars
  BY <1>11 DEF PowerLoss, PollIdle, vars
<1> QED BY <1>3, <1>4, <1>5, <1>6, <1>8, <1>9, <1>10, <1>11, NoFaults
        DEF Next, Append, Publisher, Worker

\* What is stored, when an append is due, is what is indexed.
LEMMA StoredIsIndexed ==
  ASSUME TypeOK, CoreInv, pc = "append"
  PROVE  Contract!Stored = Indexed
<1>1. \A m \in Ids : DurableStates[m] = DurableState(m)
  BY DEF DurableStates
<1>2. \A m \in Ids : index[m] = OnFlash(m)
  BY IndexFound DEF Settled
<1>3. ASSUME NEW m \in Ids PROVE m \in Contract!Stored <=> m \in Indexed
  <2>1. CASE OnFlash(m) = Absent
    <3>1. DurableState(m).st \in {"absent", "gone"}
      BY <2>1, StateIs
    <3>2. index[m].st = "NONE"
      BY <1>2, <2>1, AbsentState
    <3> QED BY <1>1, <3>1, <3>2 DEF Contract!Stored, Indexed
  <2>2. CASE OnFlash(m) # Absent
    <3>1. OnFlash(m).st \in LiveStates
      BY <2>2, FoundShape DEF CoreInv
    <3>2. DurableState(m).st = OnFlash(m).st
      BY <2>2, StateIs
    <3> QED BY <1>1, <1>2, <3>1, <3>2 DEF Contract!Stored, Indexed, LiveStates
  <2> QED BY <2>1, <2>2
<1> QED BY <1>3 DEF Contract!Stored, Indexed

\* Once the record of an operation is on flash its message moves, by an
\* operation of the contract.
LEMMA ContractMoves ==
  ASSUME TypeOK, HeldInv, CoreInv, OpInv, pc = "append",
         \A m \in Ids : OnFlash(m)' = After(op.rec, m, cursor),
         NEW i, i = op.rec.id,
         \A m \in Ids \ {i} : fate'[m] \in Shut <=> fate[m] \in Shut,
         fate[i] = "closing" => fate'[i] \in Shut
  PROVE  DurableStates' = DurableStates \/ Contract!Next
<1> DEFINE f == OnFlash(i)
           q == DurableStates[i]
           r == DurableStates'
           new == IF op.kind \in {"deliver", "remove"} THEN [st |-> "gone", att |-> 0]
                  ELSE [st |-> op.rec.st, att |-> op.rec.att]
<1>1. /\ i \in Ids /\ \A m \in Ids \ {i} : OnFlash(m)' = OnFlash(m)
      /\ op.kind \in {"deliver", "remove"} => OnFlash(i)' = Absent /\ fate[i] = "closing"
      /\ op.kind \notin {"deliver", "remove"} =>
           /\ OnFlash(i)' # Absent /\ OnFlash(i)'.st = op.rec.st /\ OnFlash(i)'.att = op.rec.att
      /\ op.kind = "enqueue" => f = Absent /\ op.rec.st = "PENDING" /\ op.rec.att = 0
      /\ op.kind # "enqueue" => f # Absent
      /\ op.kind = "claim" =>
           op.rec.st = "IN_FLIGHT" /\ op.rec.att = f.att + 1 /\ f.st = "PENDING"
      /\ op.kind = "retry" => op.rec.st = "PENDING" /\ op.rec.att = f.att
      /\ op.kind = "dead" => op.rec.st = "DEAD_LETTER" /\ op.rec.att = f.att
      /\ op.kind = "requeue" => op.rec.st = "PENDING" /\ op.rec.att = f.att
      /\ op.kind \in {"enqueue", "claim", "retry", "dead", "requeue", "deliver", "remove"}
  BY OpEffect
<1>2. f = index[i]
  BY <1>1, IndexFound DEF Settled
<1>3. /\ op.kind \in {"deliver", "retry", "dead", "requeue"} => f.st = "IN_FLIGHT"
      /\ op.kind = "remove" => f.st = "PENDING"
      /\ op.kind = "enqueue" => fate[i] = "offered" /\ Cardinality(Indexed) < MaxMessages
  BY <1>1, <1>2 DEF OpInv
<1>4. ASSUME NEW m \in Ids, m # i PROVE DurableState(m)' = DurableState(m)
  BY <1>1, <1>4, StateIs, StateIsNext
<1>5. ASSUME NEW k \in Ids, k = i PROVE DurableState(k)' = new
  <2>1. CASE op.kind \in {"deliver", "remove"}
    <3>1. OnFlash(k)' = Absent /\ fate'[k] \in Shut
      BY <1>1, <1>5, <2>1
    <3> QED BY <2>1, <3>1, StateIsNext
  <2>2. CASE op.kind \notin {"deliver", "remove"}
    <3>1. OnFlash(k)' # Absent /\ OnFlash(k)'.st = op.rec.st /\ OnFlash(k)'.att = op.rec.att
      BY <1>1, <1>5, <2>2
    <3> QED BY <2>2, <3>1, StateIsNext
  <2> QED BY <2>1, <2>2
<1>6. q = IF op.kind = "enqueue" THEN [st |-> "absent", att |-> 0] ELSE [st |-> f.st, att |-> f.att]
  <2>1. q = DurableState(i)
    BY <1>1 DEF DurableStates
  <2>2. CASE op.kind = "enqueue"
    BY <1>1, <1>3, <2>1, <2>2, StateIs DEF Shut
  <2>3. CASE op.kind # "enqueue"
    BY <1>1, <2>1, <2>3, StateIs
  <2> QED BY <2>2, <2>3
<1>7. r = [DurableStates EXCEPT ![i] = new]
  <2>1. r = [n \in Ids |-> DurableState(n)']
    BY DEF DurableStates
  <2>2. \A n \in Ids : DurableState(n)' = IF n = i THEN new ELSE DurableState(n)
    BY <1>4, <1>5
  <2>3. DurableStates = [n \in Ids |-> DurableState(n)]
    BY DEF DurableStates
  <2> HIDE DEF r, new
  <2> QED BY <2>1, <2>2, <2>3
<1>8. Contract!Accept(i) \/ Contract!Claim(i) \/ Contract!PutBack(i) \/ Contract!DeadLetter(i)
      \/ Contract!Close(i)
  <2> USE DEF Contract!Become, Contract!Message, Contract!NotStored, Contract!Gone
  <2>1. CASE op.kind = "enqueue"
    <3>0. Contract!Cardinality(Indexed) = Cardinality(Indexed)
      BY DEF Contract!Cardinality, Cardinality
    <3>1. Contract!Cardinality(Contract!Stored) < MaxMessages
      BY <1>3, <2>1, <3>0, StoredIsIndexed
    <3>2. new = [st |-> "PENDING", att |-> 0]
      BY <1>1, <2>1
    <3>3. DurableStates[i] = [st |-> "absent", att |-> 0]
      BY <1>6, <2>1
    <3>4. r = [DurableStates EXCEPT ![i] = [st |-> "PENDING", att |-> 0]]
      BY <1>7, <3>2
    <3> QED BY <3>1, <3>3, <3>4 DEF Contract!Accept
  <2>2. CASE op.kind = "claim"
    <3>1. q.st = "PENDING" /\ new = [st |-> "IN_FLIGHT", att |-> q.att + 1]
      BY <1>1, <1>6, <2>2
    <3> QED BY <1>7, <3>1 DEF Contract!Claim
  <2>3. CASE op.kind \in {"retry", "requeue"}
    <3>1. q.st = "IN_FLIGHT" /\ new = [st |-> "PENDING", att |-> q.att]
      BY <1>1, <1>3, <1>6, <2>3
    <3> QED BY <1>7, <3>1 DEF Contract!PutBack
  <2>4. CASE op.kind = "dead"
    <3>1. q.st = "IN_FLIGHT" /\ new = [st |-> "DEAD_LETTER", att |-> q.att]
      BY <1>1, <1>3, <1>6, <2>4
    <3> QED BY <1>7, <3>1 DEF Contract!DeadLetter
  <2>5. CASE op.kind \in {"deliver", "remove"}
    <3>1. q.st \in {"IN_FLIGHT", "PENDING"} /\ new = [st |-> "gone", att |-> 0]
      BY <1>1, <1>3, <1>6, <2>5
    <3> QED BY <1>7, <3>1 DEF Contract!Close
  <2> QED BY <1>1, <2>1, <2>2, <2>3, <2>4, <2>5
<1>9. CASE DurableStates'[i] # DurableStates[i]
  BY <1>1, <1>8, <1>9 DEF Contract!Next
<1>10. CASE DurableStates'[i] = DurableStates[i]
  <2>1. new = q
    BY <1>1, <1>7, <1>10 DEF DurableStates
  <2> HIDE DEF new
  <2> QED BY <1>7, <2>1 DEF DurableStates
<1> QED BY <1>9, <1>10

\* Every step of the backend, power losses included, is a step of the contract
\* or none: a message moves with the record that says so, and nothing else does.
LEMMA ContractStep ==
  ASSUME CrashOnly
  PROVE  /\ TypeOK /\ TypeOK' /\ GenInv /\ HeldInv /\ CoreInv /\ CoreInv' /\ RoomInv /\ OpInv
         /\ [Next]_vars
         => [Contract!Next]_DurableStates
<1> SUFFICES ASSUME TypeOK, TypeOK', GenInv, HeldInv, CoreInv, CoreInv', RoomInv, OpInv,
                    [Next]_vars
             PROVE  DurableStates' = DurableStates \/ Contract!Next
  OBVIOUS
<1>0. FlashInv /\ FlashInv'
  BY DEF CoreInv
<1>1. PICK i : i = op.rec.id
  OBVIOUS
<1>2. CASE SameFound /\ ~DoAppend
  <2>1. \A m \in Ids : (fate'[m] \in Shut <=> fate[m] \in Shut) \/ OnFlash(m) # Absent
    BY <1>2, ClosingIsStored
  <2>2. \A m \in Ids : DurableState(m)' = DurableState(m)
    BY <1>0, <1>2, <2>1, StateStays DEF SameFound
  <2> QED BY <2>2 DEF DurableStates
<1>3. CASE DoAppend
  <2>1. pc = "append" /\ \A m \in Ids : OnFlash(m)' = After(op.rec, m, cursor)
    BY <1>3, CoreDoAppend DEF DoAppend
  <2>2. /\ \A m \in Ids \ {i} : fate'[m] = fate[m]
        /\ fate[i] = "closing" => fate'[i] \in Shut
    <3>1. CASE op.kind = "enqueue"
      <4>1. fate[i] = "offered" /\ op.rec = Message(i, "PENDING", 0, i)
        BY <1>1, <3>1 DEF OpInv
      <4>2. ~Closes(op.rec.st)
        BY <4>1 DEF Message, Closes
      <4>3. fate' = [fate EXCEPT ![i] = "accepted"]
        BY <1>1, <1>3, <3>1, <4>2 DEF DoAppend
      <4> QED BY <4>1, <4>3 DEF TypeOK
    <3>2. CASE op.kind # "enqueue"
      <4>1. fate' = [fate EXCEPT ![i] = "closed"] \/ fate' = fate
        BY <1>1, <1>3, <3>2 DEF DoAppend
      <4> QED BY <4>1 DEF TypeOK, Shut
    <3> QED BY <3>1, <3>2
  <2> QED BY <1>1, <2>1, <2>2, ContractMoves
<1>4. CASE PowerLoss /\ pc = "append" /\ \A m \in Ids : OnFlash(m)' = After(op.rec, m, cursor)
  <2>1. UNCHANGED fate
    BY <1>4 DEF PowerLoss, history
  <2> QED BY <1>1, <1>4, <2>1, ContractMoves DEF Shut
<1> QED BY <1>2, <1>3, <1>4, CoreNext

\* The backend implements the storage contract for as long as the flash does
\* what it is told, whenever the power is lost: what a recovery would find of a
\* message changes with the record an operation appends, one message at a time,
\* and no compaction, recovery or torn write is seen.
THEOREM FlashKeepsContract == ASSUME CrashOnly PROVE Spec => KeepsContract
<1>1. Init => Contract!Init
  <2> SUFFICES ASSUME Init, NEW m \in Ids PROVE DurableState(m) = Contract!NotStored
    BY DEF Contract!Init, DurableStates
  <2>1. OnFlash(m) = Absent /\ fate[m] = "fresh"
    BY DEF Init, OnFlash, ActiveRegions, Empty
  <2> QED BY <2>1, StateIs DEF Contract!NotStored, Contract!Message, Shut
<1>2. /\ TypeOK /\ TypeOK' /\ GenInv /\ HeldInv /\ CoreInv /\ CoreInv' /\ RoomInv /\ OpInv
      /\ [Next]_vars
      => [Contract!Next]_DurableStates
  BY ContractStep
<1>3. DurableInv => CoreInv /\ RoomInv /\ OpInv
  BY DEF DurableInv
<1> QED BY <1>1, <1>2, <1>3, FlashInvariant, PTL DEF Spec, KeepsContract, Contract!Spec
=============================================================================
