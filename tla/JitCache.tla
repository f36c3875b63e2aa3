------------------------------ MODULE JitCache ------------------------------
(***************************************************************************)
(* The native engine's block cache (jit/cache.c), the blocks it holds as   *)
(* far as their entries and exits go (jit/x86_64.c), and the run loop that *)
(* drives them (mh_cpu_run_jit): slots keyed by virtual address, an arena  *)
(* flushed whole, links patched into the code, and a guard in every block  *)
(* in place of write notification.                                         *)
(*                                                                         *)
(* A block is one word of guest code: a jump (a static successor), "jr" (a *)
(* successor known when it runs) or "dev" (a helper's instruction, which   *)
(* can change the bus map, followed by a return to the loop).  The         *)
(* addresses are those of one set of the table.                            *)
(***************************************************************************)
EXTENDS Naturals, Sequences, FiniteSets

CONSTANTS Code,         \* addresses with ordinary memory behind them
          Devices,      \* addresses where no block can be compiled
          Ways,         \* the ways of a set: 4
          ArenaBlocks   \* how many blocks fit the arena

Addresses == Code \cup Devices
Words == [op : {"jump"}, to : Addresses] \cup [op : {"jr", "dev"}, to : {0}]

ASSUME JitAssumption ==
  /\ Code \subseteq Nat /\ Devices \subseteq Nat
  /\ Code # {} /\ Code \cap Devices = {}
  /\ Ways \in Nat \ {0} /\ ArenaBlocks \in Nat \ {0}

VARIABLES mem,       \* the guest's words
          pc,        \* where the guest is
          mode,      \* in the loop, in native code, or about to link
          at,        \* the block native code is in
          link,      \* tables.link: the site to redirect, or NoSite
          stale,     \* the block at pc failed its guard
          short,     \* the slots left do not cover a whole block
          arena,     \* the blocks, in the order they were emitted
          slot,      \* the table
          clock,     \* counts replacements
          remapped,  \* the bus map is newer than the code
          idle       \* steps since the guest last got on

vars == <<mem, pc, mode, at, link, stale, short, arena, slot, clock, remapped, idle>>

None == 0
NoSite == [block |-> None, exit |-> "next"]
EmptySlot == [va |-> 0, code |-> None]

\* filed is history, which no step reads: the address the way was left with when
\* the block was compiled into it, 0 if a flush inside compile() had blanked it.
\* next and again are where the block's link site and its stale site lead; old
\* says that the bus map changed since the block was compiled.
Blocks == [va : Code, filed : Code \cup {0}, word : Words, old : BOOLEAN,
           next : 0..ArenaBlocks, again : 0..ArenaBlocks]

TypeOK ==
  /\ mem \in [Code -> Words]
  /\ pc \in Addresses
  /\ mode \in {"loop", "native", "link"}
  /\ at \in 0..ArenaBlocks
  /\ link \in [block : 0..ArenaBlocks, exit : {"next", "again"}]
  /\ stale \in BOOLEAN /\ short \in BOOLEAN
  /\ arena \in Seq(Blocks) /\ Len(arena) <= ArenaBlocks
  /\ slot \in [1..Ways -> [va : Addresses \cup {0}, code : 0..ArenaBlocks]]
  /\ clock \in 0..(Ways - 1)
  /\ remapped \in BOOLEAN /\ idle \in Nat

Init ==
  /\ mem \in [Code -> Words] /\ pc \in Addresses
  /\ mode = "loop" /\ at = None
  /\ link = NoSite /\ stale = FALSE /\ short = FALSE
  /\ arena = <<>> /\ slot = [k \in 1..Ways |-> EmptySlot] /\ clock = 0
  /\ remapped = FALSE /\ idle = 0

-----------------------------------------------------------------------------
\* The cache as one value, for operations in sequence.
Cache == [arena |-> arena, slot |-> slot, clock |-> clock, flushed |-> FALSE]

Becomes(c) == arena' = c.arena /\ slot' = c.slot /\ clock' = c.clock

\* Wrong on purpose: the table outlives the code.
FlushArenaOnly(c) == [c EXCEPT !.arena = <<>>, !.flushed = TRUE]

Flush(c) == [c EXCEPT !.arena = <<>>,
                      !.slot = [k \in 1..Ways |-> EmptySlot],
                      !.flushed = TRUE]

\* Wrong on purpose: only the page tables are rebuilt.
PreparedTablesOnly == Cache

\* mh_jit_prepare
Prepared == IF remapped THEN [Flush(Cache) EXCEPT !.flushed = FALSE] ELSE Cache

NewBlock(va, filed) ==
  [va |-> va, filed |-> filed, word |-> mem[va], old |-> FALSE, next |-> None, again |-> None]

\* The way gets the code; its address is what it was left with.
Emitted(c, k, va) ==
  [c EXCEPT !.arena = Append(@, NewBlock(va, c.slot[k].va)),
            !.slot[k].code = Len(c.arena) + 1]

\* compile: a full arena is flushed, and the way with it, before the second
\* attempt fills in its code.
Compile(c, k, va) ==
  IF va \in Devices THEN c
  ELSE IF Len(c.arena) < ArenaBlocks THEN Emitted(c, k, va)
  ELSE Emitted(Flush(c), k, va)

Hits(c, va) == {k \in 1..Ways : c.slot[k].va = va /\ c.slot[k].code # None}
First(S) == CHOOSE k \in S : \A l \in S : k <= l
Last(S) == CHOOSE k \in S : \A l \in S : l <= k

\* The way a new block goes to: the one to be replaced, else the last empty
\* one, else the next in turn, or the first if recompiling.
Victim(c, va, recompile) ==
  LET empty == {k \in 1..Ways : c.slot[k].code = None}
  IN IF Hits(c, va) # {} THEN First(Hits(c, va))
     ELSE IF empty # {} THEN Last(empty)
     ELSE IF recompile THEN 1 ELSE c.clock + 1

\* mh_jit_find, which compiles what it does not find: the cache afterwards
\* and the way of the entry.
Found(c, va, recompile) ==
  LET k == Victim(c, va, recompile)
      full == \A l \in 1..Ways : c.slot[l].code # None
      turned == IF full /\ ~recompile THEN [c EXCEPT !.clock = (@ + 1) % Ways] ELSE c
      cleared == [turned EXCEPT !.slot[k] = [va |-> va, code |-> None]]
  IN IF Hits(c, va) # {} /\ ~recompile
     THEN [cache |-> c, way |-> First(Hits(c, va))]
     ELSE [cache |-> Compile(cleared, k, va), way |-> k]

Entry(f) == f.cache.slot[f.way].code

-----------------------------------------------------------------------------
\* What an instruction does: go on, and perhaps write a word of code.
Successors(word) == IF word.op = "jump" THEN {word.to} ELSE Addresses

Stores == {mem} \cup {[mem EXCEPT ![a] = w] : a \in Code, w \in Words}

\* What is left of the cache by an instruction that may move the bus map.
Aged(c) ==
  [c EXCEPT !.arena =
     [i \in DOMAIN c.arena |-> [c.arena[i] EXCEPT !.old = @ \/ remapped']]]

\* One step of the reference interpreter, or an interrupt in its place.
ReferenceStep ==
  /\ IF pc \in Devices THEN pc' \in Addresses
     ELSE pc' \in Successors(mem[pc])
  /\ mem' \in Stores
  /\ remapped' \in IF pc \in Devices \/ mem[pc].op = "dev" THEN BOOLEAN ELSE {FALSE}
  /\ idle' = 0

\* The loop brings the cache up to the bus map, looks the block up, and
\* enters it if the slots left cover it.
LoopSteps ==
  /\ mode = "loop"
  /\ ReferenceStep
  /\ LET f == Found(Prepared, pc, FALSE)
     IN Becomes(Aged(f.cache)) /\ (Entry(f) = None \/ short)
  /\ short' = FALSE
  /\ UNCHANGED <<mode, at, link, stale>>

LoopInterrupted ==
  /\ mode = "loop" /\ ~short
  /\ LET f == Found(Prepared, pc, FALSE) IN Becomes(f.cache) /\ Entry(f) # None
  /\ pc' \in Code
  /\ remapped' = FALSE /\ idle' = 0
  /\ UNCHANGED <<mem, mode, at, link, stale, short>>

LoopEnters ==
  /\ mode = "loop" /\ ~short
  /\ LET f == Found(Prepared, pc, FALSE)
     IN Becomes(f.cache) /\ Entry(f) # None /\ at' = Entry(f)
  /\ mode' = "native"
  /\ remapped' = FALSE /\ idle' = idle + 1
  /\ UNCHANGED <<mem, pc, link, stale, short>>

-----------------------------------------------------------------------------
\* Native code.

Block == arena[at]
GuardHolds == Block.word = mem[Block.va]

Leave == mode' = "loop" /\ at' = None /\ UNCHANGED <<link, stale>>

\* Through a site: on to the block it was redirected to, or out to have it
\* redirected.
Through(exit) ==
  IF Block[exit] # None
  THEN at' = Block[exit] /\ UNCHANGED <<mode, link, stale>>
  ELSE /\ at' = None /\ mode' = "link"
       /\ link' = [block |-> at, exit |-> exit]
       /\ stale' = (exit = "again")

NativeStale ==
  /\ mode = "native" /\ ~GuardHolds
  /\ Through("again")
  /\ idle' = idle + 1
  /\ UNCHANGED <<mem, pc, short, arena, slot, clock, remapped>>

\* The slots left do not cover the block: nothing of it has run.
NativeShort ==
  /\ mode = "native" /\ GuardHolds
  /\ short' = TRUE /\ Leave
  /\ idle' = idle + 1
  /\ UNCHANGED <<mem, pc, arena, slot, clock, remapped>>

NativeJumps ==
  /\ mode = "native" /\ GuardHolds /\ Block.word.op = "jump"
  /\ pc' = Block.word.to
  /\ mem' \in Stores
  /\ Through("next")
  /\ idle' = 0
  /\ UNCHANGED <<short, arena, slot, clock, remapped>>

\* A register-indirect jump looks the table up itself.
NativeLooksUp ==
  /\ mode = "native" /\ GuardHolds /\ Block.word.op = "jr"
  /\ pc' \in Addresses
  /\ mem' \in Stores
  /\ LET hits == Hits(Cache, pc')
     IN IF hits = {} THEN Leave
        ELSE at' = slot[First(hits)].code /\ UNCHANGED <<mode, link, stale>>
  /\ idle' = 0
  /\ UNCHANGED <<short, arena, slot, clock, remapped>>

\* jit_finish: a helper's instruction that moved the bus map leaves.
NativeHelper ==
  /\ mode = "native" /\ GuardHolds /\ Block.word.op = "dev"
  /\ pc' \in Addresses
  /\ mem' \in Stores
  /\ remapped' \in BOOLEAN
  /\ Becomes(Aged(Cache))
  /\ Leave
  /\ idle' = 0
  /\ UNCHANGED short

-----------------------------------------------------------------------------
Redirect(c, site, entry) ==
  LET block == c.arena[site.block]
  IN [c EXCEPT !.arena[site.block] =
        IF site.exit = "next" THEN [block EXCEPT !.next = entry]
                              ELSE [block EXCEPT !.again = entry]]

\* Wrong on purpose: a flush on the way is not noticed.
ResolvedUnchecked(f) ==
  IF Entry(f) = None \/ link.block > Len(f.cache.arena)
  THEN f.cache ELSE Redirect(f.cache, link, Entry(f))

\* The site is redirected unless there is no block or a flush discarded it.
Resolved(f) ==
  IF Entry(f) = None \/ f.cache.flushed
  THEN f.cache ELSE Redirect(f.cache, link, Entry(f))

\* Wrong on purpose: the stale block is found again.
ResolveLinkFinds ==
  /\ mode = "link"
  /\ Becomes(Resolved(Found(Cache, pc, FALSE)))
  /\ mode' = "loop" /\ link' = NoSite /\ stale' = FALSE /\ idle' = idle + 1
  /\ UNCHANGED <<mem, pc, at, short, remapped>>

\* mh_jit_resolve_link
ResolveLink ==
  /\ mode = "link"
  /\ Becomes(Resolved(Found(Cache, pc, stale)))
  /\ mode' = "loop" /\ link' = NoSite /\ stale' = FALSE /\ idle' = idle + 1
  /\ UNCHANGED <<mem, pc, at, short, remapped>>

Next ==
  \/ LoopSteps \/ LoopInterrupted \/ LoopEnters
  \/ NativeStale \/ NativeShort \/ NativeJumps \/ NativeLooksUp \/ NativeHelper
  \/ ResolveLink

Spec == Init /\ [][Next]_vars

-----------------------------------------------------------------------------
\* Native code is where the guest is, whatever was replaced, flushed or
\* relinked since the block was compiled.  A guest at address 0 is the one that
\* can be given another block, that which the arena begins with: compile()
\* fills in the code of a way that its own flush has blanked (cache.c:252).
RunsTheGuest ==
  mode = "native" =>
    /\ at \in 1..Len(arena)
    /\ Block.va = pc \/ (pc = 0 /\ at = 1)

\* "Blocks are keyed by virtual start address" (cache.c:18): native code is
\* that of the address the guest is at.  Not so at address 0, see above; it is
\* proved for guests that keep away from there (KeyedWithoutZero).
KeyedByAddress == mode = "native" => Block.va = pc

\* A site that was redirected leads to a block still in the arena (cache.c:304
\* is about a flush between), a stale block's to a later one, and the
\* block is of the address the site stands for; address 0 again excepted.
LinksSound ==
  \A i \in 1..Len(arena) :
    /\ arena[i].next # None =>
         /\ arena[i].next <= Len(arena)
         /\ \/ arena[arena[i].next].va = arena[i].word.to
            \/ arena[i].word.to = 0 /\ arena[i].next = 1
    /\ arena[i].again # None =>
         /\ arena[i].again \in (i + 1)..Len(arena)
         /\ \/ arena[arena[i].again].va = arena[i].va
            \/ i = 1 /\ arena[arena[i].again].va = 0

\* The cache keeps its shape, and its links are sound.
LinksOK == TypeOK /\ LinksSound

\* No block runs under another bus map than it was compiled under: its guard
\* would read the bytes of the old one.
NoCodeAcrossMaps == mode = "native" => ~Block.old

\* Between two instructions there is a bounded amount of looking up, compiling
\* and linking: no stale block is entered for good, and no chain of stale
\* blocks closes on itself.
GuestGetsOn == idle <= ArenaBlocks + 5

=============================================================================
