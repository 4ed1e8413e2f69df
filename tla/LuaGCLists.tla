----------------------------- MODULE LuaGCLists -----------------------------
(***************************************************************************)
(* The linked lists that own the objects of a Lua state (lgc.c, lgc.h),    *)
(* and the pointer sweepgc that walks them a few objects at a time while   *)
(* the program creates objects, marks them for finalization and runs       *)
(* finalizers.                                                             *)
(*                                                                         *)
(* A C pointer to a pointer is one of the list heads or the field 'next'   *)
(* of an object, so it is an element of Pointer, and link[p] is what *p    *)
(* holds.  One iteration of a loop of lgc.c is one step; pc # "idle" while *)
(* such a loop runs, and nothing else runs then.  Which objects a cycle    *)
(* finds reachable is any set here: that is the subject of LuaGC.          *)
(***************************************************************************)
EXTENDS Naturals, FiniteSets

CONSTANTS
  Str,       \* the addresses of strings
  Udata,     \* the addresses of objects that may have a finalizer
  NULL,
  SweepMax   \* GCSWEEPMAX

Obj == Str \cup Udata
List == {"allgc", "finobj", "tobefnz", "fixedgc"}
Pointer == List \cup Obj

ListsAssumption ==
  /\ Str \cap Udata = {} /\ NULL \notin Obj \cup List
  /\ Obj \cap List = {} /\ IsFiniteSet(Obj)
  /\ SweepMax \in Nat \ {0}

VARIABLES
  link,         \* the heads of the lists and the fields 'next'
  marked,       \* the colour ("black" stands for gray or black), or "free"
  finalized,    \* the objects with FINALIZEDBIT
  currentwhite, gcstate,
  sweepgc,      \* the pointer where the sweep goes on, or NULL
  pc,           \* the function of lgc.c that is running
  p, lastnext,  \* locals of separatetobefnz
  count,        \* parameter of sweeplist
  target,       \* the object luaC_checkfinalizer is called for
  emergency,    \* gckind, and the part of luaC_fullgc that is running
  opening,      \* is the state still being opened (f_luaopen)
  closing,      \* has close_state begun, has it ended
  younger, late,\* history: <<a, b>> when a was marked for finalization after b; those
                \* of which an atomic phase has taken one and left the other
  overtaken     \* history: has a finalizer taken what sweepgc pointed to since the sweep began

loops == <<pc, p, lastnext, count, target>>
marks == <<younger, late, overtaken>>
phases == <<emergency, opening, closing>>
vars == <<link, marked, finalized, currentwhite, gcstate, sweepgc, loops, phases, marks>>

White == {"white0", "white1"}
SweepState == {"GCSswpallgc", "GCSswpfinobj", "GCSswptobefnz", "GCSswpend"}
GCState == {"GCSpause", "GCSpropagate", "GCSinsideatomic", "GCScallfin"} \cup SweepState

TypeOK ==
  /\ link \in [Pointer -> Obj \cup {NULL}]
  /\ marked \in [Obj -> White \cup {"black", "free"}]
  /\ finalized \subseteq Udata
  /\ currentwhite \in White /\ gcstate \in GCState
  /\ sweepgc \in Pointer \cup {NULL}
  /\ pc \in {"idle", "separate", "enter", "sweep", "tolive", "relink"}
  /\ p \in Pointer /\ lastnext \in Pointer
  /\ count \in 0..SweepMax
  /\ target \in Udata \cup {NULL}
  /\ emergency \in {"none", "finish", "cycle"}
  /\ opening \in BOOLEAN /\ closing \in {"no", "finalizers", "closed"}
  /\ younger \subseteq Udata \X Udata /\ late \subseteq younger
  /\ overtaken \in BOOLEAN

OtherWhite == IF currentwhite = "white0" THEN "white1" ELSE "white0"
IsDead(o) == marked[o] = OtherWhite
IsSweepPhase == gcstate \in SweepState
Allocated == {o \in Obj : marked[o] # "free"}

\* The objects that a walk along the links lk meets from pointer q: the least set
\* that the pointer q and the objects of the set do not lead out of.
Reach(lk, q) ==
  {o \in Obj : \A S \in SUBSET Obj :
                 ({lk[q]} \cup {lk[x] : x \in S}) \ {NULL} \subseteq S => o \in S}
Members(q) == Reach(link, q)

-----------------------------------------------------------------------------
(* The program *)

\* The program runs between two steps of the collector and in finalizers, not in
\* an emergency collection, and has no object that a cycle has found dead.
Running == pc = "idle" /\ emergency = "none" /\ closing # "closed"
Usable(o) == marked[o] # "free" /\ ~IsDead(o)

\* luaC_newobj links at the head of allgc.
NewObj(o) ==
  /\ Running /\ marked[o] = "free"
  /\ marked' = [marked EXCEPT ![o] = currentwhite]
  /\ link' = [link EXCEPT ![o] = link["allgc"], !["allgc"] = o]
  /\ UNCHANGED <<finalized, currentwhite, gcstate, sweepgc, loops, phases, marks>>

\* luaC_fix, called by luaS_init, luaX_init and luaT_init on a string just made.
Fix(s) ==
  /\ Running /\ opening /\ link["allgc"] = s /\ s \in Str
  /\ marked' = [marked EXCEPT ![s] = "black"]
  /\ link' = [link EXCEPT !["allgc"] = link[s], ![s] = link["fixedgc"], !["fixedgc"] = s]
  /\ UNCHANGED <<finalized, currentwhite, gcstate, sweepgc, loops, phases, marks>>

\* internshrstr takes a string back that the sweep was about to free.
Intern(s) ==
  /\ Running /\ s \in Str /\ IsDead(s)
  /\ marked' = [marked EXCEPT ![s] = currentwhite]
  /\ UNCHANGED <<link, finalized, currentwhite, gcstate, sweepgc, loops, phases, marks>>

\* luaC_barrier_ outside the marking: the black object is swept ahead of its time.
BarrierSweep(o) ==
  /\ Running /\ Usable(o) /\ marked[o] = "black" /\ o \notin Members("fixedgc")
  /\ gcstate \notin {"GCSpropagate", "GCSinsideatomic"}
  /\ marked' = [marked EXCEPT ![o] = currentwhite]
  /\ UNCHANGED <<link, finalized, currentwhite, gcstate, sweepgc, loops, phases, marks>>

\* luaC_checkfinalizer, first part: in a sweep phase the object is swept, and if
\* sweepgc points to its field 'next' the pointer is moved on (sweeptolive).
CheckFinalizer(o) ==
  /\ Running /\ o \in Udata \ finalized /\ Usable(o)
  /\ target' = o
  /\ pc' = IF IsSweepPhase /\ sweepgc = o THEN "tolive" ELSE "relink"
  /\ marked' = IF IsSweepPhase THEN [marked EXCEPT ![o] = currentwhite] ELSE marked
  /\ UNCHANGED <<link, finalized, currentwhite, gcstate, sweepgc, p, lastnext, count, phases,
                 marks>>

\* luaC_checkfinalizer, second part: search allgc for the pointer to the object,
\* unlink it there and link it at the head of finobj.
Relink ==
  /\ pc = "relink"
  /\ LET q == CHOOSE x \in {"allgc"} \cup Members("allgc") : link[x] = target
     IN link' = [link EXCEPT ![q] = link[target], ![target] = link["finobj"],
                             !["finobj"] = target]
  /\ finalized' = finalized \cup {target}
  /\ younger' = younger \cup ({target} \X (Members("finobj") \cup Members("tobefnz")))
  /\ late' = late \cup ({target} \X Members("tobefnz"))
  /\ pc' = "idle" /\ target' = NULL
  /\ UNCHANGED <<marked, currentwhite, gcstate, sweepgc, p, lastnext, count, phases, overtaken>>

-----------------------------------------------------------------------------
(* Finalizers *)

\* The finalizer to be called is that of the object sweepgc points to, which goes over to
\* allgc with it: what follows in tobefnz is not swept any more.
Overtakes == gcstate = "GCSswptobefnz" /\ sweepgc # NULL /\ sweepgc = link["tobefnz"]

\* Mutant: the object is not swept on its way back to allgc.
Udata2FinalizeUnswept ==
  LET o == link["tobefnz"] IN
  /\ pc = "idle" /\ emergency = "none" /\ o # NULL
  /\ link' = [link EXCEPT !["tobefnz"] = link[o], ![o] = link["allgc"], !["allgc"] = o]
  /\ finalized' = finalized \ {o}
  /\ younger' = {e \in younger : o \notin {e[1], e[2]}}
  /\ late' = late \cap younger'
  /\ overtaken' = (overtaken \/ Overtakes)
  /\ UNCHANGED <<marked, currentwhite, gcstate, sweepgc, loops, phases>>
\* udata2finalize, called by GCTM, which runafewfinalizers calls after a step in
\* any state: the first object of tobefnz goes back to allgc.
Udata2Finalize ==
  LET o == link["tobefnz"] IN
  /\ pc = "idle" /\ emergency = "none" /\ o # NULL
  /\ link' = [link EXCEPT !["tobefnz"] = link[o], ![o] = link["allgc"], !["allgc"] = o]
  /\ finalized' = finalized \ {o}
  /\ marked' = IF IsSweepPhase THEN [marked EXCEPT ![o] = currentwhite] ELSE marked
  /\ younger' = {e \in younger : o \notin {e[1], e[2]}}
  /\ late' = late \cap younger'
  /\ overtaken' = (overtaken \/ Overtakes)
  /\ UNCHANGED <<currentwhite, gcstate, sweepgc, loops, phases>>

\* findlast
FindLast(l) == CHOOSE q \in {l} \cup Members(l) : link[q] = NULL

SeparateToBeFnz ==
  /\ pc' = "separate"
  /\ p' = "finobj"
  /\ lastnext' = FindLast("tobefnz")

\* Mutant: each object is linked at the head of tobefnz.
MoveToBeFnzHead(curr) ==
  /\ link' = [link EXCEPT ![p] = link[curr], ![curr] = link["tobefnz"], !["tobefnz"] = curr]
  /\ lastnext' = lastnext
\* The body of the loop of separatetobefnz for an object to be finalized.
MoveToBeFnz(curr) ==
  /\ link' = [link EXCEPT ![p] = link[curr], ![curr] = link[lastnext], ![lastnext] = curr]
  /\ lastnext' = curr

\* One iteration of separatetobefnz(g, all): luaC_freeallobjects calls it with all,
\* atomic() without.
SeparateLoop ==
  LET curr == link[p]
      all == gcstate # "GCSinsideatomic"
      move == marked[curr] \in White \/ all
  IN
  /\ pc = "separate" /\ curr # NULL
  /\ \/ move /\ MoveToBeFnz(curr) /\ p' = p
     \/ ~move /\ p' = curr /\ UNCHANGED <<link, lastnext>>
  /\ UNCHANGED <<marked, finalized, currentwhite, gcstate, sweepgc, pc, count, target, phases,
                 marks>>

-----------------------------------------------------------------------------
(* A cycle *)

StartCycle ==
  /\ pc = "idle" /\ gcstate = "GCSpause" /\ emergency # "finish" /\ ~opening
  /\ gcstate' = "GCSpropagate"
  /\ UNCHANGED <<link, marked, finalized, currentwhite, sweepgc, loops, phases, marks>>

\* restartcollection, propagatemark and the barriers mark an object.
Mark(o) ==
  /\ pc = "idle" /\ gcstate = "GCSpropagate" /\ marked[o] \in White
  /\ marked' = [marked EXCEPT ![o] = "black"]
  /\ UNCHANGED <<link, finalized, currentwhite, gcstate, sweepgc, loops, phases, marks>>

\* atomic() up to separatetobefnz: S is what it still marks.
AtomicMark(S) ==
  /\ pc = "idle" /\ gcstate = "GCSpropagate"
  /\ \A o \in S : marked[o] \in White
  /\ marked' = [o \in Obj |-> IF o \in S THEN "black" ELSE marked[o]]
  /\ gcstate' = "GCSinsideatomic"
  /\ SeparateToBeFnz
  /\ LET taken == {o \in Members("finobj") : marked'[o] \in White}
     IN late' = late \cup {e \in younger : ~({e[1], e[2]} \subseteq taken)
                                           /\ {e[1], e[2]} \cap taken # {}}
  /\ UNCHANGED <<younger, overtaken>>
  /\ UNCHANGED <<link, finalized, currentwhite, sweepgc, count, target, phases>>

\* entersweep: sweeplist with count 1 from the head of allgc.
EnterSweep ==
  /\ gcstate' = "GCSswpallgc"
  /\ pc' = "enter" /\ sweepgc' = "allgc" /\ count' = 1
  /\ overtaken' = FALSE
  /\ UNCHANGED <<p, lastnext, target>>

\* The rest of atomic(): markbeingfnz marks what is in tobefnz, propagation marks
\* what is reached from there (S), the white is flipped and the sweep entered.
AtomicFlip(S) ==
  /\ pc = "separate" /\ link[p] = NULL /\ gcstate = "GCSinsideatomic"
  /\ \A o \in S : marked[o] \in White
  /\ marked' = [o \in Obj |-> IF o \in S \cup Members("tobefnz") THEN "black" ELSE marked[o]]
  /\ currentwhite' = OtherWhite
  /\ EnterSweep
  /\ UNCHANGED <<link, finalized, phases, younger, late>>

-----------------------------------------------------------------------------
(* The sweep *)

\* Mutant: a live object is not passed.
SweepObjectStay ==
  LET curr == link[sweepgc] IN
  IF IsDead(curr)
  THEN /\ link' = [link EXCEPT ![sweepgc] = link[curr], ![curr] = NULL]
       /\ marked' = [marked EXCEPT ![curr] = "free"]
       /\ sweepgc' = sweepgc
  ELSE /\ marked' = [marked EXCEPT ![curr] = currentwhite]
       /\ UNCHANGED <<sweepgc, link>>
\* One iteration of the loop of sweeplist: the object sweepgc points to is freed
\* if it is dead, or else made white and passed.
SweepObject ==
  LET curr == link[sweepgc] IN
  IF IsDead(curr)
  THEN /\ link' = [link EXCEPT ![sweepgc] = link[curr], ![curr] = NULL]
       /\ marked' = [marked EXCEPT ![curr] = "free"]
       /\ sweepgc' = sweepgc
  ELSE /\ marked' = [marked EXCEPT ![curr] = currentwhite]
       /\ sweepgc' = curr
       /\ link' = link

SweepLoop ==
  /\ pc \in {"enter", "sweep"} /\ link[sweepgc] # NULL /\ count > 0
  /\ SweepObject
  /\ count' = count - 1
  /\ UNCHANGED <<finalized, currentwhite, gcstate, pc, p, lastnext, target, phases, marks>>

\* sweeptolive: one object at a time until one is passed or the list ends.
SweepToLive ==
  /\ pc = "tolive"
  /\ \/ /\ sweepgc = target /\ link[target] # NULL
        /\ SweepObject
        /\ pc' = pc
     \/ /\ sweepgc # target \/ link[target] = NULL
        /\ sweepgc' = IF link[sweepgc] = NULL THEN NULL ELSE sweepgc
        /\ pc' = "relink"
        /\ UNCHANGED <<link, marked>>
  /\ UNCHANGED <<finalized, currentwhite, gcstate, p, lastnext, count, target, phases, marks>>

\* The return of the sweeplist of entersweep.
EnterSweepEnd ==
  /\ pc = "enter" /\ (link[sweepgc] = NULL \/ count = 0)
  /\ sweepgc' = IF link[sweepgc] = NULL THEN NULL ELSE sweepgc
  /\ pc' = "idle"
  /\ UNCHANGED <<link, marked, finalized, currentwhite, gcstate, p, lastnext, count, target,
                 phases, marks>>

\* sweepstep, when there is something to sweep: at most GCSWEEPMAX objects.
SweepStep ==
  /\ pc = "idle" /\ gcstate \in SweepState /\ sweepgc # NULL
  /\ pc' = "sweep" /\ count' = SweepMax
  /\ UNCHANGED <<link, marked, finalized, currentwhite, gcstate, sweepgc, p, lastnext, target,
                 phases, marks>>

\* The list that each state of the sweep goes to, and its next state.
NextSweep(state) ==
  CASE state = "GCSswpallgc"   -> [state |-> "GCSswpfinobj", list |-> "finobj"]
    [] state = "GCSswpfinobj"  -> [state |-> "GCSswptobefnz", list |-> "tobefnz"]
    [] state = "GCSswptobefnz" -> [state |-> "GCSswpend", list |-> NULL]

\* The end of sweepstep: on to the next list when nothing is left to sweep.
SweepStepEnd ==
  LET rest == IF sweepgc = NULL THEN NULL ELSE link[sweepgc] IN
  /\ \/ pc = "sweep" /\ (rest = NULL \/ count = 0)
     \/ pc = "idle" /\ sweepgc = NULL
  /\ gcstate \in SweepState \ {"GCSswpend"}
  /\ \/ rest # NULL /\ UNCHANGED <<sweepgc, gcstate>>
     \/ rest = NULL /\ gcstate' = NextSweep(gcstate).state /\ sweepgc' = NextSweep(gcstate).list
  /\ pc' = "idle"
  /\ UNCHANGED <<link, marked, finalized, currentwhite, p, lastnext, count, target, phases,
                 marks>>

SweepEnd ==
  /\ pc = "idle" /\ gcstate = "GCSswpend"
  /\ gcstate' = "GCScallfin"
  /\ UNCHANGED <<link, marked, finalized, currentwhite, sweepgc, loops, phases, marks>>

\* State GCScallfin ends with an empty tobefnz, or at once in an emergency.
CallFinEnd ==
  /\ pc = "idle" /\ gcstate = "GCScallfin"
  /\ link["tobefnz"] = NULL \/ emergency # "none"
  /\ gcstate' = "GCSpause"
  /\ emergency' = IF emergency = "finish" THEN "cycle" ELSE "none"
  /\ UNCHANGED <<link, marked, finalized, currentwhite, sweepgc, loops, opening, closing,
                 marks>>

\* luaC_fullgc first sweeps what has been marked, without a flip.
FullGC(isemergency) ==
  /\ Running /\ ~opening
  /\ \/ gcstate = "GCSpropagate" /\ EnterSweep
     \/ gcstate # "GCSpropagate" /\ UNCHANGED <<gcstate, sweepgc, loops, overtaken>>
  /\ emergency' = IF ~isemergency THEN "none"
                  ELSE IF gcstate = "GCSpause" THEN "cycle" ELSE "finish"
  /\ UNCHANGED <<link, marked, finalized, currentwhite, opening, closing, younger, late>>

-----------------------------------------------------------------------------
(* Opening and closing the state *)

Opened ==
  /\ Running /\ opening
  /\ opening' = FALSE
  /\ UNCHANGED <<link, marked, finalized, currentwhite, gcstate, sweepgc, loops, emergency,
                 closing, marks>>

\* luaC_freeallobjects: every object with a finalizer is to be finalized.
Close ==
  /\ Running /\ ~opening /\ closing = "no"
  /\ closing' = "finalizers"
  /\ SeparateToBeFnz
  /\ UNCHANGED <<link, marked, finalized, currentwhite, gcstate, sweepgc, count, target,
                 emergency, opening, marks>>
CloseSeparated ==
  /\ pc = "separate" /\ link[p] = NULL /\ gcstate # "GCSinsideatomic"
  /\ pc' = "idle"
  /\ UNCHANGED <<link, marked, finalized, currentwhite, gcstate, sweepgc, p, lastnext, count,
                 target, phases, marks>>

\* The end of luaC_freeallobjects, when no finalizer is left to call: it frees
\* finobj (the marks that finalizers made), allgc and fixedgc.
FreeAll ==
  /\ Running /\ closing = "finalizers" /\ link["tobefnz"] = NULL
  /\ LET freed == UNION {Members(l) : l \in {"finobj", "allgc", "fixedgc"}} IN
     /\ marked' = [o \in Obj |-> IF o \in freed THEN "free" ELSE marked[o]]
     /\ link' = [q \in Pointer |-> IF q \in freed \cup {"finobj", "allgc", "fixedgc"}
                                   THEN NULL ELSE link[q]]
  /\ closing' = "closed"
  /\ UNCHANGED <<finalized, currentwhite, gcstate, sweepgc, loops, emergency, opening, marks>>

-----------------------------------------------------------------------------
(* The specification *)

\* luaC_step or luaC_fullgc going on: the steps of singlestep() and its loops.
Collector ==
  \/ StartCycle \/ (\E o \in Obj : Mark(o))
  \/ (\E S \in SUBSET Obj : AtomicMark(S)) \/ SeparateLoop
  \/ (\E S \in SUBSET Obj : AtomicFlip(S))
  \/ SweepLoop \/ EnterSweepEnd \/ SweepStep \/ SweepStepEnd \/ SweepEnd
  \/ gcstate = "GCScallfin" /\ Udata2Finalize
  \/ CallFinEnd
\* The rest of a luaC_checkfinalizer that has begun.
CheckFinalizerLoops == SweepToLive \/ Relink
Program ==
  \/ \E o \in Obj : NewObj(o) \/ BarrierSweep(o)
  \/ \E s \in Str : Fix(s) \/ Intern(s)
  \/ \E o \in Udata : CheckFinalizer(o)
  \/ Udata2Finalize
  \/ FullGC(FALSE) \/ Opened
Closing == Close \/ CloseSeparated \/ FreeAll

ListsInit ==
  /\ link = [q \in Pointer |-> NULL]
  /\ marked = [o \in Obj |-> "free"] /\ finalized = {}
  /\ currentwhite = "white0" /\ gcstate = "GCSpause" /\ sweepgc = NULL
  /\ pc = "idle" /\ p = "finobj" /\ lastnext = "tobefnz" /\ count = 0 /\ target = NULL
  /\ emergency = "none" /\ opening = TRUE /\ closing = "no"
  /\ younger = {} /\ late = {} /\ overtaken = FALSE
ListsNext == Collector \/ CheckFinalizerLoops \/ Program \/ FullGC(TRUE) \/ Closing
ListsSpec == ListsInit /\ [][ListsNext]_vars

-----------------------------------------------------------------------------
(* Properties *)

\* Every object is in exactly one list, whatever was unlinked and linked in
\* between, and no list has a cycle (luaC_newobj, luaC_fix, luaC_checkfinalizer,
\* udata2finalize, separatetobefnz, sweeplist).
Linked ==
  /\ \A l \in List : \A o \in Members(l), k \in List \ {l} : o \notin Members(k)
  /\ UNION {Members(l) : l \in List} = Allocated
  /\ \A o \in Obj : o \notin Members(o)

\* No object that a cycle has found dead is left behind: each one is ahead of
\* sweepgc in allgc, although objects before and at sweepgc move to other lists.
DeadAhead ==
  \A o \in Obj : IsDead(o) /\ closing # "closed" =>
    /\ gcstate = "GCSswpallgc" /\ sweepgc # NULL
    /\ o \in Members(sweepgc)

\* lgc.h, above keepinvariant: "The invariant is restored when sweep ends and all
\* objects are white again."  What the sweep has passed is white, and so is every
\* object when it has ended, unless a finalizer was called for the object in tobefnz
\* that sweepgc points to (separatetobefnz is over before anyone looks).
Unswept ==
  CASE gcstate = "GCSswpallgc"   -> Members("finobj") \cup Members("tobefnz") \cup
                                    (IF sweepgc = NULL THEN {} ELSE Members(sweepgc))
    [] gcstate = "GCSswpfinobj"  -> Members("tobefnz") \cup
                                    (IF sweepgc = NULL THEN {} ELSE Members(sweepgc))
    [] gcstate = "GCSswptobefnz" -> (IF sweepgc = NULL THEN {} ELSE Members(sweepgc))
    [] OTHER -> {}
SweptWhite ==
  ~overtaken /\ pc # "separate" /\ gcstate \notin {"GCSpropagate", "GCSinsideatomic"} =>
    \A o \in Allocated \ (Members("fixedgc") \cup Unswept) : marked[o] = currentwhite

\* The lists are what the collector takes them for, although the program moves objects
\* from list to list before and at sweepgc (luaC_checkfinalizer, udata2finalize).
ListsSound == TypeOK /\ Linked /\ DeadAhead /\ SweptWhite

\* "The finalizers for objects are called in the reverse order that the objects were
\* marked for finalization, among those collected in that cycle" (manual 2.5.1), in
\* whatever order cycles, marks and calls come, and when the state is closed in between.
InMarkOrder ==
  pc # "separate" /\ closing # "closed" => \A e \in younger \ late : e[2] \in Members(e[1])

=============================================================================
