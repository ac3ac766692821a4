---------------------------- MODULE HostsProofs ----------------------------
(***************************************************************************)
(* What holds of every program that uses the C ABI, for all threads, texts,*)
(* configurations, command lines and jobs: the handles in use are the live *)
(* objects, an error's diagnostic is its own, an analysis is found whole in *)
(* its arrays, and a plan made in stages is the plan of one call.          *)
(***************************************************************************)
EXTENDS Hosts, MergeLemmas, TLAPS

-----------------------------------------------------------------------------
(* Objects, as sequences of records *)

Records(o) ==
  /\ o \in Seq({o[h] : h \in DOMAIN o})
  /\ \A h \in DOMAIN o :
       /\ o[h] = [kind |-> o[h].kind, live |-> o[h].live, value |-> o[h].value]
       /\ o[h].live \in BOOLEAN

Live(o) == {h \in DOMAIN o : o[h].live}

(* The variables us, as sl has them, hold exactly the live objects of o.   *)
Holds(o, sl, us) ==
  /\ {sl[s] : s \in {u \in us : sl[u] # Null}} = Live(o)
  /\ \A s, u \in us : sl[s] # Null /\ sl[s] = sl[u] => s = u

Without(o, D) ==
  [h \in DOMAIN o |-> IF h \in D THEN [o[h] EXCEPT !.live = FALSE, !.value = Null] ELSE o[h]]

(* A new object is live, and the others are as they were.                  *)
LEMMA Appended ==
  ASSUME NEW o, Records(o), NEW kind, NEW value
  PROVE  LET p == Append(o, [kind |-> kind, live |-> TRUE, value |-> value]) IN
         /\ Records(p)
         /\ Live(p) = Live(o) \cup {Len(o) + 1}
         /\ Len(o) + 1 \in Nat /\ Len(o) + 1 \notin DOMAIN o
<1> DEFINE r == [kind |-> kind, live |-> TRUE, value |-> value]
           p == Append(o, r)
           S == {o[h] : h \in DOMAIN o}
           T == {p[h] : h \in DOMAIN p}
<1>1. /\ o \in Seq(S) /\ DOMAIN o = 1..Len(o) /\ Len(o) \in Nat
      /\ \A h \in DOMAIN o :
           /\ o[h] = [kind |-> o[h].kind, live |-> o[h].live, value |-> o[h].value]
           /\ o[h].live \in BOOLEAN
  BY DEF Records
<1>2. r.live = TRUE /\ r = [kind |-> r.kind, live |-> r.live, value |-> r.value]
  OBVIOUS
<1> HIDE DEF r, S
<1>3. /\ Len(p) = Len(o) + 1 /\ DOMAIN p = 1..Len(o) + 1
      /\ p[Len(o) + 1] = r
      /\ \A h \in DOMAIN o : p[h] = o[h]
  <2>1. o \in Seq(S \cup {r}) /\ r \in S \cup {r}
    BY <1>1
  <2> QED
    BY <2>1, <1>1
<1> HIDE DEF p
<1>4. p \in Seq(T)
  <2>1. p \in Seq(S \cup {r})
    BY <1>1 DEF p
  <2>2. p \in [1..Len(p) -> T]
    BY <1>1, <1>3, <2>1
  <2> QED
    BY <1>1, <1>3, <2>2
<1>5. Records(p)
  <2>1. ASSUME NEW h \in DOMAIN p
        PROVE  /\ p[h] = [kind |-> p[h].kind, live |-> p[h].live, value |-> p[h].value]
               /\ p[h].live \in BOOLEAN
    <3>1. CASE h = Len(o) + 1
      BY <1>2, <1>3, <3>1
    <3>2. CASE h \in DOMAIN o
      BY <1>1, <1>3, <3>2
    <3> QED
      BY <1>1, <1>3, <3>1, <3>2
  <2> QED
    BY <1>4, <2>1 DEF Records
<1>6. Live(p) = Live(o) \cup {Len(o) + 1}
  BY <1>1, <1>2, <1>3 DEF Live
<1>7. Len(o) + 1 \in Nat /\ Len(o) + 1 \notin DOMAIN o
  BY <1>1
<1> QED
  BY <1>5, <1>6, <1>7, Zenon DEF p, r

(* Destroyed objects are not live, and the others are as they were.        *)
LEMMA Dropped ==
  ASSUME NEW o, Records(o), NEW D
  PROVE  /\ Records(Without(o, D))
         /\ Live(Without(o, D)) = Live(o) \ D
         /\ Len(Without(o, D)) = Len(o)
<1> DEFINE p == Without(o, D)
           T == {p[h] : h \in DOMAIN p}
<1>1. /\ DOMAIN o = 1..Len(o) /\ Len(o) \in Nat
      /\ \A h \in DOMAIN o :
           /\ o[h] = [kind |-> o[h].kind, live |-> o[h].live, value |-> o[h].value]
           /\ o[h].live \in BOOLEAN
  BY DEF Records
<1>2. /\ DOMAIN p = DOMAIN o
      /\ \A h \in DOMAIN o :
           p[h] = IF h \in D THEN [o[h] EXCEPT !.live = FALSE, !.value = Null] ELSE o[h]
  BY DEF Without
<1>3. \A h \in DOMAIN o \cap D : p[h] = [kind |-> o[h].kind, live |-> FALSE, value |-> Null]
  BY <1>1, <1>2
<1> HIDE DEF p
<1>4. p \in [1..Len(o) -> T]
  BY <1>1, <1>2, Zenon DEF Without, p
<1>5. p \in Seq(T) /\ Len(p) = Len(o)
  BY <1>1, <1>4
<1>6. Records(p)
  BY <1>1, <1>2, <1>3, <1>5 DEF Records
<1>7. Live(p) = Live(o) \ D
  BY <1>1, <1>2, <1>3 DEF Live
<1> QED
  BY <1>5, <1>6, <1>7 DEF p

(* A call that succeeds: its variable had no live object and has the new.  *)
LEMMA CreatedIsHeld ==
  ASSUME NEW o, NEW p, NEW sl, NEW us, NEW out \in DOMAIN sl, NEW n,
         Holds(o, sl, us), us \subseteq DOMAIN sl,
         out \in us => sl[out] = Null,
         n # Null, n \notin DOMAIN o,
         Live(p) = Live(o) \cup {n}
  PROVE  Holds(p, [sl EXCEPT ![out] = n], us \cup {out})
<1> DEFINE tl == [sl EXCEPT ![out] = n]
           vs == us \cup {out}
<1>1. tl[out] = n /\ \A s \in us \ {out} : tl[s] = sl[s]
  OBVIOUS
<1> HIDE DEF tl
<1>2. \A s \in us : sl[s] # Null => sl[s] \in Live(o) /\ sl[s] # n
  BY DEF Holds, Live
<1>3. {tl[s] : s \in {u \in vs : tl[u] # Null}} = Live(p)
  BY <1>1, <1>2 DEF Holds
<1>4. \A s, u \in vs : tl[s] # Null /\ tl[s] = tl[u] => s = u
  BY <1>1, <1>2 DEF Holds
<1> QED
  BY <1>3, <1>4 DEF Holds, tl

(* A call that fails: its variable had no live object and is null.         *)
LEMMA FailureHoldsNothing ==
  ASSUME NEW o, NEW sl, NEW us, NEW out \in DOMAIN sl,
         Holds(o, sl, us), us \subseteq DOMAIN sl,
         out \in us => sl[out] = Null
  PROVE  Holds(o, [sl EXCEPT ![out] = Null], us \cup {out})
<1> DEFINE tl == [sl EXCEPT ![out] = Null]
           vs == us \cup {out}
<1>1. tl[out] = Null /\ \A s \in us \ {out} : tl[s] = sl[s]
  OBVIOUS
<1> HIDE DEF tl
<1>2. {u \in vs : tl[u] # Null} = {u \in us : sl[u] # Null}
  BY <1>1
<1>3. {tl[s] : s \in {u \in vs : tl[u] # Null}} = {sl[s] : s \in {u \in us : sl[u] # Null}}
  BY <1>1, <1>2
<1>4. \A s, u \in vs : tl[s] # Null /\ tl[s] = tl[u] => s = u
  BY <1>1 DEF Holds
<1> QED
  BY <1>3, <1>4 DEF Holds, tl

(* When objects are destroyed and variables give up or hand on what they   *)
(* hold, what is left is held if nothing destroyed is and nothing alive is *)
(* lost.                                                                   *)
HandsOn(D, sl, us, tl, vs) ==
  /\ \A u \in vs : tl[u] # Null => tl[u] \notin D /\ \E s \in us : sl[s] = tl[u]
  /\ \A s \in us : sl[s] # Null /\ sl[s] \notin D => \E u \in vs : tl[u] = sl[s]
  /\ \A s, u \in vs : tl[s] # Null /\ tl[s] = tl[u] => s = u

(* Objects destroyed and variables handed on that way leave exactly the    *)
(* live objects held.                                                      *)
LEMMA HandedOn ==
  ASSUME NEW o, NEW p, NEW D, NEW sl, NEW us, NEW tl, NEW vs,
         Holds(o, sl, us),
         Live(p) = Live(o) \ D,
         HandsOn(D, sl, us, tl, vs)
  PROVE  Holds(p, tl, vs)
<1>1. {tl[s] : s \in {u \in vs : tl[u] # Null}} = Live(p)
  <2>1. ASSUME NEW u \in vs, tl[u] # Null
        PROVE  tl[u] \in Live(p)
    <3>1. PICK s \in us : sl[s] = tl[u]
      BY <2>1 DEF HandsOn
    <3> QED
      BY <2>1, <3>1 DEF Holds, HandsOn
  <2>2. ASSUME NEW h \in Live(p)
        PROVE  \E u \in vs : tl[u] # Null /\ tl[u] = h
    <3>1. PICK s \in us : sl[s] = h /\ sl[s] # Null
      BY DEF Holds
    <3> QED
      BY <3>1 DEF HandsOn
  <2> QED
    BY <2>1, <2>2
<1> QED
  BY <1>1 DEF Holds, HandsOn

(* In particular when variables S give up what they hold                   *)
GivesUp(S, D, sl, us, tl, vs) ==
  /\ D = {sl[s] : s \in S}
  /\ S \subseteq us /\ vs \subseteq us
  /\ \A s \in vs : tl[s] = IF s \in S THEN Null ELSE sl[s]
  /\ \A s \in us \ vs : s \in S \/ sl[s] = Null

(* Giving up what is destroyed, and nothing else, is such a handing on.    *)
LEMMA GivenUp ==
  ASSUME NEW o, NEW p, NEW D, NEW sl, NEW us, NEW tl, NEW vs, NEW S,
         Holds(o, sl, us),
         Live(p) = Live(o) \ D,
         GivesUp(S, D, sl, us, tl, vs)
  PROVE  Holds(p, tl, vs)
<1>1. \A u \in vs : tl[u] # Null => tl[u] \notin D /\ \E s \in us : sl[s] = tl[u]
  BY DEF Holds, GivesUp
<1>2. \A s \in us : sl[s] # Null /\ sl[s] \notin D => \E u \in vs : tl[u] = sl[s]
  BY DEF GivesUp
<1>3. \A s, u \in vs : tl[s] # Null /\ tl[s] = tl[u] => s = u
  BY DEF Holds, GivesUp
<1>4. HandsOn(D, sl, us, tl, vs)
  BY <1>1, <1>2, <1>3 DEF HandsOn
<1> QED
  BY <1>4, HandedOn

-----------------------------------------------------------------------------
(* The program's state, whichever program it is *)

HeldState ==
  /\ Records(objects)
  /\ DOMAIN slot = Slots
  /\ usable \subseteq Slots
  /\ Holds(objects, slot, usable)

(* The property is Holds of the program's own objects and variables.       *)
LEMMA HeldIsHolds == LiveExactlyWhileHeld <=> Holds(objects, slot, usable)
  BY DEF LiveExactlyWhileHeld, Holds, Live, LiveHandles, Held

(* A call through a variable without a live object keeps what is held, and *)
(* writes that variable only.                                              *)
LEMMA ReturnHolds ==
  ASSUME HeldState,
         NEW t, NEW out \in Slots \cup {Null}, NEW kind, NEW outcomes,
         out \in usable => slot[out] = Null,
         Return(t, out, kind, outcomes)
  PROVE  /\ HeldState'
         /\ usable' = usable \cup ({out} \ {Null})
         /\ \A s \in Slots \ {out} : slot'[s] = slot[s]
         /\ \E id, status :
              /\ last' = [last EXCEPT ![t] = [id |-> id, status |-> status]]
              /\ status # "OK" /\ out \in Slots => slot'[out] = Null
<1>1. PICK r \in IF out = Null THEN Invalid ELSE outcomes :
        /\ last' = [last EXCEPT ![t] = [id |-> calls', status |-> r.status]]
        /\ WriteOut(out, r)
        /\ IF r.status = "OK"
           THEN objects' = New(kind, r.value)
           ELSE objects' = objects
  BY DEF Return
<1>2. usable' = usable \cup ({out} \ {Null})
  BY DEF Return
<1>3. CASE out = Null
  <2>1. r.status # "OK"
    BY <1>1, <1>3 DEF Invalid, Fails
  <2> QED
    BY <1>1, <1>2, <1>3, <2>1, SlotsAssumption DEF HeldState, WriteOut
<1>4. CASE out # Null /\ r.status = "OK"
  <2>1. /\ slot' = [slot EXCEPT ![out] = Len(objects) + 1]
        /\ usable' = usable \cup {out}
        /\ objects' = Append(objects, [kind |-> kind, live |-> TRUE, value |-> r.value])
    BY <1>1, <1>2, <1>4 DEF WriteOut, New
  <2>2. /\ Records(objects')
        /\ Live(objects') = Live(objects) \cup {Len(objects) + 1}
        /\ Len(objects) + 1 \in Nat /\ Len(objects) + 1 \notin DOMAIN objects
    BY <2>1, Appended DEF HeldState
  <2>3. Holds(objects', slot', usable')
    BY <1>4, <2>1, <2>2, CreatedIsHeld, SlotsAssumption DEF HeldState
  <2> QED
    BY <1>1, <1>4, <2>1, <2>2, <2>3 DEF HeldState
<1>5. CASE out # Null /\ r.status # "OK"
  <2>1. /\ slot' = [slot EXCEPT ![out] = Null]
        /\ usable' = usable \cup {out}
        /\ objects' = objects
    BY <1>1, <1>2, <1>5 DEF WriteOut
  <2>2. Holds(objects', slot', usable')
    BY <1>5, <2>1, FailureHoldsNothing DEF HeldState
  <2>3. HeldState'
    BY <1>5, <2>1, <2>2 DEF HeldState
  <2>4. slot'[out] = Null /\ \A s \in Slots \ {out} : slot'[s] = slot[s]
    BY <1>5, <2>1 DEF HeldState
  <2> QED
    BY <1>1, <1>2, <2>3, <2>4
<1> QED
  BY <1>3, <1>4, <1>5

(* So does giving up what variables S hold.                                *)
LEMMA DropHolds ==
  ASSUME HeldState,
         NEW S \in SUBSET usable,
         Drop(S)
  PROVE  /\ HeldState'
         /\ usable' = usable
         /\ \A s \in Slots : slot'[s] = IF s \in S THEN Null ELSE slot[s]
<1>0. PICK D : D = {slot[s] : s \in S}
  OBVIOUS
<1>1. /\ objects' = Without(objects, D)
      /\ slot' = [s \in Slots |-> IF s \in S THEN Null ELSE slot[s]]
      /\ usable' = usable
  BY <1>0 DEF Drop, Destroyed, Without
<1>2. Records(objects') /\ Live(objects') = Live(objects) \ D
  BY <1>1, Dropped DEF HeldState
<1>3. \A s \in Slots : slot'[s] = IF s \in S THEN Null ELSE slot[s]
  BY <1>1
<1>4. Holds(objects', slot', usable')
  <2>1. GivesUp(S, D, slot, usable, slot', usable')
    BY <1>0, <1>1, <1>3 DEF HeldState, GivesUp
  <2> QED
    BY <1>2, <2>1, GivenUp DEF HeldState
<1> QED
  BY <1>1, <1>2, <1>3, <1>4 DEF HeldState

(* And giving a variable a new object in the place of the one it held.     *)
LEMMA PutHolds ==
  ASSUME HeldState,
         NEW x \in usable, NEW kind,
         Put(x, kind)
  PROVE  /\ HeldState'
         /\ usable' = usable
         /\ \A s \in Slots \ {x} : slot'[s] = slot[s]
<1>1. PICK D : D = {slot[x]}
  OBVIOUS
<1>2. PICK o : o = Without(objects, D)
  OBVIOUS
<1>3. PICK sl : sl = [slot EXCEPT ![x] = Null]
  OBVIOUS
<1>4. /\ objects' = Append(o, [kind |-> kind, live |-> TRUE, value |-> Null])
      /\ slot' = [slot EXCEPT ![x] = Len(objects) + 1]
      /\ usable' = usable
  BY <1>1, <1>2 DEF Put, Destroyed, Without
<1>5. Records(o) /\ Live(o) = Live(objects) \ D /\ Len(o) = Len(objects)
  BY <1>2, Dropped DEF HeldState
<1>6. PICK S : S = {x}
  OBVIOUS
<1>7. Holds(o, sl, usable)
  <2>1. GivesUp(S, D, slot, usable, sl, usable)
    BY <1>1, <1>3, <1>6 DEF HeldState, GivesUp
  <2> QED
    BY <1>5, <2>1, GivenUp DEF HeldState
<1>8. /\ Records(objects')
      /\ Live(objects') = Live(o) \cup {Len(o) + 1}
      /\ Len(o) + 1 \in Nat /\ Len(o) + 1 \notin DOMAIN o
  BY <1>4, <1>5, Appended
<1>9. /\ slot' = [sl EXCEPT ![x] = Len(o) + 1]
      /\ usable' = usable \cup {x}
      /\ DOMAIN sl = Slots /\ sl[x] = Null /\ x \in Slots
  BY <1>3, <1>4, <1>5 DEF HeldState
<1>10. Holds(objects', slot', usable')
  BY <1>7, <1>8, <1>9, CreatedIsHeld, SlotsAssumption DEF HeldState
<1> QED
  BY <1>4, <1>8, <1>9, <1>10 DEF HeldState

-----------------------------------------------------------------------------
(* What each program's variables hold *)

(* le-cli's main has not yet created, or has already closed, these.        *)
Opening == {"arguments", "open", "text", "create"}
Loading == Opening \cup {"open_artifact", "artifact_data", "read", "unread", "load"}
Running == Loading \cup {"run"}

StagedSlots ==
  program = "le-cli" =>
    /\ stage # "exited" => usable = Named
    /\ stage \in Opening => slot["runtime"] = Null
    /\ stage \in Loading => slot["model"] = Null
    /\ stage \in Running => slot["analysis"] = Null /\ slot["result"] = Null
    /\ stage \in Running \cup {"signals"} => slot["signals"] = Null
    /\ stage \notin {"artifact_data", "read", "unread", "exited"} => slot["artifact_input"] = Null

(* A thread of a binding's host has a local handle only after its native   *)
(* call, and until it has taken the object over.                           *)
BoundSlots ==
  program = "binding" =>
    /\ doing \in [Threads -> Operations \cup {Null}]
    /\ DOMAIN last = Threads
    /\ Named \subseteq usable
    /\ \A t \in Threads :
         /\ t \in usable /\ slot[t] # Null => doing[t] # Null /\ doing[t].step = "take"
         /\ doing[t] # Null /\ doing[t].step = "take" => t \in usable

HandlesInv == HeldState /\ StagedSlots /\ BoundSlots

(* Every step of a C program keeps the handles: calls made into its        *)
(* variables, and the destroys.                                            *)
LEMMA CKeepsHandles ==
  ASSUME HandlesInv, program = "c", program' = program, CNext(Me)
  PROVE  HandlesInv'
<1>1. Kinds \subseteq Slots
  BY DEF Slots, Named
<1> SUFFICES HeldState'
  BY DEF HandlesInv, StagedSlots, BoundSlots
<1>2. ASSUME NEW kind \in Kinds, NEW outcomes, Create(Me, kind, outcomes)
      PROVE  HeldState'
  BY <1>1, <1>2, ReturnHolds DEF Create, MayWrite, HandlesInv
<1>3. CASE CreateRuntime(Me)
  BY <1>2, <1>3 DEF CreateRuntime, Kinds
<1>4. CASE LoadModel(Me)
  BY <1>2, <1>4 DEF LoadModel, Kinds
<1>5. CASE AnalyzeText(Me)
  BY <1>2, <1>5 DEF AnalyzeText, Kinds
<1>6. CASE GenerateSignals(Me)
  BY <1>2, <1>6 DEF GenerateSignals, Kinds
<1>7. CASE EmphasizeSignals(Me)
  BY <1>2, <1>7 DEF EmphasizeSignals, Kinds
<1>8. CASE ProcessText(Me)
  BY <1>2, <1>8 DEF ProcessText, Kinds
<1>9. CASE CallWithoutOut(Me)
  BY <1>9, ReturnHolds, SlotsAssumption DEF CallWithoutOut, HandlesInv, HeldState
<1>10. CASE DestroyOne(Me)
  <2>1. PICK k \in usable :
          /\ objects' = Without(objects, {slot[k]})
          /\ usable' = usable \ {k}
          /\ slot' = slot
    BY <1>10 DEF DestroyOne, MayPass, Destroy, Destroyed, Without
  <2>2. PICK S : S = {k}
    OBVIOUS
  <2>3. PICK D : D = {slot[k]}
    OBVIOUS
  <2>4. Records(objects') /\ Live(objects') = Live(objects) \ D
    BY <2>1, <2>3, Dropped DEF HandlesInv, HeldState
  <2>5. Holds(objects', slot', usable')
    <3>1. GivesUp(S, D, slot, usable, slot', usable')
      BY <2>1, <2>2, <2>3 DEF HandlesInv, HeldState, GivesUp
    <3> QED
      BY <2>4, <3>1, GivenUp DEF HandlesInv, HeldState
  <2> QED
    BY <2>1, <2>4, <2>5 DEF HandlesInv, HeldState
<1> QED
  BY <1>3, <1>4, <1>5, <1>6, <1>7, <1>8, <1>9, <1>10 DEF CNext

(* The steps of le-cli that neither allocate nor free keep the handles.    *)
LEMMA ParsingKeepsHandles ==
  ASSUME HandlesInv, program = "le-cli", program' = program, UNCHANGED bindingVars,
         UNCHANGED apiVars,
         \/ TakeArgument \/ ArgumentsDone \/ PrintStage
  PROVE  HandlesInv'
<1>1. HeldState'
  BY DEF HandlesInv, HeldState, apiVars
<1>2. \/ stage' = "exited"
      \/ stage \in {"arguments", "print"} /\ stage' = stage
      \/ stage = "arguments" /\ stage' = "open"
      \/ stage = "print" /\ stage' = "cleanup"
  BY Zenon DEF TakeArgument, ArgumentsDone, PrintStage, ReturnNow, Take, Go, At
<1>3. StagedSlots'
  BY <1>2 DEF HandlesInv, StagedSlots, Opening, Loading, Running, apiVars
<1> QED
  BY <1>1, <1>3 DEF HandlesInv, BoundSlots

(* A stage that puts a file or buffer in place, or reads on                *)
LEMMA ReadingKeepsHandles ==
  ASSUME HandlesInv, program = "le-cli", program' = program, UNCHANGED bindingVars,
         OpenInput \/ ReadInput \/ OpenArtifact \/ ReadArtifact
  PROVE  HandlesInv'
<1> DEFINE Files == {"input", "text", "artifact_input", "artifact_data"}
           Turns == {<<"open", "text">>, <<"open", "exited">>, <<"text", "text">>,
                     <<"text", "cleanup">>, <<"text", "create">>,
                     <<"open_artifact", "artifact_data">>, <<"open_artifact", "cleanup">>,
                     <<"artifact_data", "artifact_data">>, <<"artifact_data", "unread">>,
                     <<"artifact_data", "read">>}
           Touched == IF stage = "open" THEN "input"
                      ELSE IF stage = "open_artifact" THEN "artifact_input" ELSE stage
           Moves == /\ HeldState'
                    /\ usable' = usable
                    /\ \A s \in Slots : s # Touched => slot'[s] = slot[s]
           Puts(s, kind) == Put(s, kind) /\ s = Touched
           Drops(s) == Drop({s}) /\ s = Touched
<1>1. /\ <<stage, stage'>> \in Turns
      /\ \/ \E s \in Files, kind \in {"file", "buffer"} : Puts(s, kind)
         \/ \E s \in Files : Drops(s)
         \/ UNCHANGED apiVars
      /\ <<stage, stage'>> = <<"open_artifact", "cleanup">> => UNCHANGED apiVars
  <2> USE DEF At, Go, ReturnNow
  <2>1. CASE OpenInput
    BY <2>1 DEF OpenInput
  <2>2. CASE OpenArtifact
    BY <2>2 DEF OpenArtifact
  <2>3. CASE ReadInput
    BY <2>3 DEF ReadInput, Allocate, Grow, ReadFails, ReadDone, lineVars
  <2>4. CASE ReadArtifact
    BY <2>4 DEF ReadArtifact, Allocate, Grow, ReadFails, ReadDone, lineVars
  <2> QED
    BY <2>1, <2>2, <2>3, <2>4
<1>2. usable = Named /\ Files \subseteq Named /\ Named \subseteq Slots
  BY <1>1 DEF HandlesInv, StagedSlots, Named, Slots
<1>3. Moves
  <2>1. CASE \E s \in Files, kind \in {"file", "buffer"} : Puts(s, kind)
    <3>1. PICK s \in Files, kind \in {"file", "buffer"} : Put(s, kind) /\ s = Touched
      BY <2>1
    <3> HIDE DEF Touched, Files
    <3> QED
      BY <1>2, <3>1, PutHolds DEF HandlesInv
  <2>2. CASE \E s \in Files : Drops(s)
    <3>1. PICK s \in Files : Drop({s}) /\ s = Touched
      BY <2>2
    <3>2. PICK S : S = {s}
      OBVIOUS
    <3> HIDE DEF Touched, Files
    <3>3. S \in SUBSET usable /\ Drop(S)
      BY <1>2, <3>1, <3>2
    <3>4. /\ HeldState'
          /\ usable' = usable
          /\ \A x \in Slots : slot'[x] = IF x \in S THEN Null ELSE slot[x]
      BY <3>3, DropHolds DEF HandlesInv
    <3> QED
      BY <3>1, <3>2, <3>4
  <2>3. CASE UNCHANGED apiVars
    BY <2>3 DEF HandlesInv, HeldState, apiVars
  <2> QED
    BY <1>1, <2>1, <2>2, <2>3
<1>4. StagedSlots'
  <2>1. {"runtime", "model", "analysis", "result", "signals", "artifact_input"} \subseteq Slots
    BY DEF Slots, Named, Kinds
  <2>2. stage' = "cleanup" \/ stage' # "cleanup"
    OBVIOUS
  <2> QED
    BY <1>1, <1>2, <1>3, <2>1 DEF HandlesInv, StagedSlots, Opening, Loading, Running, apiVars
<1> QED
  BY <1>3, <1>4 DEF HandlesInv, BoundSlots

(* A stage that calls the ABI: its variable holds nothing yet.             *)
LEMMA CallingKeepsHandles ==
  ASSUME HandlesInv, program = "le-cli", program' = program, UNCHANGED bindingVars,
         CreateRuntimeHandle \/ LoadArtifact \/ RunStage \/ DumpSignals
  PROVE  HandlesInv'
<1> DEFINE Calls == {<<"create", "runtime", "open_artifact">>, <<"create", "runtime", "run">>,
                     <<"load", "model", "run">>, <<"run", "analysis", "signals">>,
                     <<"run", "analysis", "print">>, <<"run", "result", "print">>,
                     <<"signals", "signals", "print">>}
<1>1. \E c \in Calls : stage = c[1] /\ \E outcomes : CallThen(c[2], outcomes, c[3])
  <2>1. CASE CreateRuntimeHandle
    BY <2>1 DEF CreateRuntimeHandle, At
  <2>2. CASE LoadArtifact
    BY <2>2 DEF LoadArtifact, At
  <2>3. CASE RunStage
    BY <2>3 DEF RunStage, At
  <2>4. CASE DumpSignals
    BY <2>4 DEF DumpSignals, At
  <2> QED
    BY <2>1, <2>2, <2>3, <2>4
<1>2. PICK c \in Calls : stage = c[1] /\ \E outcomes : CallThen(c[2], outcomes, c[3])
  BY <1>1
<1>3. /\ stage' \in {c[3], "cleanup"}
      /\ \E outcomes : Return(Me, c[2], c[2], outcomes)
  BY <1>2 DEF CallThen
<1>4. c[2] \in Named /\ slot[c[2]] = Null /\ usable = Named /\ Named \subseteq Slots
  BY <1>2 DEF HandlesInv, StagedSlots, Opening, Loading, Running, Named, Kinds, Slots
<1>5. /\ HeldState'
      /\ usable' = usable
      /\ \A s \in Slots \ {c[2]} : slot'[s] = slot[s]
  <2>1. PICK k : k = c[2]
    OBVIOUS
  <2>2. /\ HeldState'
        /\ usable' = usable \cup ({k} \ {Null})
        /\ \A s \in Slots \ {k} : slot'[s] = slot[s]
    BY <1>3, <1>4, <2>1, ReturnHolds DEF HandlesInv
  <2> QED
    BY <1>4, <2>1, <2>2
<1>6. StagedSlots'
  <2>1. {"runtime", "model", "analysis", "result", "signals", "artifact_input"} \subseteq Slots
    BY DEF Slots, Named, Kinds
  <2> QED
    BY <1>2, <1>3, <1>4, <1>5, <2>1
       DEF HandlesInv, StagedSlots, Opening, Loading, Running
<1> QED
  BY <1>5, <1>6 DEF HandlesInv, BoundSlots

(* The artifact's file is closed, and in the end everything is given up.   *)
LEMMA ClosingKeepsHandles ==
  ASSUME HandlesInv, program = "le-cli", program' = program, UNCHANGED bindingVars,
         CloseArtifact \/ Cleanup
  PROVE  HandlesInv'
<1>1. Named \subseteq Slots /\ "artifact_input" \in Named
  BY DEF Slots, Named
<1>2. CASE CloseArtifact
  <2>1. PICK S : S = {"artifact_input"}
    OBVIOUS
  <2>2. /\ stage \in {"read", "unread"}
        /\ stage' \in {"load", "cleanup"}
        /\ stage = "read" => stage' = "load"
        /\ stage = "unread" => stage' = "cleanup"
        /\ Drop(S)
    BY <1>2, <2>1 DEF CloseArtifact, Go, At
  <2>3. usable = Named
    BY <2>2 DEF HandlesInv, StagedSlots
  <2>4. /\ HeldState'
        /\ usable' = usable
        /\ \A s \in Slots : slot'[s] = IF s \in S THEN Null ELSE slot[s]
    BY <1>1, <2>1, <2>2, <2>3, DropHolds DEF HandlesInv
  <2>5. {"runtime", "model", "analysis", "result", "signals", "artifact_input"} \subseteq Slots
    BY DEF Slots, Named, Kinds
  <2>6. StagedSlots'
    BY <2>1, <2>2, <2>3, <2>4, <2>5 DEF HandlesInv, StagedSlots, Opening, Loading, Running
  <2> QED
    BY <2>4, <2>6 DEF HandlesInv, BoundSlots
<1>3. CASE Cleanup
  <2>1. PICK S : S = {"signals", "analysis", "result", "model", "runtime",
                      "artifact_data", "text", "input"}
    OBVIOUS
  <2>2. PICK D : D = {slot[s] : s \in S}
    OBVIOUS
  <2>3. /\ stage = "cleanup" /\ stage' = "exited"
        /\ objects' = Without(objects, D)
        /\ usable' = {}
        /\ slot' = slot
    BY <1>3, <2>1, <2>2 DEF Cleanup, At, Go, Destroyed, Without
  <2>4. usable = Named /\ slot["artifact_input"] = Null
    BY <2>3 DEF HandlesInv, StagedSlots, Opening, Loading, Running
  <2>5. Named = S \cup {"artifact_input"}
    BY <2>1 DEF Named, Kinds
  <2>6. Records(objects') /\ Live(objects') = Live(objects) \ D
    BY <2>3, Dropped DEF HandlesInv, HeldState
  <2>7. Holds(objects', slot', usable')
    <3>1. GivesUp(S, D, slot, usable, slot', usable')
      BY <2>2, <2>3, <2>4, <2>5 DEF GivesUp
    <3> QED
      BY <2>6, <3>1, GivenUp DEF HandlesInv, HeldState
  <2>8. HeldState'
    BY <2>3, <2>6, <2>7 DEF HandlesInv, HeldState
  <2> QED
    BY <2>3, <2>8 DEF HandlesInv, BoundSlots, StagedSlots, Opening, Loading, Running
<1> QED
  BY <1>2, <1>3

(* A step of a binding's host moves no other thread's operation or local.  *)
LEMMA BystandersStayBound ==
  ASSUME HandlesInv, program = "binding", program' = program,
         NEW t \in Threads, NEW d \in Operations \cup {Null},
         doing' = [doing EXCEPT ![t] = d], DOMAIN last' = Threads,
         usable \subseteq usable', usable' \subseteq usable \cup Named \cup {t},
         \A u \in Threads \ {t} : slot'[u] = slot[u],
         t \in usable' /\ slot'[t] # Null => d # Null /\ d.step = "take",
         d # Null /\ d.step = "take" => t \in usable'
  PROVE  BoundSlots'
<1>1. /\ doing \in [Threads -> Operations \cup {Null}]
      /\ Named \subseteq usable
      /\ \A u \in Threads :
           /\ u \in usable /\ slot[u] # Null => doing[u] # Null /\ doing[u].step = "take"
           /\ doing[u] # Null /\ doing[u].step = "take" => u \in usable
  BY DEF HandlesInv, BoundSlots
<1>2. doing'[t] = d /\ \A u \in Threads \ {t} : doing'[u] = doing[u]
  BY <1>1
<1>3. \A u \in Threads \ {t} : u \in usable' <=> u \in usable
  BY SlotsAssumption
<1>4. doing' \in [Threads -> Operations \cup {Null}]
  BY <1>1
<1>5. ASSUME NEW u \in Threads
      PROVE  /\ u \in usable' /\ slot'[u] # Null => doing'[u] # Null /\ doing'[u].step = "take"
             /\ doing'[u] # Null /\ doing'[u].step = "take" => u \in usable'
  <2>1. CASE u = t
    BY <1>2, <2>1
  <2>2. CASE u # t
    BY <1>1, <1>2, <1>3, <2>2
  <2> QED
    BY <2>1, <2>2
<1> QED
  BY <1>1, <1>4, <1>5 DEF BoundSlots

(* The handle an operation takes is that of an object.                     *)
LEMMA RuntimeIsAnObject ==
  ASSUME HeldState, Named \subseteq usable, slot["runtime"] # Null
  PROVE  slot["runtime"] \in Nat
<1>1. slot["runtime"] \in DOMAIN objects
  BY DEF HeldState, Holds, Live, Named, Kinds
<1>2. DOMAIN objects \subseteq Nat
  BY DEF HeldState, Records
<1> QED
  BY <1>1, <1>2

(* Every step of a thread of a binding keeps the handles: an operation's   *)
(* handle is the thread's own, the Runtime and the Model are shared.       *)
LEMMA BindingKeepsHandles ==
  ASSUME HandlesInv, program = "binding", program' = program,
         NEW t \in Threads, BindingNext(t)
  PROVE  HandlesInv'
<1> SUFFICES HeldState' /\ BoundSlots'
  BY DEF HandlesInv, StagedSlots
<1>1. /\ HeldState
      /\ DOMAIN slot = Slots /\ usable \subseteq Slots /\ Holds(objects, slot, usable)
      /\ doing \in [Threads -> Operations \cup {Null}]
      /\ DOMAIN last = Threads
      /\ Named \subseteq usable
      /\ t \in usable /\ slot[t] # Null => doing[t] # Null /\ doing[t].step = "take"
      /\ doing[t] # Null /\ doing[t].step = "take" => t \in usable
  BY DEF HandlesInv, HeldState, BoundSlots
<1>2. /\ Named \subseteq Slots /\ t \in Slots /\ t \notin Named
      /\ "runtime" \in Named /\ "model" \in Named
  BY SlotsAssumption DEF Slots, Named, Kinds
<1>3. CASE NewRuntime(t)
  <2>1. /\ doing[t] = Null /\ slot["runtime"] = Null /\ doing' = doing
        /\ \E outcomes : Return(t, "runtime", "runtime", outcomes)
    BY <1>3 DEF NewRuntime, Idle
  <2>2. /\ HeldState'
        /\ usable' = usable \cup ({"runtime"} \ {Null})
        /\ \A s \in Slots \ {"runtime"} : slot'[s] = slot[s]
        /\ \E r : last' = [last EXCEPT ![t] = r]
    <3>1. PICK k : k = "runtime"
      OBVIOUS
    <3>2. /\ HeldState
          /\ k \in Slots \cup {Null}
          /\ k \in usable => slot[k] = Null
          /\ \E outcomes : Return(t, k, k, outcomes)
      BY <1>1, <1>2, <2>1, <3>1
    <3> QED
      BY <3>1, <3>2, ReturnHolds
  <2>3. doing' = [doing EXCEPT ![t] = Null]
    BY <1>1, <2>1
  <2>4. \A u \in Threads : u \in Slots \ {"runtime"}
    BY <1>2, SlotsAssumption DEF Slots
  <2>5. /\ usable' = usable /\ DOMAIN last' = Threads
        /\ \A u \in Threads : slot'[u] = slot[u]
        /\ t \in usable => slot[t] = Null
    BY <1>1, <1>2, <2>1, <2>2, <2>4
  <2>6. PICK d : d = Null
    OBVIOUS
  <2>7. BoundSlots'
    BY <2>1, <2>3, <2>5, <2>6, BystandersStayBound
  <2> QED
    BY <2>2, <2>7
<1>4. ASSUME NEW job \in Jobs, Begin(t, job)
      PROVE  HeldState' /\ BoundSlots'
  <2>1. HeldState'
    BY <1>1, <1>4 DEF Begin, HeldState, apiVars
  <2>2. usable' = usable /\ slot' = slot /\ doing[t] = Null
    BY <1>4 DEF Begin, apiVars, Idle
  <2>5. DOMAIN last' = Threads
    BY <1>1, <1>4 DEF Begin, apiVars
  <2>3. PICK d \in Operations \cup {Null} :
          /\ doing' = [doing EXCEPT ![t] = d]
          /\ d # Null => d.step = "call"
    <3>1. CASE Refused(job)
      BY <1>1, <1>4, <2>2, <3>1 DEF Begin
    <3>2. CASE ~Refused(job)
      <4>1. slot["runtime"] # Null
        BY <3>2 DEF Refused
      <4>2. slot["runtime"] \in Nat
        BY <1>1, <4>1, RuntimeIsAnObject
      <4> QED
        BY <1>4, <3>2, <4>2 DEF Begin, Operations
    <3> QED
      BY <3>1, <3>2
  <2>4. BoundSlots'
    BY <1>1, <2>2, <2>3, <2>5, BystandersStayBound
  <2> QED
    BY <2>1, <2>4
<1>5. CASE Native(t)
  <2>1. doing[t] \in Operations /\ doing[t].step = "call" /\ (t \in usable => slot[t] = Null)
    BY <1>1, <1>5 DEF Native, Idle
  <2>2. CASE EndsWithError(t, 0, "refused") /\ UNCHANGED apiVars
    <3>1. HeldState'
      BY <1>1, <2>2 DEF HeldState, apiVars
    <3>2. /\ doing' = [doing EXCEPT ![t] = Null] /\ usable' = usable /\ slot' = slot
          /\ last' = last
      BY <2>2 DEF EndsWithError, apiVars
    <3>3. BoundSlots'
      BY <1>1, <2>1, <3>2, BystandersStayBound
    <3> QED
      BY <3>1, <3>3
  <2>3. CASE /\ \E kind, outcomes : Return(t, t, kind, outcomes)
             /\ doing' = [doing EXCEPT ![t].step =
                            IF last'[t].status = "OK" THEN "take" ELSE "fail"]
    <3>1. PICK kind, outcomes : Return(t, t, kind, outcomes)
      BY <2>3
    <3>2. /\ HeldState'
          /\ usable' = usable \cup ({t} \ {Null})
          /\ \A s \in Slots \ {t} : slot'[s] = slot[s]
          /\ \E id, status :
               /\ last' = [last EXCEPT ![t] = [id |-> id, status |-> status]]
               /\ status # "OK" /\ t \in Slots => slot'[t] = Null
      <4>1. HeldState /\ t \in Slots \cup {Null} /\ (t \in usable => slot[t] = Null)
        BY <1>1, <1>2, <2>1
      <4> QED
        BY <3>1, <4>1, ReturnHolds
    <3>3. PICK d : d = [doing[t] EXCEPT !.step = IF last'[t].status = "OK" THEN "take" ELSE "fail"]
      OBVIOUS
    <3>4. /\ doing' = [doing EXCEPT ![t] = d]
          /\ d \in Operations
          /\ d.step = IF last'[t].status = "OK" THEN "take" ELSE "fail"
      BY <1>1, <2>1, <2>3, <3>3 DEF Operations
    <3>5. t \in usable'
      BY <1>2, <3>2, SlotsAssumption
    <3>6. /\ t \in usable' /\ slot'[t] # Null => d # Null /\ d.step = "take"
          /\ DOMAIN last' = Threads
      <4>1. PICK id, status :
              /\ last' = [last EXCEPT ![t] = [id |-> id, status |-> status]]
              /\ status # "OK" /\ t \in Slots => slot'[t] = Null
        BY <3>2
      <4>2. last'[t].status = status /\ DOMAIN last' = Threads
        BY <1>1, <4>1
      <4> QED
        BY <1>2, <3>4, <4>1, <4>2, OperationsAssumption
    <3>7. BoundSlots'
      BY <1>1, <1>2, <3>2, <3>4, <3>5, <3>6, BystandersStayBound DEF Slots
    <3> QED
      BY <3>2, <3>7
  <2> QED
    BY <1>5, <2>2, <2>3 DEF Native
<1>6. CASE Raise(t)
  <2>1. HeldState'
    BY <1>1, <1>6 DEF Raise, HeldState, apiVars
  <2>2. /\ doing' = [doing EXCEPT ![t] = Null] /\ usable' = usable /\ slot' = slot
        /\ doing[t].step = "fail" /\ last' = last
    BY <1>6 DEF Raise, EndsWithError, apiVars
  <2>3. BoundSlots'
    BY <1>1, <2>2, BystandersStayBound
  <2> QED
    BY <2>1, <2>3
<1>7. CASE CopyResult(t)
  <2>1. PICK S : S = {t}
    OBVIOUS
  <2>2. PICK D : D = {slot[t]}
    OBVIOUS
  <2>3. /\ doing[t] # Null /\ doing[t].step = "take"
        /\ doing' = [doing EXCEPT ![t] = Null]
        /\ objects' = Without(objects, D)
        /\ slot' = [slot EXCEPT ![t] = Null]
        /\ usable' = usable /\ last' = last
    BY <1>7, <2>2 DEF CopyResult, Idle, EndsWell, EndsWithError, Dispose, Destroyed, Without
  <2>4. Records(objects') /\ Live(objects') = Live(objects) \ D
    BY <1>1, <2>3, Dropped DEF HeldState
  <2>5. Holds(objects', slot', usable')
    <3>1. GivesUp(S, D, slot, usable, slot', usable')
      BY <1>1, <1>2, <2>1, <2>2, <2>3 DEF GivesUp
    <3> QED
      BY <1>1, <2>4, <3>1, GivenUp
  <2>6. HeldState'
    BY <1>1, <2>3, <2>4, <2>5 DEF HeldState
  <2>7. slot'[t] = Null /\ \A u \in Threads \ {t} : slot'[u] = slot[u]
    BY <1>1, <1>2, <2>3 DEF Slots
  <2>8. BoundSlots'
    BY <1>1, <2>3, <2>7, BystandersStayBound
  <2> QED
    BY <2>6, <2>8
<1>8. CASE WrapModel(t)
  <2>1. PICK D : D = {slot["model"]}
    OBVIOUS
  <2>2. /\ doing[t] # Null /\ doing[t].step = "take"
        /\ doing' = [doing EXCEPT ![t] = Null]
        /\ objects' = Without(objects, D)
        /\ slot' = [slot EXCEPT !["model"] = slot[t], ![t] = Null]
        /\ usable' = usable /\ last' = last
    BY <1>8, <2>1 DEF WrapModel, Idle, EndsWell, Dispose, Destroyed, Without
  <2>3. Records(objects') /\ Live(objects') = Live(objects) \ D
    BY <1>1, <2>2, Dropped DEF HeldState
  <2>4. /\ slot'["model"] = slot[t] /\ slot'[t] = Null
        /\ \A s \in Slots \ {t, "model"} : slot'[s] = slot[s]
        /\ t \in usable /\ "model" \in usable
    BY <1>1, <1>2, <2>2
  <2>5. HandsOn(D, slot, usable, slot', usable)
    <3>1. \A s, u \in usable : slot[s] # Null /\ slot[s] = slot[u] => s = u
      BY <1>1 DEF Holds
    <3>2. ASSUME NEW u \in usable, slot'[u] # Null
          PROVE  slot'[u] \notin D /\ \E s \in usable : slot[s] = slot'[u]
      <4>1. CASE u = "model"
        BY <1>2, <2>1, <2>4, <3>1, <3>2, <4>1
      <4>2. CASE u \notin {t, "model"}
        BY <1>1, <2>1, <2>4, <3>1, <3>2, <4>2
      <4> QED
        BY <2>4, <3>2, <4>1, <4>2
    <3>3. ASSUME NEW s \in usable, slot[s] # Null, slot[s] \notin D
          PROVE  \E u \in usable : slot'[u] = slot[s]
      BY <1>1, <2>1, <2>4, <3>3
    <3>4. ASSUME NEW s \in usable, NEW u \in usable, slot'[s] # Null, slot'[s] = slot'[u]
          PROVE  s = u
      <4>1. s \in Slots /\ u \in Slots
        BY <1>1
      <4> QED
        BY <1>2, <2>4, <3>1, <3>4, <4>1
    <3> QED
      BY <3>2, <3>3, <3>4 DEF HandsOn
  <2>6. Holds(objects', slot', usable)
    BY <1>1, <2>3, <2>5, HandedOn
  <2>7. HeldState'
    BY <1>1, <2>2, <2>3, <2>6 DEF HeldState
  <2>8. \A u \in Threads \ {t} : slot'[u] = slot[u]
    BY <2>4, <1>2, SlotsAssumption DEF Slots
  <2>9. BoundSlots'
    BY <1>1, <2>2, <2>4, <2>8, BystandersStayBound
  <2> QED
    BY <2>7, <2>9
<1>9. ASSUME NEW kind \in {"runtime", "model"}, Close(t, kind)
      PROVE  HeldState' /\ BoundSlots'
  <2>1. PICK S : S = {kind}
    OBVIOUS
  <2>2. PICK D : D = {slot[kind]}
    OBVIOUS
  <2>3. /\ doing' = doing /\ doing[t] = Null
        /\ objects' = Without(objects, D)
        /\ slot' = [slot EXCEPT ![kind] = Null]
        /\ usable' = usable /\ last' = last
    BY <1>9, <2>2 DEF Close, Idle, Dispose, Destroyed, Without, bindingVars
  <2>4. Records(objects') /\ Live(objects') = Live(objects) \ D
    BY <1>1, <2>3, Dropped DEF HeldState
  <2>5. Holds(objects', slot', usable')
    <3>1. GivesUp(S, D, slot, usable, slot', usable')
      BY <1>1, <1>2, <2>1, <2>2, <2>3 DEF GivesUp
    <3> QED
      BY <1>1, <2>4, <3>1, GivenUp
  <2>6. HeldState'
    BY <1>1, <2>3, <2>4, <2>5 DEF HeldState
  <2>7. \A u \in Threads : slot'[u] = slot[u]
    BY <1>1, <1>2, <2>3, SlotsAssumption DEF Slots
  <2>8. doing' = [doing EXCEPT ![t] = Null]
    BY <1>1, <2>3
  <2>9. BoundSlots'
    BY <1>1, <2>3, <2>7, <2>8, BystandersStayBound
  <2> QED
    BY <2>6, <2>9
<1> QED
  BY <1>3, <1>4, <1>5, <1>6, <1>7, <1>8, <1>9 DEF BindingNext

(* What is held is what is live, in every state of every program, so a     *)
(* destroy function is never handed what is already destroyed and nothing  *)
(* is lost sight of, on the failure paths and in cleanup code too.         *)
LEMMA HandlesHold == Spec => []HandlesInv
<1>1. Init => HandlesInv
  <2> SUFFICES ASSUME Init PROVE HandlesInv
    OBVIOUS
  <2>1. /\ objects = <<>> /\ slot = [s \in Slots |-> Null] /\ usable = Slots \ Threads
        /\ last = [t \in Threads |-> [id |-> 0, status |-> "OK"]]
        /\ doing = [t \in Threads |-> Null]
    BY DEF Init, ApiInit, BindingInit
  <2>2. Records(objects)
    BY <2>1 DEF Records
  <2>3. Live(objects) = {}
    BY <2>1 DEF Live
  <2>4. usable = Named
    BY <2>1, SlotsAssumption DEF Slots
  <2>5. \A s \in usable : slot[s] = Null
    BY <2>1
  <2>6. Holds(objects, slot, usable)
    BY <2>3, <2>5 DEF Holds
  <2>7. HeldState
    BY <2>1, <2>2, <2>6 DEF HeldState
  <2>8. BoundSlots
    BY <2>1, <2>4, SlotsAssumption DEF BoundSlots
  <2>9. StagedSlots
    BY <2>1, <2>4, <2>5 DEF StagedSlots, Named, Kinds
  <2> QED
    BY <2>7, <2>8, <2>9 DEF HandlesInv
<1>2. HandlesInv /\ [Next]_hostVars => HandlesInv'
  <2> SUFFICES ASSUME HandlesInv, [Next]_hostVars PROVE HandlesInv'
    OBVIOUS
  <2>1. CASE UNCHANGED hostVars
    BY <2>1 DEF HandlesInv, HeldState, StagedSlots, BoundSlots, hostVars, apiVars, lineVars,
                bindingVars
  <2>2. CASE program = "c" /\ program' = program /\ CNext(Me)
    BY <2>2, CKeepsHandles
  <2>3. CASE /\ program = "le-cli" /\ program' = program /\ LineNext
             /\ UNCHANGED bindingVars
    <3>1. CASE TakeArgument \/ ArgumentsDone \/ PrintStage
      <4>1. UNCHANGED apiVars
        BY <3>1, Zenon DEF TakeArgument, ArgumentsDone, PrintStage, apiVars
      <4> QED
        BY <2>3, <3>1, <4>1, ParsingKeepsHandles
    <3>2. CASE OpenInput \/ ReadInput \/ OpenArtifact \/ ReadArtifact
      BY <2>3, <3>2, ReadingKeepsHandles
    <3>3. CASE CreateRuntimeHandle \/ LoadArtifact \/ RunStage \/ DumpSignals
      BY <2>3, <3>3, CallingKeepsHandles
    <3>4. CASE CloseArtifact \/ Cleanup
      BY <2>3, <3>4, ClosingKeepsHandles
    <3> QED
      BY <2>3, <3>1, <3>2, <3>3, <3>4 DEF LineNext
  <2>4. CASE /\ program = "binding" /\ program' = program
             /\ \E t \in Threads : BindingNext(t)
    BY <2>4, BindingKeepsHandles
  <2> QED
    BY <2>1, <2>2, <2>3, <2>4 DEF Next
<1> QED
  BY <1>1, <1>2, PTL DEF Spec

(* docs/c-api.md "writes null before failure" and "caller owns": whatever  *)
(* calls a program makes and however they and its files fail, its          *)
(* variables hold exactly the live objects, each of them once.             *)
THEOREM HandlesAreHeld == Spec => []LiveExactlyWhileHeld
<1>1. HandlesInv => LiveExactlyWhileHeld
  BY HeldIsHolds DEF HandlesInv, HeldState
<1> QED
  BY <1>1, HandlesHold, PTL

-----------------------------------------------------------------------------
(* Errors *)

(* An operation that is about to raise does so for its thread's last call, *)
(* and only a binding's host has operations.                               *)
FailingCalls ==
  \A t \in Threads : doing[t] # Null /\ doing[t].step = "fail" => last[t].status # "OK"

ErrorsInv ==
  /\ DOMAIN last = Threads /\ DOMAIN diagnostic = Threads /\ DOMAIN raised = Threads
  /\ doing \in [Threads -> Operations \cup {Null}]
  /\ program # "binding" => \A t \in Threads : doing[t] = Null
  /\ DiagnosticIsOfTheFailure
  /\ RaisedErrorIsOfItsCall
  /\ FailingCalls

(* A call records its diagnostic where only its own thread looks.          *)
LEMMA ReturnRecords ==
  ASSUME DOMAIN last = Threads, DOMAIN diagnostic = Threads, DiagnosticIsOfTheFailure,
         NEW t \in Threads, NEW out, NEW kind, NEW outcomes,
         Return(t, out, kind, outcomes)
  PROVE  /\ DOMAIN last' = Threads /\ DOMAIN diagnostic' = Threads
         /\ DiagnosticIsOfTheFailure'
         /\ \A u \in Threads \ {t} : last'[u] = last[u]
<1>0. PICK r \in IF out = Null THEN Invalid ELSE outcomes :
        /\ last' = [last EXCEPT ![t] = [id |-> calls', status |-> r.status]]
        /\ IF r.status = "OK" THEN diagnostic' = diagnostic
           ELSE diagnostic' = [diagnostic EXCEPT ![t] = calls']
  BY DEF Return, SetError
<1>1. PICK status :
        /\ status = r.status
        /\ last' = [last EXCEPT ![t] = [id |-> calls', status |-> status]]
        /\ IF status = "OK" THEN diagnostic' = diagnostic
           ELSE diagnostic' = [diagnostic EXCEPT ![t] = calls']
  BY <1>0
<1>2. /\ DOMAIN last' = Threads /\ DOMAIN diagnostic' = Threads
      /\ last'[t].status = status /\ last'[t].id = calls'
      /\ \A u \in Threads \ {t} : last'[u] = last[u] /\ diagnostic'[u] = diagnostic[u]
      /\ status # "OK" => diagnostic'[t] = calls'
  BY <1>1
<1>3. DiagnosticIsOfTheFailure'
  BY <1>2 DEF DiagnosticIsOfTheFailure
<1> QED
  BY <1>2, <1>3

(* A call outside an operation of a binding, or no call at all, keeps the  *)
(* errors: it writes the diagnostic of its own thread only.                *)
LEMMA CallsKeepErrors ==
  ASSUME ErrorsInv, program' = program, UNCHANGED bindingVars,
         NEW t \in Threads, doing[t] = Null,
         \/ \E out, kind, outcomes : Return(t, out, kind, outcomes)
         \/ UNCHANGED <<diagnostic, last>>
  PROVE  ErrorsInv'
<1>1. /\ DOMAIN last' = Threads /\ DOMAIN diagnostic' = Threads
      /\ DiagnosticIsOfTheFailure'
      /\ \A u \in Threads \ {t} : last'[u] = last[u]
  <2>1. CASE \E out, kind, outcomes : Return(t, out, kind, outcomes)
    <3>1. PICK out, kind, outcomes : Return(t, out, kind, outcomes)
      BY <2>1
    <3> QED
      BY <3>1, ReturnRecords DEF ErrorsInv
  <2>2. CASE UNCHANGED <<diagnostic, last>>
    BY <2>2 DEF ErrorsInv, DiagnosticIsOfTheFailure
  <2> QED
    BY <2>1, <2>2
<1>2. FailingCalls'
  BY <1>1 DEF ErrorsInv, FailingCalls, bindingVars
<1>3. RaisedErrorIsOfItsCall'
  BY DEF ErrorsInv, RaisedErrorIsOfItsCall, bindingVars
<1> QED
  BY <1>1, <1>2, <1>3 DEF ErrorsInv, bindingVars

(* Every step of a thread of a binding keeps the errors: between the       *)
(* failure and the reading of its diagnostic the thread makes no call.     *)
LEMMA BindingKeepsErrors ==
  ASSUME HandlesInv, ErrorsInv, program = "binding", program' = program,
         NEW t \in Threads, BindingNext(t)
  PROVE  ErrorsInv'
<1>1. /\ DOMAIN last = Threads /\ DOMAIN diagnostic = Threads /\ DOMAIN raised = Threads
      /\ doing \in [Threads -> Operations \cup {Null}]
      /\ DiagnosticIsOfTheFailure
      /\ \A u \in Threads : raised[u] # Null /\ raised[u].id # 0 =>
           raised[u].detail \in {Null, raised[u].id}
      /\ \A u \in Threads :
           doing[u] # Null /\ doing[u].step = "fail" => last[u].status # "OK"
  BY DEF ErrorsInv, RaisedErrorIsOfItsCall, FailingCalls
<1>2. ASSUME NEW d \in Operations \cup {Null},
             doing' = [doing EXCEPT ![t] = d],
             DOMAIN raised' = Threads, \A u \in Threads \ {t} : raised'[u] = raised[u],
             raised'[t] # Null /\ raised'[t].id # 0 => raised'[t].detail \in {Null, raised'[t].id},
             DOMAIN last' = Threads, DOMAIN diagnostic' = Threads,
             DiagnosticIsOfTheFailure',
             \A u \in Threads \ {t} : last'[u] = last[u],
             d # Null /\ d.step = "fail" => last'[t].status # "OK"
      PROVE  ErrorsInv'
  <2>1. /\ doing'[t] = d /\ \A u \in Threads \ {t} : doing'[u] = doing[u]
        /\ doing' \in [Threads -> Operations \cup {Null}]
    BY <1>1, <1>2
  <2>2. RaisedErrorIsOfItsCall'
    <3>1. ASSUME NEW u \in Threads, raised'[u] # Null, raised'[u].id # 0
          PROVE  raised'[u].detail \in {Null, raised'[u].id}
      <4>1. CASE u = t
        BY <1>2, <3>1, <4>1
      <4>2. CASE u # t
        BY <1>1, <1>2, <3>1, <4>2
      <4> QED
        BY <4>1, <4>2
    <3> QED
      BY <3>1 DEF RaisedErrorIsOfItsCall
  <2>3. FailingCalls'
    <3>1. ASSUME NEW u \in Threads, doing'[u] # Null, doing'[u].step = "fail"
          PROVE  last'[u].status # "OK"
      <4>1. CASE u = t
        BY <1>2, <2>1, <3>1, <4>1
      <4>2. CASE u # t
        BY <1>1, <1>2, <2>1, <3>1, <4>2
      <4> QED
        BY <4>1, <4>2
    <3> QED
      BY <3>1 DEF FailingCalls
  <2> QED
    BY <1>2, <2>1, <2>2, <2>3 DEF ErrorsInv
<1>3. ASSUME NEW d \in Operations \cup {Null},
             doing' = [doing EXCEPT ![t] = d],
             DOMAIN raised' = Threads, \A u \in Threads \ {t} : raised'[u] = raised[u],
             raised'[t] # Null /\ raised'[t].id # 0 => raised'[t].detail \in {Null, raised'[t].id},
             diagnostic' = diagnostic, last' = last,
             d # Null => d.step # "fail"
      PROVE  ErrorsInv'
  <2>1. DiagnosticIsOfTheFailure'
    BY <1>1, <1>3 DEF DiagnosticIsOfTheFailure
  <2> QED
    BY <1>1, <1>2, <1>3, <2>1
<1>4. CASE NewRuntime(t)
  <2>1. /\ doing' = doing /\ doing[t] = Null
        /\ \E outcomes : Return(t, "runtime", "runtime", outcomes)
        /\ raised' = [raised EXCEPT ![t] = IF last'[t].status = "OK" THEN Null
                                          ELSE [id |-> calls', detail |-> Null]]
    BY <1>4 DEF NewRuntime, Idle
  <2>2. /\ DOMAIN raised' = Threads /\ \A u \in Threads \ {t} : raised'[u] = raised[u]
        /\ raised'[t] # Null => raised'[t].detail = Null
    BY <1>1, <2>1
  <2>3. PICK k, outcomes : Return(t, k, k, outcomes)
    BY <2>1
  <2>4. /\ DOMAIN last' = Threads /\ DOMAIN diagnostic' = Threads
        /\ DiagnosticIsOfTheFailure'
        /\ \A u \in Threads \ {t} : last'[u] = last[u]
    BY <1>1, <2>3, ReturnRecords
  <2>5. PICK d : d = Null
    OBVIOUS
  <2>6. d \in Operations \cup {Null} /\ doing' = [doing EXCEPT ![t] = d]
    BY <1>1, <2>1, <2>5
  <2> QED
    BY <1>2, <2>2, <2>4, <2>5, <2>6
<1>5. ASSUME NEW job \in Jobs, Begin(t, job)
      PROVE  ErrorsInv'
  <2>1. /\ diagnostic' = diagnostic /\ last' = last /\ doing[t] = Null
    BY <1>5 DEF Begin, apiVars, Idle
  <2>2. CASE Refused(job)
    <3>1. /\ DOMAIN raised' = Threads /\ \A u \in Threads \ {t} : raised'[u] = raised[u]
          /\ raised'[t].id = 0
          /\ doing' = [doing EXCEPT ![t] = Null]
      BY <1>1, <1>5, <2>1, <2>2 DEF Begin
    <3>2. PICK d : d = Null
      OBVIOUS
    <3> QED
      BY <1>3, <2>1, <3>1, <3>2
  <2>3. CASE ~Refused(job)
    <3>1. PICK d : d = [step |-> "call", job |-> job, runtime |-> slot["runtime"]]
      OBVIOUS
    <3>2. /\ DOMAIN raised' = Threads /\ \A u \in Threads \ {t} : raised'[u] = raised[u]
          /\ raised'[t] = Null
          /\ doing' = [doing EXCEPT ![t] = d]
          /\ d.step = "call"
      BY <1>1, <1>5, <2>3, <3>1 DEF Begin, Forget
    <3>3. d \in Operations
      <4>1. slot["runtime"] \in Nat
        BY <2>3, RuntimeIsAnObject DEF Refused, HandlesInv, BoundSlots
      <4> QED
        BY <3>1, <4>1 DEF Operations
    <3> QED
      BY <1>3, <2>1, <3>2, <3>3
  <2> QED
    BY <2>2, <2>3
<1>6. ASSUME \/ EndsWithError(t, 0, "refused")
             \/ EndsWithError(t, 0, "copy")
             \/ \E value : EndsWell(t, value),
             diagnostic' = diagnostic, last' = last
      PROVE  ErrorsInv'
  <2>1. /\ DOMAIN raised' = Threads /\ \A u \in Threads \ {t} : raised'[u] = raised[u]
        /\ raised'[t].id = 0 \/ raised'[t] = raised[t]
        /\ doing' = [doing EXCEPT ![t] = Null]
    BY <1>1, <1>6 DEF EndsWithError, EndsWell
  <2>2. raised'[t] # Null /\ raised'[t].id # 0 => raised'[t].detail \in {Null, raised'[t].id}
    BY <1>1, <2>1
  <2>3. PICK d : d = Null
    OBVIOUS
  <2> QED
    BY <1>3, <1>6, <2>1, <2>2, <2>3
<1>7. CASE Native(t)
  <2>1. CASE EndsWithError(t, 0, "refused") /\ UNCHANGED apiVars
    BY <1>6, <2>1 DEF apiVars
  <2>2. CASE /\ \E kind, outcomes : Return(t, t, kind, outcomes)
             /\ doing' = [doing EXCEPT ![t].step =
                            IF last'[t].status = "OK" THEN "take" ELSE "fail"]
             /\ raised' = raised
    <3>1. PICK out, kind, outcomes : Return(t, out, kind, outcomes)
      BY <2>2
    <3>2. /\ DOMAIN last' = Threads /\ DOMAIN diagnostic' = Threads
          /\ DiagnosticIsOfTheFailure'
          /\ \A u \in Threads \ {t} : last'[u] = last[u]
      BY <1>1, <3>1, ReturnRecords
    <3>3. PICK d : d = [doing[t] EXCEPT !.step = IF last'[t].status = "OK" THEN "take" ELSE "fail"]
      OBVIOUS
    <3>4. doing[t] \in Operations
      BY <1>1, <1>7 DEF Native, Idle
    <3>5. /\ doing' = [doing EXCEPT ![t] = d]
          /\ d \in Operations
          /\ d.step = "fail" => last'[t].status # "OK"
      BY <1>1, <2>2, <3>3, <3>4 DEF Operations
    <3> QED
      BY <1>1, <1>2, <2>2, <3>2, <3>5
  <2> QED
    BY <1>7, <2>1, <2>2 DEF Native
<1>8. CASE Raise(t)
  <2>1. /\ doing[t] # Null /\ doing[t].step = "fail"
        /\ doing' = [doing EXCEPT ![t] = Null]
        /\ raised' = [raised EXCEPT ![t] = [id |-> last[t].id, detail |-> diagnostic[t]]]
        /\ diagnostic' = diagnostic /\ last' = last
    BY <1>8 DEF Raise, EndsWithError, Idle, apiVars
  <2>2. diagnostic[t] = last[t].id
    BY <1>1, <2>1 DEF DiagnosticIsOfTheFailure
  <2>3. /\ DOMAIN raised' = Threads /\ \A u \in Threads \ {t} : raised'[u] = raised[u]
        /\ raised'[t].detail = raised'[t].id
    BY <1>1, <2>1, <2>2
  <2>4. PICK d : d = Null
    OBVIOUS
  <2> QED
    BY <1>3, <2>1, <2>3, <2>4
<1>9. CASE CopyResult(t) \/ WrapModel(t)
  BY <1>6, <1>9 DEF CopyResult, WrapModel, Dispose
<1>10. ASSUME NEW kind \in {"runtime", "model"}, Close(t, kind)
       PROVE  ErrorsInv'
  BY <1>10, CallsKeepErrors DEF Close, Dispose, Idle
<1> QED
  BY <1>4, <1>5, <1>7, <1>8, <1>9, <1>10 DEF BindingNext

(* le/api.h:189, docs/python-binding.md "Errors and concurrency": every    *)
(* diagnostic a thread finds, and every detail of an error it raises, is   *)
(* that of its own failed call, whatever the other threads do meanwhile.   *)
THEOREM ErrorsAreOwn == Spec => []ErrorsAreTheirOwn
<1>1. Init => ErrorsInv
  BY DEF Init, ApiInit, BindingInit, ErrorsInv, DiagnosticIsOfTheFailure,
         RaisedErrorIsOfItsCall, FailingCalls
<1>2. HandlesInv /\ ErrorsInv /\ [Next]_hostVars => ErrorsInv'
  <2> SUFFICES ASSUME HandlesInv, ErrorsInv, [Next]_hostVars PROVE ErrorsInv'
    OBVIOUS
  <2>1. CASE UNCHANGED hostVars
    BY <2>1 DEF ErrorsInv, hostVars, apiVars, bindingVars, DiagnosticIsOfTheFailure,
                RaisedErrorIsOfItsCall, FailingCalls
  <2>2. CASE program = "c" /\ program' = program /\ CNext(Me) /\ UNCHANGED bindingVars
    <3>1. \/ \E out, kind, outcomes : Return(Me, out, kind, outcomes)
          \/ UNCHANGED <<diagnostic, last>>
      BY <2>2 DEF CNext, CreateRuntime, LoadModel, AnalyzeText, GenerateSignals,
                  EmphasizeSignals, ProcessText, CallWithoutOut, DestroyOne, Create, Destroy
    <3> QED
      BY <2>2, <3>1, CallsKeepErrors, MeAssumption DEF ErrorsInv
  <2>3. CASE /\ program = "le-cli" /\ program' = program /\ LineNext
             /\ UNCHANGED bindingVars
    <3>1. \/ \E out, kind, outcomes : Return(Me, out, kind, outcomes)
          \/ UNCHANGED <<diagnostic, last>>
      <4>1. CASE CreateRuntimeHandle \/ LoadArtifact \/ RunStage \/ DumpSignals
        BY <4>1 DEF CreateRuntimeHandle, LoadArtifact, RunStage, DumpSignals, CallThen
      <4>2. CASE OpenInput \/ OpenArtifact
        BY <4>2 DEF OpenInput, OpenArtifact, Put, apiVars
      <4>3. CASE ReadInput
        BY <4>3 DEF ReadInput, Allocate, Grow, ReadFails, ReadDone, Put, Drop, apiVars
      <4>4. CASE ReadArtifact
        BY <4>4 DEF ReadArtifact, Allocate, Grow, ReadFails, ReadDone, Put, Drop, apiVars
      <4>5. CASE TakeArgument
        BY <4>5 DEF TakeArgument, apiVars
      <4>6. CASE ArgumentsDone \/ PrintStage
        BY <4>6 DEF ArgumentsDone, PrintStage, apiVars
      <4>7. CASE CloseArtifact \/ Cleanup
        BY <4>7 DEF CloseArtifact, Cleanup, Drop
      <4> QED
        BY <2>3, <4>1, <4>2, <4>3, <4>4, <4>5, <4>6, <4>7 DEF LineNext
    <3> QED
      BY <2>3, <3>1, CallsKeepErrors, MeAssumption DEF ErrorsInv
  <2>4. CASE /\ program = "binding" /\ program' = program
             /\ \E t \in Threads : BindingNext(t)
    BY <2>4, BindingKeepsErrors
  <2> QED
    BY <2>1, <2>2, <2>3, <2>4 DEF Next
<1>3. ErrorsInv => ErrorsAreTheirOwn
  BY DEF ErrorsInv, ErrorsAreTheirOwn
<1> QED
  BY <1>1, <1>2, <1>3, HandlesHold, PTL DEF Spec

-----------------------------------------------------------------------------
(* Plans made in stages *)

(* Models that read every node alike read the analysis alike. *)
LEMMA SameSignals ==
  ASSUME NEW text, NEW a, NEW m, NEW n,
         \A node : SignalsOf(text, a, m, node) = SignalsOf(text, a, n, node)
  PROVE  AllSignals(text, a, m) = AllSignals(text, a, n)
<1> DEFINE F(x) == CHOOSE f : f = [k \in 0..Len(a.nodes) |->
        IF k = 0 THEN <<>> ELSE f[k - 1] \o SignalsOf(text, a, x, a.nodes[k])]
<1>1. \A f : f = [k \in 0..Len(a.nodes) |->
               IF k = 0 THEN <<>> ELSE f[k - 1] \o SignalsOf(text, a, m, a.nodes[k])]
         <=> f = [k \in 0..Len(a.nodes) |->
               IF k = 0 THEN <<>> ELSE f[k - 1] \o SignalsOf(text, a, n, a.nodes[k])]
  BY Zenon
<1>2. F(m) = F(n)
  BY <1>1, Zenon
<1> QED
  BY <1>2, Zenon DEF AllSignals

(* What setting one field of a record leaves of the others *)
LEMMA FieldIsSet ==
  ASSUME NEW r, NEW f, NEW v, f \in DOMAIN r
  PROVE  LET u == [r EXCEPT ![f] = v] IN
         DOMAIN u = DOMAIN r /\ u[f] = v /\ \A g \in DOMAIN r \ {f} : u[g] = r[g]
  OBVIOUS

(* m is the reading model a staged call says it was given. *)
MadeBy(by, m) ==
  \/ /\ by.model = "prefix" /\ ValidPrefixConfig(by.config)
     /\ m = [kind |-> "prefix", prefix |-> PrefixConfigOf(by.config), languages |-> {}]
  \/ by.model = "lexical_core" /\ m = [kind |-> "lexical_core", languages |-> {}]
  \/ by.model = "artifact" /\ by.config # Null /\ m = by.config

(* The options that say what the stages said are accepted, and mean the    *)
(* same presentation and the same signals.                                 *)
OneCallSaysSame(by, m, config) ==
  LET o == SameOptions(by, config)
      n == ReadingModel(IF by.model = "artifact" THEN by.config ELSE Null, Settings(o))
  IN  /\ Accepted(o, "direct")
      /\ Settings(o).presentation = PresentationConfigOf(config)
      /\ \A text, a : AllSignals(text, a, n) = AllSignals(text, a, m)

(* SameOptions is what one call needs to say what two stages said          *)
(* (le_process against le_generate_*_signals and le_generate_emphasis).    *)
LEMMA SameOptionsSaySame ==
  ASSUME NEW by, NEW m, MadeBy(by, m), NEW config, ValidPresentationConfig(config)
  PROVE  OneCallSaysSame(by, m, config)
<1>1. PICK c : c = IF by.model # "prefix" \/ by.config = Null THEN InitialPrefixConfig ELSE by.config
  OBVIOUS
<1>2. PICK p : p = IF config = Null THEN InitialPresentationConfig ELSE config
  OBVIOUS
<1>half. PICK q : q = [num |-> 1, den |-> 2]
  OBVIOUS
<1>3. c.strategy \in {"proportional", "fixed"} /\ NormalizedProportion(c.proportion)
  <2>1. CASE by.model # "prefix" \/ by.config = Null
    <3>1. c.strategy = "proportional" /\ c.proportion = q
      BY <1>1, <1>half, <2>1 DEF InitialPrefixConfig
    <3>2. q # NotANumber /\ q.num = 1 /\ q.den = 2
      BY <1>half, ProportionAssumption
    <3> QED
      BY <3>1, <3>2 DEF NormalizedProportion
  <2>2. CASE by.model = "prefix" /\ by.config # Null
    <3>1. c = by.config /\ ValidPrefixConfig(c) /\ c # Null
      BY <1>1, <2>2 DEF MadeBy
    <3> QED
      BY <3>1 DEF ValidPrefixConfig
  <2> QED
    BY <2>1, <2>2
<1>4. ValidPresentation(p.policy, p.salience_threshold, p.minimum_strength, p.maximum_strength)
  <2>1. CASE config = Null
    <3>1. /\ p.policy = "binary" /\ p.salience_threshold = 0
          /\ p.minimum_strength = 0 /\ p.maximum_strength = Scale
      BY <1>2, <2>1 DEF InitialPresentationConfig
    <3> QED
      BY <3>1, ScaleAssumption, FloatAssumption DEF ValidPresentation, Normalized
  <2>2. CASE config # Null
    BY <1>2, <2>2 DEF ValidPresentationConfig
  <2> QED
    BY <2>1, <2>2
<1>5. PICK o : o = SameOptions(by, config)
  OBVIOUS
<1>6. /\ o.struct_size = 64 /\ o.flags = 0 /\ o.language = ""
      /\ o.prefix_strategy = c.strategy /\ o.fixed_graphemes = c.fixed_graphemes
      /\ o.prefix_proportion = c.proportion
      /\ o.reading_model = IF by.model = "lexical_core" THEN "lexical_core" ELSE "prefix"
      /\ o.presentation_policy = p.policy /\ o.salience_threshold = p.salience_threshold
      /\ o.minimum_emphasis_strength = p.minimum_strength
      /\ o.emphasis_strength = p.maximum_strength
      /\ o.reserved_v2 = 0 /\ o.reserved_v3 = 0
  <2>0. /\ InitialOptions.struct_size = 64 /\ InitialOptions.flags = 0
        /\ InitialOptions.language = ""
        /\ InitialOptions.reserved_v2 = 0 /\ InitialOptions.reserved_v3 = 0
        /\ DOMAIN InitialOptions = {"struct_size", "flags", "language", "prefix_strategy",
             "fixed_graphemes", "prefix_proportion", "emphasis_strength",
             "presentation_policy", "minimum_emphasis_strength", "salience_threshold",
             "reserved_v2", "reading_model", "reserved_v3"}
    BY DEF InitialOptions, V3Size
  <2>1. PICK i : i = InitialOptions
    OBVIOUS
  <2>2. PICK r : r = IF by.model = "lexical_core" THEN "lexical_core" ELSE "prefix"
    OBVIOUS
  <2>3. DOMAIN i = {"struct_size", "flags", "language", "prefix_strategy", "fixed_graphemes",
                    "prefix_proportion", "emphasis_strength", "presentation_policy",
                    "minimum_emphasis_strength", "salience_threshold", "reserved_v2",
                    "reading_model", "reserved_v3"}
    BY <2>0, <2>1, Zenon
  <2>4. /\ i.struct_size = 64 /\ i.flags = 0 /\ i.language = ""
        /\ i.reserved_v2 = 0 /\ i.reserved_v3 = 0
    BY <2>0, <2>1, Zenon
  <2>5. PICK o1 : o1 = [i EXCEPT !["prefix_strategy"] = c.strategy]
    OBVIOUS
  <2>6. PICK o2 : o2 = [o1 EXCEPT !["fixed_graphemes"] = c.fixed_graphemes]
    OBVIOUS
  <2>7. PICK o3 : o3 = [o2 EXCEPT !["prefix_proportion"] = c.proportion]
    OBVIOUS
  <2>8. PICK o4 : o4 = [o3 EXCEPT !["reading_model"] = r]
    OBVIOUS
  <2>9. PICK o5 : o5 = [o4 EXCEPT !["presentation_policy"] = p.policy]
    OBVIOUS
  <2>10. PICK o6 : o6 = [o5 EXCEPT !["salience_threshold"] = p.salience_threshold]
    OBVIOUS
  <2>11. PICK o7 : o7 = [o6 EXCEPT !["minimum_emphasis_strength"] = p.minimum_strength]
    OBVIOUS
  <2>12. PICK o8 : o8 = [o7 EXCEPT !["emphasis_strength"] = p.maximum_strength]
    OBVIOUS
  <2>13. o = o8
    BY <1>1, <1>2, <1>5, <2>1, <2>2, <2>5, <2>6, <2>7, <2>8, <2>9, <2>10, <2>11, <2>12, Zenon DEF SameOptions
  <2> QED
    BY <2>2, <2>3, <2>4, <2>5, <2>6, <2>7, <2>8, <2>9, <2>10, <2>11, <2>12, <2>13, FieldIsSet, Zenon
<1>0. o.struct_size = 64
  BY <1>6, Zenon
<1>7. Accepted(o, "direct")
  <2>1. ValidLanguage(o.language)
    BY <1>6, TagsAssumption DEF ValidLanguage
  <2>2. Normalized(o.emphasis_strength)
    BY <1>4, <1>6 DEF ValidPresentation
  <2>3. o.struct_size >= V3Size
    BY <1>0 DEF V3Size
  <2>4. o.reading_model \in {"prefix", "lexical_core"}
    BY <1>6
  <2>5. ValidOptions(o)
    BY <1>3, <1>4, <1>6, <2>1, <2>2, <2>3, <2>4, Zenon DEF ValidOptions
  <2> QED
    BY <2>5, Zenon DEF Accepted
<1>8. Settings(o).presentation = PresentationConfigOf(config)
  <2>1. Settings(o).presentation = PresentationOf(o)
    BY Zenon DEF Settings
  <2>0. o.struct_size >= V2Size
    BY <1>0 DEF V2Size
  <2>2. PresentationOf(o) = [kind |-> p.policy, threshold |-> p.salience_threshold,
        minimum |-> p.minimum_strength, maximum |-> p.maximum_strength]
    BY <1>6, <2>0, Zenon DEF PresentationOf
  <2>3. CASE config = Null
    <3>1. /\ p.policy = "binary" /\ p.salience_threshold = 0
          /\ p.minimum_strength = 0 /\ p.maximum_strength = Scale
      BY <1>2, <2>3 DEF InitialPresentationConfig
    <3> QED
      BY <2>1, <2>2, <2>3, <3>1 DEF PresentationConfigOf, Defaults
  <2>4. CASE config # Null
    BY <1>2, <2>1, <2>2, <2>4 DEF PresentationConfigOf
  <2> QED
    BY <2>3, <2>4
<1>9. PICK n : n = ReadingModel(IF by.model = "artifact" THEN by.config ELSE Null, Settings(o))
  OBVIOUS
<1>said. PICK s : s = PrefixOf(o)
  OBVIOUS
<1>meant. PICK t : t = PrefixConfigOf(by.config)
  OBVIOUS
<1>10. \A text, a, node : SignalsOf(text, a, n, node) = SignalsOf(text, a, m, node)
  <2>1. CASE by.model = "artifact"
    BY <1>9, <2>1 DEF MadeBy, ReadingModel
  <2>0. o.struct_size >= V3Size
    BY <1>0 DEF V3Size
  <2>2. Settings(o).reading_model = o.reading_model /\ Settings(o).prefix = s
    BY <1>said, <2>0, Zenon DEF Settings
  <2>3. by.model # "artifact" => n.kind = o.reading_model /\ n.prefix = s
    BY <1>9, <2>2, Zenon DEF ReadingModel
  <2>4. CASE by.model = "lexical_core"
    <3>1. o.reading_model = "lexical_core"
      BY <1>6, <2>4
    <3>2. m.kind = "lexical_core"
      BY <2>4 DEF MadeBy
    <3> QED
      BY <2>3, <2>4, <3>1, <3>2 DEF SignalsOf
  <2>5. CASE by.model = "prefix"
    <3>1. o.reading_model = "prefix"
      BY <1>6, <2>5
    <3>2. m.kind = "prefix" /\ m.prefix = t
      BY <1>meant, <2>5 DEF MadeBy
    <3>3. s = t
      <4>1. CASE by.config = Null
        <5>1. c.strategy = "proportional" /\ c.proportion = q
          BY <1>1, <1>half, <4>1 DEF InitialPrefixConfig
        <5> QED
          BY <1>6, <1>said, <1>meant, <1>half, <4>1, <5>1 DEF PrefixOf, PrefixConfigOf, Defaults
      <4>2. CASE by.config # Null
        BY <1>1, <1>6, <1>said, <1>meant, <2>5, <4>2 DEF PrefixOf, PrefixConfigOf
      <4> QED
        BY <4>1, <4>2
    <3> QED
      BY <2>3, <2>5, <3>1, <3>2, <3>3, Zenon DEF SignalsOf
  <2> QED
    BY <2>1, <2>4, <2>5 DEF MadeBy
<1>11. \A text, a : AllSignals(text, a, n) = AllSignals(text, a, m)
  BY <1>10, SameSignals, Zenon
<1> QED
  BY <1>5, <1>7, <1>8, <1>9, <1>11, Zenon DEF OneCallSaysSame

-----------------------------------------------------------------------------
(* Sequences one after the other, as FlattenSeq joins them *)

Joined(a, b) == a \o b

(* The first n elements of s *)
First(s, n) == [i \in 1..n |-> s[i]]

(* f is what g begins with. *)
Begins(f, g) == /\ Len(f) <= Len(g)
                /\ \A k \in 1..Len(f) : g[k] = f[k]

(* s has N sequences.                                                      *)
Sequences(s, N, S) == \A k \in 1..N : s[k] \in Seq(S)

(* F has what the first sequences of s make together, n of them at n.      *)
Prefixed(F, s, N, S) ==
  /\ F \in [0..N -> Seq(S)] /\ F[0] = <<>>
  /\ \A n \in 1..N : F[n] = Joined(F[n - 1], s[n])

(* What there is to know of two sequences joined *)
LEMMA JoinedFacts ==
  ASSUME NEW S, NEW a \in Seq(S), NEW b \in Seq(S)
  PROVE  /\ Joined(a, b) \in Seq(S)
         /\ Len(a) \in Nat /\ Len(b) \in Nat /\ Len(Joined(a, b)) = Len(a) + Len(b)
         /\ \A k \in 1..Len(a) : Joined(a, b)[k] = a[k]
         /\ \A k \in 1..Len(b) : Joined(a, b)[Len(a) + k] = b[k]
  BY DEF Joined

(* The empty sequence in front changes nothing. *)
LEMMA EmptyInFront ==
  ASSUME NEW S, NEW b \in Seq(S)
  PROVE  Joined(<<>>, b) = b
  BY DEF Joined

(* There is such a function. *)
LEMMA PrefixesExist ==
  ASSUME NEW S, NEW N \in Nat, NEW s, Sequences(s, N, S)
  PROVE  \E F : Prefixed(F, s, N, S)
<1>1. PICK D : D = Seq(S)
  OBVIOUS
<1>2. <<>> \in D
  BY <1>1
<1>3. PICK step : step = [n \in Nat |-> [q \in D |-> IF n \in 1..N THEN Joined(q, s[n]) ELSE q]]
  OBVIOUS
<1>4. step \in [Nat -> [D -> D]]
  <2>1. ASSUME NEW n \in Nat, NEW q \in D PROVE (IF n \in 1..N THEN Joined(q, s[n]) ELSE q) \in D
    <3>1. ASSUME n \in 1..N PROVE Joined(q, s[n]) \in D
      <4>1. PICK r : r = s[n] /\ r \in Seq(S)
        BY <3>1 DEF Sequences
      <4>2. q \in Seq(S)
        BY <1>1
      <4>3. Joined(q, r) \in Seq(S)
        BY <4>1, <4>2, JoinedFacts
      <4> QED
        BY <1>1, <4>1, <4>3
    <3> QED
      BY <3>1
  <2> QED
    BY <1>3, <2>1
<1>6. PICK F : Steps(F, D, <<>>, step, N)
  BY <1>2, <1>4, StepByStep
<1>7. ASSUME NEW n \in 1..N PROVE F[n] = Joined(F[n - 1], s[n])
  <2>1. n \in Nat /\ F[n - 1] \in D
    BY <1>6 DEF Steps
  <2>2. F[n] = step[n][F[n - 1]]
    BY <1>6 DEF Steps
  <2> QED
    BY <1>3, <2>1, <2>2
<1> QED
  BY <1>1, <1>2, <1>6, <1>7 DEF Steps, Prefixed

(* It goes on with the next sequence, and its values are sequences. *)
LEMMA PrefixGoesOn ==
  ASSUME NEW S, NEW N \in Nat, NEW s, Sequences(s, N, S), NEW F, Prefixed(F, s, N, S),
         NEW i \in 1..N
  PROVE  /\ F[i] = Joined(F[i - 1], s[i])
         /\ F[i] \in Seq(S) /\ F[i - 1] \in Seq(S) /\ s[i] \in Seq(S)
<1>1. F[i] = Joined(F[i - 1], s[i])
  BY DEF Prefixed
<1>2. s[i] \in Seq(S)
  BY DEF Sequences
<1>3. F[i] \in Seq(S) /\ F[i - 1] \in Seq(S)
  <2>1. i \in 0..N /\ i - 1 \in 0..N
    OBVIOUS
  <2> QED
    BY <2>1 DEF Prefixed
<1> QED
  BY <1>1, <1>2, <1>3

(* So is the first one. *)
LEMMA PrefixIsSequence ==
  ASSUME NEW S, NEW N \in Nat, NEW s, NEW F, Prefixed(F, s, N, S), NEW i \in 0..N
  PROVE  F[i] \in Seq(S) /\ Len(F[i]) \in Nat /\ F[0] = <<>>
<1>1. PICK f : f = F[i] /\ f \in Seq(S) /\ F[0] = <<>>
  BY DEF Prefixed
<1>2. Len(f) \in Nat
  BY <1>1
<1> QED
  BY <1>1, <1>2

(* FlattenSeq is what the last of them is.                                 *)
LEMMA FlattensToPrefix ==
  ASSUME NEW S, NEW N \in Nat, NEW s, Sequences(s, N, S), NEW F, Prefixed(F, s, N, S), NEW n \in 0..N
  PROVE  Seqs!FlattenSeq(First(s, n)) = F[n]
<1>0. PICK q : q = First(s, n) /\ q = [i \in 1..n |-> s[i]]
  BY DEF First
<1>1. Len(q) = n /\ n \in Nat
  BY <1>0
<1>2. CASE n = 0
  <2>1. q = <<>>
    BY <1>0, <1>2
  <2>2. F[0] = <<>>
    BY DEF Prefixed
  <2> QED
    BY <1>0, <1>1, <1>2, <2>1, <2>2 DEF Seqs!FlattenSeq
<1>3. CASE n # 0
  <2> DEFINE f == CHOOSE g : g = [i \in 1..Len(q) |-> IF i = 1 THEN q[i] ELSE Joined(g[i - 1], q[i])]
  <2>1. Seqs!FlattenSeq(q) = f[n]
    BY <1>1, <1>3, Zenon DEF Seqs!FlattenSeq, Joined
  <2>2. PICK g : g = [i \in 1..n |-> F[i]]
    OBVIOUS
  <2>3. ASSUME NEW i \in 1..n PROVE F[i] = IF i = 1 THEN q[i] ELSE Joined(g[i - 1], q[i])
    <3>1. F[i] = Joined(F[i - 1], q[i]) /\ q[i] = s[i]
      BY <1>0 DEF Prefixed
    <3>2. CASE i = 1
      <4>1. F[0] = <<>> /\ i - 1 = 0
        BY <3>2 DEF Prefixed
      <4>2. s[i] \in Seq(S)
        BY PrefixGoesOn
      <4>3. Joined(<<>>, s[i]) = s[i]
        BY <4>2, EmptyInFront
      <4> QED
        BY <3>1, <3>2, <4>1, <4>3
    <3>3. CASE i # 1
      <4>1. i - 1 \in 1..n
        BY <3>3
      <4> QED
        BY <2>2, <3>1, <3>3, <4>1
    <3> QED
      BY <3>2, <3>3
  <2>4. g = [i \in 1..Len(q) |-> IF i = 1 THEN q[i] ELSE Joined(g[i - 1], q[i])]
    <3>1. g = [i \in 1..n |-> IF i = 1 THEN q[i] ELSE Joined(g[i - 1], q[i])]
      BY <2>2, <2>3
    <3> QED
      BY <1>1, <3>1, Zenon
  <2>5. f = [i \in 1..n |-> IF i = 1 THEN q[i] ELSE Joined(f[i - 1], q[i])]
    <3>1. f = [i \in 1..Len(q) |-> IF i = 1 THEN q[i] ELSE Joined(f[i - 1], q[i])]
      BY <2>4, Zenon
    <3> HIDE DEF f
    <3> QED
      BY <1>1, <3>1, Zenon
  <2> HIDE DEF f
  <2>6. PICK h : h = f
    OBVIOUS
  <2>7. PICK P : P = {k \in Nat : k + 1 <= n => h[k + 1] = F[k + 1]}
    OBVIOUS
  <2>8. 0 \in P
    <3>1. 1 \in 1..n /\ 1 \in 1..N
      BY <1>3
    <3>2. h[1] = q[1] /\ q[1] = s[1]
      BY <1>0, <2>5, <2>6, <3>1
    <3>3. F[1] = Joined(F[0], s[1]) /\ s[1] \in Seq(S) /\ F[0] = <<>>
      <4>1. F[1] = Joined(F[1 - 1], s[1]) /\ s[1] \in Seq(S)
        BY <3>1, PrefixGoesOn
      <4>2. F[0] = <<>>
        BY DEF Prefixed
      <4> QED
        BY <4>1, <4>2
    <3>4. Joined(<<>>, s[1]) = s[1]
      BY <3>3, EmptyInFront
    <3> QED
      BY <2>7, <3>2, <3>3, <3>4
  <2>9. ASSUME NEW k \in Nat, k \in P PROVE k + 1 \in P
    <3>1. ASSUME (k + 1) + 1 <= n PROVE h[(k + 1) + 1] = F[(k + 1) + 1]
      <4>1. PICK i : i = (k + 1) + 1 /\ i \in 1..n /\ i # 1 /\ i - 1 = k + 1 /\ i \in 1..N
        BY <3>1
      <4>2. h[i - 1] = F[i - 1]
        BY <2>7, <2>9, <3>1, <4>1
      <4>3. h[i] = Joined(h[i - 1], s[i])
        BY <1>0, <2>5, <2>6, <4>1
      <4>4. F[i] = Joined(F[i - 1], s[i])
        BY <4>1 DEF Prefixed
      <4> QED
        BY <4>1, <4>2, <4>3, <4>4
    <3> QED
      BY <2>7, <3>1
  <2>10. \A k \in Nat : k \in P
    BY <2>8, <2>9, SetInduction
  <2>11. n - 1 \in Nat /\ (n - 1) + 1 = n
    BY <1>3
  <2> QED
    BY <1>0, <2>1, <2>6, <2>7, <2>10, <2>11
<1> QED
  BY <1>2, <1>3

(* What came in first stays in front.                                      *)
LEMMA PrefixesGrow ==
  ASSUME NEW S, NEW N \in Nat, NEW s, Sequences(s, N, S), NEW F, Prefixed(F, s, N, S), NEW i \in 0..N
  PROVE  \A n \in i..N : Begins(F[i], F[n])
<1> DEFINE Goes(n) == /\ Len(F[i]) <= Len(F[n])
                      /\ \A k \in 1..Len(F[i]) : F[n][k] = F[i][k]
<1>1. Len(F[i]) \in Nat /\ i \in Nat /\ N \in Nat
  BY PrefixIsSequence
<1>2. PICK P : P = {m \in Nat : i + m <= N => Goes(i + m)}
  OBVIOUS
<1>3. 0 \in P
  <2>1. Goes(i) /\ i + 0 = i
    BY <1>1
  <2> QED
    BY <1>2, <2>1
<1>4. ASSUME NEW m \in Nat, m \in P PROVE m + 1 \in P
  <2>1. ASSUME i + (m + 1) <= N PROVE Goes(i + (m + 1))
    <3>1. PICK n : n = i + m /\ n \in 0..N /\ n + 1 \in 1..N /\ n + 1 = i + (m + 1) /\ (n + 1) - 1 = n
      BY <1>1, <2>1
    <3>2. Goes(n)
      BY <1>1, <1>2, <1>4, <2>1, <3>1
    <3>3. /\ F[n + 1] = Joined(F[n], s[n + 1]) /\ F[n] \in Seq(S) /\ s[n + 1] \in Seq(S)
      <4>1. /\ F[n + 1] = Joined(F[(n + 1) - 1], s[n + 1]) /\ F[(n + 1) - 1] \in Seq(S) /\ s[n + 1] \in Seq(S)
        BY <3>1, PrefixGoesOn
      <4> QED
        BY <3>1, <4>1, Zenon
    <3>4. /\ Len(F[n + 1]) = Len(F[n]) + Len(s[n + 1]) /\ Len(s[n + 1]) \in Nat /\ Len(F[n]) \in Nat
          /\ \A k \in 1..Len(F[n]) : F[n + 1][k] = F[n][k]
      <4>1. PICK a \in Seq(S), b \in Seq(S) : a = F[n] /\ b = s[n + 1]
        BY <3>3, Zenon
      <4>2. /\ Len(Joined(a, b)) = Len(a) + Len(b) /\ Len(b) \in Nat /\ Len(a) \in Nat
            /\ \A k \in 1..Len(a) : Joined(a, b)[k] = a[k]
        BY JoinedFacts
      <4> QED
        BY <3>3, <4>1, <4>2, Zenon
    <3>5. Goes(n + 1)
      <4>1. Len(F[i]) <= Len(F[n + 1])
        <5>1. PICK x, y, z, u : x = Len(F[i]) /\ y = Len(F[n]) /\ z = Len(s[n + 1]) /\ u = Len(F[n + 1])
          OBVIOUS
        <5>2. x \in Nat /\ y \in Nat /\ z \in Nat /\ u = y + z
          BY <1>1, <3>4, <5>1, Zenon
        <5>3. x <= y
          BY <3>2, <5>1, Zenon
        <5>4. x <= u
          BY <5>2, <5>3
        <5> QED
          BY <5>1, <5>4, Zenon
      <4>2. ASSUME NEW k \in 1..Len(F[i]) PROVE F[n + 1][k] = F[i][k]
        <5>1. k \in 1..Len(F[n])
          BY <1>1, <3>2, <3>4
        <5>2. F[n + 1][k] = F[n][k] /\ F[n][k] = F[i][k]
          BY <3>2, <3>4, <5>1
        <5> QED
          BY <5>2
      <4> QED
        BY <4>1, <4>2
    <3> QED
      BY <3>1, <3>5, Zenon
  <2> HIDE DEF Goes
  <2> QED
    BY <1>2, <2>1
<1>5. \A m \in Nat : m \in P
  BY <1>3, <1>4, SetInduction
<1> HIDE DEF Goes
<1>6. ASSUME NEW n \in i..N PROVE Goes(n)
  <2>1. n - i \in Nat /\ i + (n - i) = n /\ n <= N
    BY <1>1
  <2> QED
    BY <1>2, <1>5, <2>1
<1> QED
  BY <1>6 DEF Goes, Begins

(* What stands in f after b elements is cut out by SubSeq. *)
LEMMA CutOut ==
  ASSUME NEW S, NEW f \in Seq(S), NEW t \in Seq(S), NEW b \in Nat, b + Len(t) <= Len(f),
         \A k \in 1..Len(t) : f[b + k] = t[k]
  PROVE  SubSeq(f, b + 1, b + Len(t)) = t
<1>1. PICK l : l = Len(t) /\ l \in Nat
  OBVIOUS
<1>2. PICK w : w = SubSeq(f, b + 1, b + l)
  OBVIOUS
<1>3. w \in Seq(S) /\ Len(w) = l /\ \A k \in 1..l : w[k] = f[b + k]
  BY <1>1, <1>2
<1>4. \A k \in 1..l : w[k] = t[k]
  BY <1>1, <1>3
<1>5. w = t
  BY <1>1, <1>3, <1>4
<1> QED
  BY <1>1, <1>2, <1>5

(* Each of the sequences is where those before it end.                     *)
LEMMA FoundWhereOthersEnd ==
  ASSUME NEW S, NEW N \in Nat, NEW s, Sequences(s, N, S), NEW i \in 1..N,
         NEW b, b = Len(Seqs!FlattenSeq(First(s, i - 1)))
  PROVE  SubSeq(Seqs!FlattenSeq(First(s, N)), b + 1, b + Len(s[i])) = s[i]
<1>1. PICK F : Prefixed(F, s, N, S)
  BY PrefixesExist
<1>2. i \in 0..N /\ N \in i..N /\ N \in 0..N /\ i - 1 \in 0..N
  OBVIOUS
<1>3. Seqs!FlattenSeq(First(s, N)) = F[N]
  BY <1>1, <1>2, FlattensToPrefix
<1>4. b = Len(F[i - 1])
  BY <1>1, <1>2, FlattensToPrefix
<1>5. /\ F[i] = Joined(F[i - 1], s[i]) /\ F[i - 1] \in Seq(S) /\ s[i] \in Seq(S)
  BY <1>1, <1>2, PrefixGoesOn
<1>6. Len(s[i]) \in Nat /\ b \in Nat /\ Len(F[i]) = b + Len(s[i])
        /\ \A k \in 1..Len(s[i]) : F[i][b + k] = s[i][k]
  <2>1. PICK a \in Seq(S), t \in Seq(S) : a = F[i - 1] /\ t = s[i]
    BY <1>5, Zenon
  <2>2. /\ Len(Joined(a, t)) = Len(a) + Len(t) /\ Len(t) \in Nat /\ Len(a) \in Nat
        /\ \A k \in 1..Len(t) : Joined(a, t)[Len(a) + k] = t[k]
    BY JoinedFacts
  <2> QED
    BY <1>4, <1>5, <2>1, <2>2, Zenon
<1>8. Len(F[i]) <= Len(F[N]) /\ \A k \in 1..Len(F[i]) : F[N][k] = F[i][k]
  <2>1. Begins(F[i], F[N])
    BY <1>1, <1>2, PrefixesGrow
  <2> QED
    BY <2>1, Zenon DEF Begins
<1>9. F[N] \in Seq(S)
  BY <1>1, <1>2, PrefixIsSequence
<1>10. PICK l : l = Len(s[i]) /\ l \in Nat
  BY <1>6
<1>11. \A k \in 1..l : b + k \in 1..(b + l)
  BY <1>6, <1>10
<1>12. \A k \in 1..Len(s[i]) : F[N][b + k] = s[i][k]
  BY <1>6, <1>8, <1>10, <1>11
<1>13. SubSeq(F[N], b + 1, b + Len(s[i])) = s[i]
  <2>1. PICK f \in Seq(S), t \in Seq(S) : f = F[N] /\ t = s[i]
    BY <1>5, <1>9, Zenon
  <2>2. b \in Nat /\ b + Len(t) <= Len(f) /\ \A k \in 1..Len(t) : f[b + k] = t[k]
    <3>1. b + Len(s[i]) <= Len(F[N])
      BY <1>6, <1>8
    <3> QED
      BY <1>6, <1>12, <2>1, <3>1, Zenon
  <2>3. SubSeq(f, b + 1, b + Len(t)) = t
    BY <2>2, CutOut
  <2> QED
    BY <2>1, <2>3, Zenon
<1> QED
  BY <1>3, <1>13, Zenon

(* A node is found again in the arrays its analysis was flattened into. *)
LEMMA NodeReadsBack ==
  ASSUME NEW a, NEW N, N = Len(a.nodes), IsAnalysis(a), NEW i \in 1..N
  PROVE  LET n == FlatNodes(a)[i] IN
         a.nodes[i] =
           [id |-> n.id, kind |-> n.kind, span |-> n.span,
            children |-> SubSeq(Flat(a, "children", N), n.first_child + 1,
                                n.first_child + n.child_count),
            features |-> SubSeq(Flat(a, "features", N), n.first_feature + 1,
                                n.first_feature + n.feature_count)]
<1>1. PICK D : D = a.nodes
  OBVIOUS
<1>2. N \in Nat /\ DOMAIN D = 1..N /\ \A j \in 1..N : IsNode(D[j])
  <2>1. D \in Seq(Range(D)) /\ \A m \in Range(D) : IsNode(m)
    BY <1>1 DEF IsAnalysis
  <2>2. \A j \in 1..N : D[j] \in Range(D)
    BY <1>1, <2>1 DEF Range
  <2>3. N \in Nat /\ DOMAIN D = 1..N
    BY <1>1, <2>1
  <2> QED
    BY <2>1, <2>2, <2>3
<1>fields. PICK x, y : x = "children" /\ y = "features"
  OBVIOUS
<1>3. PICK s : s = [j \in 1..N |-> D[j][x]]
  OBVIOUS
<1>4. PICK t : t = [j \in 1..N |-> D[j][y]]
  OBVIOUS
<1>ids. PICK Id : Id = Nat
  OBVIOUS
<1>5. Sequences(s, N, Id)
  <2>1. \A j \in 1..N : D[j].children \in Seq(Nat)
    BY <1>2 DEF IsNode
  <2> QED
    BY <1>3, <1>fields, <1>ids, <2>1 DEF Sequences
<1>6. PICK S : S = UNION {Range(D[j].features) : j \in 1..N}
  OBVIOUS
<1>7. Sequences(t, N, S)
  <2>1. ASSUME NEW j \in 1..N PROVE t[j] \in Seq(S)
    <3>1. PICK f : f = D[j].features
      OBVIOUS
    <3>2. f \in Seq(Range(f))
      BY <1>2, <3>1 DEF IsNode
    <3>3. PICK R : R = Range(f)
      OBVIOUS
    <3>4. R \subseteq S
      BY <1>6, <3>1, <3>3
    <3>5. f \in Seq(S)
      BY <3>2, <3>3, <3>4
    <3> QED
      BY <1>4, <1>fields, <3>1, <3>5
  <2> QED
    BY <2>1 DEF Sequences
<1>8. /\ Flat(a, "children", N) = Seqs!FlattenSeq(First(s, N))
      /\ Flat(a, "children", i - 1) = Seqs!FlattenSeq(First(s, i - 1))
      /\ Flat(a, "features", N) = Seqs!FlattenSeq(First(t, N))
      /\ Flat(a, "features", i - 1) = Seqs!FlattenSeq(First(t, i - 1))
  <2>1. N \in 0..N /\ i - 1 \in 0..N
    BY <1>2
  <2>2. s = [j \in 1..N |-> a.nodes[j][x]] /\ t = [j \in 1..N |-> a.nodes[j][y]]
    BY <1>1, <1>3, <1>4, Zenon
  <2>3. ASSUME NEW n \in 0..N
        PROVE  Flat(a, x, n) = Seqs!FlattenSeq(First(s, n)) /\ Flat(a, y, n) = Seqs!FlattenSeq(First(t, n))
    <3>1. \A j \in 1..n : j \in 1..N
      BY <1>2
    <3>2. First(s, n) = [j \in 1..n |-> a.nodes[j][x]] /\ First(t, n) = [j \in 1..n |-> a.nodes[j][y]]
      BY <2>2, <3>1 DEF First
    <3> QED
      BY <3>2, Zenon DEF Flat
  <2> QED
    BY <1>fields, <2>1, <2>3, Zenon
<1>9. PICK b, c : /\ b = Len(Flat(a, "children", i - 1)) /\ c = Len(Flat(a, "features", i - 1))
  OBVIOUS
<1>10. SubSeq(Flat(a, "children", N), b + 1, b + Len(s[i])) = s[i]
  <2>1. SubSeq(Seqs!FlattenSeq(First(s, N)), b + 1, b + Len(s[i])) = s[i]
    <3>1. b = Len(Seqs!FlattenSeq(First(s, i - 1)))
      BY <1>8, <1>9, Zenon
    <3> QED
      BY <1>2, <1>5, <3>1, FoundWhereOthersEnd
  <2> QED
    BY <1>8, <2>1, Zenon
<1>11. SubSeq(Flat(a, "features", N), c + 1, c + Len(t[i])) = t[i]
  <2>1. SubSeq(Seqs!FlattenSeq(First(t, N)), c + 1, c + Len(t[i])) = t[i]
    <3>1. c = Len(Seqs!FlattenSeq(First(t, i - 1)))
      BY <1>8, <1>9, Zenon
    <3> QED
      BY <1>2, <1>7, <3>1, FoundWhereOthersEnd
  <2> QED
    BY <1>8, <2>1, Zenon
<1>12. PICK d : d = D[i]
  OBVIOUS
<1>13. s[i] = d.children /\ t[i] = d.features
  BY <1>3, <1>4, <1>fields, <1>12
<1>14. PICK n : n = FlatNodes(a)[i]
  OBVIOUS
<1>15. n = [id |-> d.id, kind |-> d.kind, span |-> d.span,
            first_child |-> b, child_count |-> Len(d.children),
            first_feature |-> c, feature_count |-> Len(d.features)]
  <2>1. DOMAIN a.nodes = 1..N
    BY <1>1, <1>2
  <2> QED
    BY <1>1, <1>9, <1>12, <1>14, <2>1, Zenon DEF FlatNodes
<1>16. /\ n.id = d.id /\ n.kind = d.kind /\ n.span = d.span
       /\ n.first_child = b /\ n.child_count = Len(d.children)
       /\ n.first_feature = c /\ n.feature_count = Len(d.features)
  BY <1>15, Zenon
<1>17. d = [id |-> d.id, kind |-> d.kind, span |-> d.span,
            children |-> d.children, features |-> d.features]
  BY <1>2, <1>12, Zenon DEF IsNode
<1> QED
  BY <1>1, <1>10, <1>11, <1>12, <1>13, <1>14, <1>16, <1>17, Zenon

(* So are all of them, and the regions. *)
LEMMA ArraysReadBack ==
  ASSUME NEW text, NEW a, IsAnalysis(a)
  PROVE  ReadBack(MakeAnalysis(text, a)) = a
<1>1. PICK v : v = MakeAnalysis(text, a)
  OBVIOUS
<1>2. PICK N : N = Len(a.nodes)
  OBVIOUS
<1>3. /\ v.core = a /\ v.nodes = FlatNodes(a)
      /\ v.children = Flat(a, "children", N) /\ v.features = Flat(a, "features", N)
      /\ v.language_regions = RegionViews(a)
  BY <1>1, <1>2, Zenon DEF MakeAnalysis
<1>4. /\ a = [nodes |-> a.nodes, regions |-> a.regions]
      /\ a.nodes = [i \in 1..N |-> a.nodes[i]]
      /\ DOMAIN a.nodes = 1..N /\ DOMAIN FlatNodes(a) = 1..N
  <2>1. PICK D : D = a.nodes
    OBVIOUS
  <2>2. D \in Seq(Range(D))
    BY <2>1 DEF IsAnalysis
  <2>3. DOMAIN D = 1..N /\ D = [i \in 1..N |-> D[i]]
    BY <1>2, <2>1, <2>2
  <2>4. DOMAIN FlatNodes(a) = 1..N
    BY <2>1, <2>3, Zenon DEF FlatNodes
  <2>5. a = [nodes |-> a.nodes, regions |-> a.regions]
    BY Zenon DEF IsAnalysis
  <2> QED
    BY <2>1, <2>3, <2>4, <2>5, Zenon
<1>5. PICK M : M = [i \in DOMAIN v.nodes |-> LET n == v.nodes[i] IN
     [id |-> n.id, kind |-> n.kind, span |-> n.span,
      children |-> SubSeq(v.children, n.first_child + 1, n.first_child + n.child_count),
      features |-> SubSeq(v.features, n.first_feature + 1,
                          n.first_feature + n.feature_count)]]
  OBVIOUS
<1>6. PICK R : R = [k \in DOMAIN v.language_regions |-> LET r == v.language_regions[k] IN
     Region(r.span, v.core.regions[r.language].language, r.confidence)]
  OBVIOUS
<1>7. ReadBack(v) = [nodes |-> M, regions |-> R]
  BY <1>5, <1>6, Zenon DEF ReadBack
<1>8. M = a.nodes
  <2>1. M = [i \in 1..N |-> LET n == FlatNodes(a)[i] IN
     [id |-> n.id, kind |-> n.kind, span |-> n.span,
      children |-> SubSeq(Flat(a, "children", N), n.first_child + 1, n.first_child + n.child_count),
      features |-> SubSeq(Flat(a, "features", N), n.first_feature + 1,
                          n.first_feature + n.feature_count)]]
    BY <1>3, <1>4, <1>5, Zenon
  <2>2. \A i \in 1..N : M[i] = a.nodes[i]
    BY <1>2, <2>1, NodeReadsBack, Zenon
  <2>3. M = [i \in 1..N |-> M[i]]
    BY <2>1, Zenon
  <2> QED
    BY <1>4, <2>2, <2>3, Zenon
<1>9. R = a.regions
  <2>1. PICK Q, L : Q = a.regions /\ L = Len(a.regions)
    OBVIOUS
  <2>2. Q \in Seq(Range(Q)) /\ \A r \in Range(Q) : IsRegion(r)
    BY <2>1 DEF IsAnalysis
  <2>3. DOMAIN Q = 1..L /\ Q = [k \in 1..L |-> Q[k]]
    BY <2>1, <2>2
  <2>4. \A k \in 1..L : IsRegion(Q[k])
    BY <2>2, <2>3 DEF Range
  <2>5. PICK V : V = RegionViews(a)
    OBVIOUS
  <2>6. V = [k \in 1..L |-> [span |-> Q[k].span, confidence |-> Q[k].confidence, language |-> k]]
    BY <2>1, <2>3, <2>5, Zenon DEF RegionViews
  <2>7. R = [k \in 1..L |-> Region(V[k].span, Q[V[k].language].language, V[k].confidence)]
    <3>1. DOMAIN V = 1..L
      BY <2>6
    <3> QED
      BY <1>3, <1>6, <2>1, <2>5, <3>1, Zenon
  <2>8. ASSUME NEW k \in 1..L PROVE R[k] = Q[k]
    <3>1. V[k].span = Q[k].span /\ V[k].confidence = Q[k].confidence /\ V[k].language = k
      BY <2>6
    <3>2. R[k] = Region(Q[k].span, Q[k].language, Q[k].confidence)
      BY <2>7, <3>1, Zenon
    <3> QED
      BY <2>4, <3>2, Zenon DEF IsRegion
  <2>9. R = [k \in 1..L |-> R[k]]
    BY <2>7, Zenon
  <2> QED
    BY <2>1, <2>3, <2>8, <2>9, Zenon
<1> QED
  BY <1>1, <1>4, <1>7, <1>8, <1>9, Zenon

-----------------------------------------------------------------------------
(* What a call that analyzes returns *)

(* M has the documents after each region, from the root alone. *)
MergeSteps(M, text, regions, n) ==
  M = [k \in 0..n |-> IF k = 0 THEN {DocumentRoot(text)}
                      ELSE MergeEach(M[k - 1], text, regions[k])]

(* There is such a function. *)
LEMMA MergeStepsExist ==
  ASSUME NEW text, NEW regions, NEW n \in Nat
  PROVE  \E M : MergeSteps(M, text, regions, n)
<1> DEFINE Has(m) == \E M : MergeSteps(M, text, regions, m)
<1>1. PICK P : P = {m \in Nat : Has(m)}
  OBVIOUS
<1>2. Has(0)
  <2>1. PICK M : M = [k \in 0..0 |-> {DocumentRoot(text)}]
    OBVIOUS
  <2>2. M = [k \in 0..0 |-> IF k = 0 THEN {DocumentRoot(text)}
                            ELSE MergeEach(M[k - 1], text, regions[k])]
    BY <2>1
  <2> QED
    BY <2>2 DEF MergeSteps
<1>3. ASSUME NEW m \in Nat, Has(m) PROVE Has(m + 1)
  <2>1. PICK M : MergeSteps(M, text, regions, m)
    BY <1>3
  <2>2. M = [k \in 0..m |-> IF k = 0 THEN {DocumentRoot(text)}
                            ELSE MergeEach(M[k - 1], text, regions[k])]
    BY <2>1 DEF MergeSteps
  <2>3. PICK N : N = [k \in 0..(m + 1) |-> IF k = m + 1 THEN MergeEach(M[m], text, regions[m + 1])
                                           ELSE M[k]]
    OBVIOUS
  <2>4. ASSUME NEW k \in 0..(m + 1)
        PROVE  N[k] = IF k = 0 THEN {DocumentRoot(text)} ELSE MergeEach(N[k - 1], text, regions[k])
    <3>1. CASE k = m + 1
      <4>1. k # 0 /\ k - 1 = m /\ m \in 0..(m + 1) /\ m # m + 1
        BY <3>1
      <4>2. N[m] = M[m]
        BY <2>3, <4>1
      <4>3. N[k] = MergeEach(M[m], text, regions[m + 1])
        BY <2>3, <3>1
      <4> QED
        BY <3>1, <4>1, <4>2, <4>3, Zenon
    <3>2. CASE k # m + 1
      <4>1. k \in 0..m /\ (k # 0 => k - 1 \in 0..(m + 1) /\ k - 1 # m + 1)
        BY <3>2
      <4>2. N[k] = M[k] /\ (k # 0 => N[k - 1] = M[k - 1])
        BY <2>3, <3>2, <4>1
      <4>3. M[k] = IF k = 0 THEN {DocumentRoot(text)} ELSE MergeEach(M[k - 1], text, regions[k])
        BY <2>2, <4>1
      <4> QED
        BY <4>2, <4>3, Zenon
    <3> QED
      BY <3>1, <3>2
  <2>5. N = [k \in 0..(m + 1) |-> IF k = 0 THEN {DocumentRoot(text)}
                                  ELSE MergeEach(N[k - 1], text, regions[k])]
    <3>1. N = [k \in 0..(m + 1) |-> N[k]]
      BY <2>3
    <3> QED
      BY <2>4, <3>1
  <2> QED
    BY <2>5 DEF MergeSteps
<1> HIDE DEF Has
<1>4. \A m \in Nat : m \in P
  <2>1. 0 \in P
    BY <1>1, <1>2
  <2>2. \A m \in Nat : m \in P => m + 1 \in P
    BY <1>1, <1>3
  <2> QED
    BY <2>1, <2>2, SetInduction
<1> QED
  BY <1>1, <1>4 DEF Has

(* Merges runs through them. *)
LEMMA MergesSteps ==
  ASSUME NEW text, NEW regions, NEW n \in Nat
  PROVE  \E M : MergeSteps(M, text, regions, n) /\ Merges(text, regions, n) = M[n]
<1> DEFINE iter == CHOOSE M : M = [k \in 0..n |->
              IF k = 0 THEN {DocumentRoot(text)} ELSE MergeEach(M[k - 1], text, regions[k])]
<1>1. Merges(text, regions, n) = iter[n]
  BY Zenon DEF Merges
<1>2. \E M : M = [k \in 0..n |->
              IF k = 0 THEN {DocumentRoot(text)} ELSE MergeEach(M[k - 1], text, regions[k])]
  <2>1. PICK M : MergeSteps(M, text, regions, n)
    BY MergeStepsExist
  <2>2. M = [k \in 0..n |->
              IF k = 0 THEN {DocumentRoot(text)} ELSE MergeEach(M[k - 1], text, regions[k])]
    BY <2>1, Zenon DEF MergeSteps
  <2> QED
    BY <2>2, Zenon
<1>3. MergeSteps(iter, text, regions, n)
  BY <1>2, Zenon DEF MergeSteps
<1> QED
  BY <1>1, <1>3, Zenon

(* The pieces of a partition are regions, and a provider answers on each.  *)
Answered(text, regions) ==
  /\ regions \in Seq(Range(regions))
  /\ \A r \in Range(regions) : IsRegion(r) /\ Slice(text, r.span) \in DOMAIN AnalysesOf

(* What regions are merged into is an analysis as ir.hpp admits them.      *)
LEMMA MergesAreAnalyses ==
  ASSUME NEW text, IsText(text), NEW regions, Answered(text, regions)
  PROVE  \A d \in Merges(text, regions, Len(regions)) : IsAnalysis(d)
<1>1. PICK n : n = Len(regions) /\ n \in Nat
  BY DEF Answered
<1>2. PICK M : MergeSteps(M, text, regions, n) /\ Merges(text, regions, n) = M[n]
  BY <1>1, MergesSteps
<1>3. \A k \in 1..n : IsRegion(regions[k]) /\ Slice(text, regions[k].span) \in DOMAIN AnalysesOf
  <2>1. \A k \in 1..n : regions[k] \in Range(regions)
    BY <1>1 DEF Answered
  <2> QED
    BY <2>1 DEF Answered
<1> DEFINE Rooted(X) == \A d \in X : IsAnalysis(d) /\ d.nodes # <<>>
<1>4. PICK P : P = {k \in Nat : k <= n => Rooted(M[k])}
  OBVIOUS
<1>5. 0 \in P
  <2>1. M[0] = {DocumentRoot(text)}
    BY <1>1, <1>2 DEF MergeSteps
  <2>2. IsAnalysis(DocumentRoot(text)) /\ DocumentRoot(text).nodes # <<>>
    BY DocumentRootIsValid, Zenon DEF ValidAnalysis, ValidRoot
  <2>3. Rooted(M[0])
    BY <2>1, <2>2
  <2> QED
    BY <1>4, <2>3
<1>6. ASSUME NEW k \in Nat, k \in P PROVE k + 1 \in P
  <2>1. ASSUME k + 1 <= n PROVE Rooted(M[k + 1])
    <3>1. PICK i : i = k + 1 /\ i \in 1..n /\ i \in 0..n /\ i # 0 /\ i - 1 = k
      BY <1>1, <2>1
    <3>2. Rooted(M[k])
      BY <1>1, <1>4, <1>6, <2>1
    <3>3. M[i] = MergeEach(M[k], text, regions[i])
      BY <1>2, <3>1 DEF MergeSteps
    <3>4. ASSUME NEW d \in M[k], NEW a \in AnalysesOf[Slice(text, regions[i].span)]
          PROVE  IsAnalysis(Merge(d, a, regions[i])) /\ Merge(d, a, regions[i]).nodes # <<>>
      <4>1. IsAnalysis(a) /\ a.nodes # <<>>
        BY <1>3, <3>1, AnalysesAssumption, Zenon DEF ValidAnalysis, ValidRoot
      <4>2. IsAnalysis(d) /\ d.nodes # <<>> /\ IsRegion(regions[i])
        BY <1>3, <3>1, <3>2, Zenon
      <4>3. PICK m, r : m = Merge(d, a, r) /\ r = regions[i]
        OBVIOUS
      <4>4. IsAnalysis(m) /\ Merged(m, d, a, r)
        BY <4>1, <4>2, <4>3, MergeIsMerged, Zenon
      <4>5. m.nodes # <<>>
        <5>1. Len(m.nodes) = Len(d.nodes) - 1 + Len(a.nodes) /\ Len(d.nodes) \in Nat \ {0}
                /\ Len(a.nodes) \in Nat \ {0}
          BY <4>4 DEF Merged
        <5>2. PICK q, u, v : q = m.nodes /\ u = Len(d.nodes) /\ v = Len(a.nodes)
          OBVIOUS
        <5>4. Len(q) = u - 1 + v /\ u \in Nat \ {0} /\ v \in Nat \ {0}
          BY <5>1, <5>2, Zenon
        <5>3. Len(q) # 0
          BY <5>4
        <5> QED
          BY <5>2, <5>3
      <4> QED
        BY <4>3, <4>4, <4>5, Zenon
    <3> QED
      <4>1. ASSUME NEW e \in M[i] PROVE IsAnalysis(e) /\ e.nodes # <<>>
        <5>1. PICK d \in M[k], a \in AnalysesOf[Slice(text, regions[i].span)] :
                e = Merge(d, a, regions[i])
          BY <3>3, <4>1 DEF MergeEach
        <5> QED
          BY <3>4, <5>1, Zenon
      <4> QED
        BY <3>1, <4>1, Zenon
  <2> HIDE DEF Rooted
  <2> QED
    BY <1>4, <2>1
<1> HIDE DEF Rooted
<1>7. \A k \in Nat : k \in P
  BY <1>5, <1>6, SetInduction
<1>8. Rooted(M[n])
  BY <1>1, <1>4, <1>7
<1> QED
  BY <1>1, <1>2, <1>8, Zenon DEF Rooted

(* An analysis object is made of an analysis. *)
MadeAnalysis(v) == \E text, a : IsAnalysis(a) /\ v = MakeAnalysis(text, a)

(* What an object is made of, for the kinds whose value matters *)
MadeSignals(v) ==
  \E text, a, by, m :
    /\ MadeBy(by, m)
    /\ v.signals = AllSignals(text, a, m)
    /\ v.from = [text |-> text, analysis |-> a, by |-> by]

MadeResult(v) ==
  v.from # Null =>
    \E s, config :
      /\ MadeSignals(s) /\ ValidPresentationConfig(config)
      /\ v.plan = PlanOf(PresentationConfigOf(config), s.signals)
      /\ v.from = [signals |-> s.from, config |-> config]

Made(kind, value) ==
  /\ kind = "model" => value # Null
  /\ kind = "analysis" => MadeAnalysis(value)
  /\ kind = "signals" => MadeSignals(value)
  /\ kind = "result" => MadeResult(value)

AllMade(o) == \A h \in Live(o) : Made(o[h].kind, o[h].value)

(* The objects of o are in p too, of the kinds they were. *)
KindsStay(o, p) == \A h \in DOMAIN o : h \in DOMAIN p /\ p[h].kind = o[h].kind

(* A variable of a kind holds an object of that kind. *)
OfTheirKinds(o, sl, us) ==
  \A k \in Kinds : k \in us /\ sl[k] # Null => o[sl[k]].kind = k

KindsHeld == program # "binding" => OfTheirKinds(objects, slot, usable)

(* A new object that is made well leaves all so. *)
LEMMA AppendedIsMade ==
  ASSUME NEW o, Records(o), AllMade(o), NEW kind, NEW value, Made(kind, value)
  PROVE  LET p == Append(o, [kind |-> kind, live |-> TRUE, value |-> value]) IN
         AllMade(p) /\ KindsStay(o, p) /\ p[Len(o) + 1].kind = kind
<1> DEFINE r == [kind |-> kind, live |-> TRUE, value |-> value]
           p == Append(o, r)
           S == {o[h] : h \in DOMAIN o}
<1>1. o \in Seq(S) /\ DOMAIN o = 1..Len(o) /\ Len(o) \in Nat
  BY DEF Records
<1>2. r.kind = kind /\ r.value = value
  OBVIOUS
<1> HIDE DEF r, S
<1>3. /\ DOMAIN p = 1..Len(o) + 1
      /\ p[Len(o) + 1] = r
      /\ \A h \in DOMAIN o : p[h] = o[h]
  <2>1. o \in Seq(S \cup {r}) /\ r \in S \cup {r}
    BY <1>1
  <2> QED
    BY <2>1, <1>1
<1> HIDE DEF p
<1>4. \A h \in DOMAIN p : h = Len(o) + 1 \/ h \in DOMAIN o
  BY <1>1, <1>3
<1>5. AllMade(p)
  BY <1>2, <1>3, <1>4 DEF AllMade, Live
<1>6. KindsStay(o, p)
  BY <1>1, <1>3 DEF KindsStay
<1> QED
  BY <1>2, <1>3, <1>5, <1>6, Zenon DEF p, r

(* So do objects that are destroyed. *)
LEMMA DroppedIsMade ==
  ASSUME NEW o, Records(o), AllMade(o), NEW D
  PROVE  AllMade(Without(o, D)) /\ KindsStay(o, Without(o, D))
<1> DEFINE p == Without(o, D)
<1>1. \A h \in DOMAIN o :
        /\ o[h] = [kind |-> o[h].kind, live |-> o[h].live, value |-> o[h].value]
        /\ o[h].live \in BOOLEAN
  BY DEF Records
<1>2. /\ DOMAIN p = DOMAIN o
      /\ \A h \in DOMAIN o :
           p[h] = IF h \in D THEN [o[h] EXCEPT !.live = FALSE, !.value = Null] ELSE o[h]
  BY DEF Without
<1>3. \A h \in DOMAIN o \cap D : p[h] = [kind |-> o[h].kind, live |-> FALSE, value |-> Null]
  BY <1>1, <1>2
<1>4. \A h \in DOMAIN o \ D : p[h] = o[h]
  BY <1>2
<1> HIDE DEF p
<1>5. ASSUME NEW h \in DOMAIN o PROVE p[h].kind = o[h].kind
  <2>1. CASE h \in D
    <3>1. PICK k : k = o[h].kind
      OBVIOUS
    <3>2. p[h] = [kind |-> k, live |-> FALSE, value |-> Null]
      BY <1>3, <2>1, <3>1
    <3> QED
      BY <3>1, <3>2
  <2>2. CASE h \notin D
    BY <1>4, <2>2
  <2> QED
    BY <2>1, <2>2
<1>6. \A h \in Live(p) : h \in Live(o) /\ p[h] = o[h]
  BY <1>2, <1>3, <1>4 DEF Live
<1> QED
  BY <1>2, <1>5, <1>6 DEF AllMade, KindsStay, p

(* What a call may return is made well. *)
GoodOutcomes(kind, outcomes) == \A r \in outcomes : r.status = "OK" => Made(kind, r.value)

(* What holds of the objects, beside HandlesInv *)
MadeInv == AllMade(objects) /\ KindsHeld

LEMMA ReturnMakes ==
  ASSUME HeldState, AllMade(objects),
         NEW t, NEW out \in Slots \cup {Null}, NEW kind, NEW outcomes,
         out # Null => GoodOutcomes(kind, outcomes),
         Return(t, out, kind, outcomes)
  PROVE  /\ AllMade(objects') /\ KindsStay(objects, objects')
         /\ out # Null /\ slot'[out] # Null => objects'[slot'[out]].kind = kind
<1>1. PICK r \in IF out = Null THEN Invalid ELSE outcomes :
        /\ WriteOut(out, r)
        /\ IF r.status = "OK"
           THEN objects' = New(kind, r.value)
           ELSE objects' = objects
  BY DEF Return
<1>2. CASE r.status = "OK"
  <2>1. out # Null
    BY <1>1, <1>2 DEF Invalid, Fails
  <2>2. Made(kind, r.value)
    BY <1>1, <1>2, <2>1 DEF GoodOutcomes
  <2>3. objects' = Append(objects, [kind |-> kind, live |-> TRUE, value |-> r.value])
    BY <1>1, <1>2 DEF New
  <2>4. slot'[out] = Len(objects) + 1
    BY <1>1, <1>2, <2>1 DEF WriteOut, HeldState
  <2>5. PICK v : v = r.value
    OBVIOUS
  <2>6. PICK o : o = objects
    OBVIOUS
  <2>7. /\ AllMade(objects') /\ KindsStay(o, objects')
        /\ objects'[Len(o) + 1].kind = kind
    <3>1. objects' = Append(o, [kind |-> kind, live |-> TRUE, value |-> v])
      BY <2>3, <2>5, <2>6
    <3>2. Records(o) /\ AllMade(o) /\ Made(kind, v)
      BY <2>2, <2>5, <2>6 DEF HeldState
    <3> QED
      BY <3>1, <3>2, AppendedIsMade
  <2> QED
    BY <2>4, <2>6, <2>7
<1>3. CASE r.status # "OK"
  <2>1. objects' = objects
    BY <1>1, <1>3
  <2>2. out # Null => slot'[out] = Null
    BY <1>1, <1>3 DEF WriteOut, HeldState
  <2> QED
    BY <2>1, <2>2 DEF KindsStay
<1> QED
  BY <1>2, <1>3

(* A call that only fails returns nothing. *)
LEMMA FailsAreNotOk == \A S, kind : "OK" \notin S => GoodOutcomes(kind, Fails(S))
  BY DEF GoodOutcomes, Fails

(* A call refused for its arguments returns nothing. *)
LEMMA InvalidIsGood == \A kind : GoodOutcomes(kind, Invalid)
  BY DEF GoodOutcomes, Invalid, Fails

(* Outcomes of either kind of end are good when both are. *)
LEMMA GoodTogether ==
  ASSUME NEW kind, NEW A, NEW B, GoodOutcomes(kind, A), GoodOutcomes(kind, B)
  PROVE  GoodOutcomes(kind, A \cup B)
  BY DEF GoodOutcomes

(* An outcome with a value that is made well *)
LEMMA OkIsGood ==
  ASSUME NEW kind, NEW value, Made(kind, value)
  PROVE  GoodOutcomes(kind, {Ok(value)})
<1>1. Ok(value).value = value
  BY Zenon DEF Ok
<1> QED
  BY <1>1, Zenon DEF GoodOutcomes

(* A loaded model is not null. *)
LEMMA LoadsAreMade ==
  ASSUME NEW runtime, NEW data, data # Null /\ data.verdict = "OK" => data.model # Null
  PROVE  GoodOutcomes("model", ModelLoad(runtime, data))
<1>1. CASE runtime = Null \/ data = Null
  BY <1>1, InvalidIsGood DEF ModelLoad
<1>2. CASE ~(runtime = Null \/ data = Null)
  <2>1. PICK A : A = IF data.verdict = "OK" THEN {Ok(data.model)} ELSE Fails({data.verdict})
    OBVIOUS
  <2>2. GoodOutcomes("model", A)
    <3>1. CASE data.verdict = "OK"
      <4>1. PICK m : m = data.model
        OBVIOUS
      <4>2. Made("model", m)
        BY <1>2, <3>1, <4>1 DEF Made
      <4> QED
        BY <2>1, <3>1, <4>1, <4>2, OkIsGood
    <3>2. CASE data.verdict # "OK"
      BY <2>1, <3>2, FailsAreNotOk
    <3> QED
      BY <3>1, <3>2
  <2>3. ModelLoad(runtime, data) = A \cup Fails({"OUT_OF_MEMORY"})
    BY <1>2, <2>1 DEF ModelLoad
  <2>4. GoodOutcomes("model", Fails({"OUT_OF_MEMORY"}))
    BY FailsAreNotOk
  <2> QED
    BY <2>2, <2>3, <2>4, GoodTogether
<1> QED
  BY <1>1, <1>2

(* Signals are made by the model they are said to be made by. *)
LEMMA SignalsAreMade ==
  ASSUME NEW v, NEW m, NEW by, MadeBy(by, m)
  PROVE  GoodOutcomes("signals", Generate(v, m, by))
<1>1. PICK x : x = [signals |-> AllSignals(v.text, v.core, m),
                    from |-> [text |-> v.text, analysis |-> v.core, by |-> by]]
  OBVIOUS
<1>2. Made("signals", x)
  <2>1. MadeSignals(x)
    BY <1>1, Zenon DEF MadeSignals
  <2> QED
    BY <2>1 DEF Made
<1>3. GoodOutcomes("signals", {Ok(x)})
  BY <1>2, OkIsGood
<1>4. PICK A : A = IF ~ValidAnalysis(v.text, v.core) THEN Fails({"INTERNAL"})
                   ELSE IF ~SupportsAll(m, v.core) THEN Fails({"UNSUPPORTED_LANGUAGE"})
                   ELSE {Ok(x)}
  OBVIOUS
<1>5. GoodOutcomes("signals", A)
  BY <1>3, <1>4, FailsAreNotOk
<1>6. Generate(v, m, by) = A \cup Fails({"OUT_OF_MEMORY"})
  BY <1>1, <1>4, Zenon DEF Generate
<1>7. GoodOutcomes("signals", Fails({"OUT_OF_MEMORY"}))
  BY FailsAreNotOk
<1> QED
  BY <1>5, <1>6, <1>7, GoodTogether

(* le_generate_prefix_signals returns the signals of the prefix it names.  *)
LEMMA PrefixSignalsAreMade ==
  ASSUME NEW runtime, NEW analysis, NEW config
  PROVE  GoodOutcomes("signals", GeneratePrefixSignals(runtime, analysis, config))
<1>1. CASE runtime = Null \/ analysis = Null \/ ~ValidPrefixConfig(config)
  BY <1>1, InvalidIsGood DEF GeneratePrefixSignals
<1>2. CASE ~(runtime = Null \/ analysis = Null \/ ~ValidPrefixConfig(config))
  <2>1. PICK by : by = [model |-> "prefix", config |-> config]
    OBVIOUS
  <2>2. PICK m : m = [kind |-> "prefix", prefix |-> PrefixConfigOf(config), languages |-> {}]
    OBVIOUS
  <2>3. by.model = "prefix" /\ by.config = config
    BY <2>1
  <2>4. MadeBy(by, m)
    BY <1>2, <2>2, <2>3, Zenon DEF MadeBy
  <2>5. GeneratePrefixSignals(runtime, analysis, config) = Generate(Value(analysis), m, by)
    BY <1>2, <2>1, <2>2, Zenon DEF GeneratePrefixSignals
  <2> QED
    BY <2>4, <2>5, SignalsAreMade
<1> QED
  BY <1>1, <1>2

(* le_generate_lexical_core_signals returns the signals of the core's      *)
(* model.                                                                  *)
LEMMA CoreSignalsAreMade ==
  ASSUME NEW runtime, NEW analysis
  PROVE  GoodOutcomes("signals", GenerateLexicalCoreSignals(runtime, analysis))
<1>1. CASE runtime = Null \/ analysis = Null
  BY <1>1, InvalidIsGood DEF GenerateLexicalCoreSignals
<1>2. CASE ~(runtime = Null \/ analysis = Null)
  <2>1. PICK by : by = [model |-> "lexical_core", config |-> Null]
    OBVIOUS
  <2>2. PICK m : m = [kind |-> "lexical_core", languages |-> {}]
    OBVIOUS
  <2>3. by.model = "lexical_core"
    BY <2>1
  <2>4. MadeBy(by, m)
    BY <2>2, <2>3, Zenon DEF MadeBy
  <2>5. GenerateLexicalCoreSignals(runtime, analysis) = Generate(Value(analysis), m, by)
    BY <1>2, <2>1, <2>2, Zenon DEF GenerateLexicalCoreSignals
  <2> QED
    BY <2>4, <2>5, SignalsAreMade
<1> QED
  BY <1>1, <1>2

(* le_generate_model_signals returns the signals of the model passed. *)
LEMMA ModelSignalsAreMade ==
  ASSUME NEW runtime, NEW analysis, NEW model, model # Null => Value(model) # Null
  PROVE  GoodOutcomes("signals", GenerateModelSignals(runtime, analysis, model))
<1>1. CASE runtime = Null \/ analysis = Null \/ model = Null
  BY <1>1, InvalidIsGood DEF GenerateModelSignals
<1>2. CASE ~(runtime = Null \/ analysis = Null \/ model = Null)
  <2>1. PICK m : m = Value(model)
    OBVIOUS
  <2>2. PICK by : by = [model |-> "artifact", config |-> m]
    OBVIOUS
  <2>3. by.model = "artifact" /\ by.config = m
    BY <2>2
  <2>4. MadeBy(by, m)
    BY <1>2, <2>1, <2>3, Zenon DEF MadeBy
  <2>5. GenerateModelSignals(runtime, analysis, model) = Generate(Value(analysis), m, by)
    BY <1>2, <2>1, <2>2, Zenon DEF GenerateModelSignals
  <2> QED
    BY <2>4, <2>5, SignalsAreMade
<1> QED
  BY <1>1, <1>2

(* le_generate_emphasis returns the plan of the signals passed. *)
LEMMA EmphasisIsMade ==
  ASSUME NEW runtime, NEW signals, NEW config,
         signals # Null => Made("signals", Value(signals))
  PROVE  GoodOutcomes("result", GenerateEmphasis(runtime, signals, config))
<1>1. CASE runtime = Null \/ signals = Null \/ ~ValidPresentationConfig(config)
  BY <1>1, InvalidIsGood DEF GenerateEmphasis
<1>2. CASE ~(runtime = Null \/ signals = Null \/ ~ValidPresentationConfig(config))
  <2>1. PICK s : s = Value(signals)
    OBVIOUS
  <2>2. PICK x : x = [plan |-> PlanOf(PresentationConfigOf(config), s.signals),
                      from |-> [signals |-> s.from, config |-> config]]
    OBVIOUS
  <2>3. MadeSignals(s)
    BY <1>2, <2>1 DEF Made
  <2>4. /\ x.plan = PlanOf(PresentationConfigOf(config), s.signals)
        /\ x.from = [signals |-> s.from, config |-> config]
    BY <2>2, Zenon
  <2>5. Made("result", x)
    <3>1. MadeResult(x)
      BY <1>2, <2>3, <2>4, Zenon DEF MadeResult
    <3> QED
      BY <3>1 DEF Made
  <2>6. GenerateEmphasis(runtime, signals, config) = {Ok(x)} \cup Fails({"OUT_OF_MEMORY"})
    BY <1>2, <2>1, <2>2, Zenon DEF GenerateEmphasis
  <2>7. GoodOutcomes("result", {Ok(x)})
    BY <2>5, OkIsGood
  <2>8. GoodOutcomes("result", Fails({"OUT_OF_MEMORY"}))
    BY FailsAreNotOk
  <2> QED
    BY <2>6, <2>7, <2>8, GoodTogether
<1> QED
  BY <1>1, <1>2

(* A plan of the one call has no stages. *)
LEMMA ProcessedIsMade ==
  ASSUME NEW runtime, NEW artifact, NEW text, NEW mode, NEW regions, NEW o
  PROVE  GoodOutcomes("result", Process(runtime, artifact, text, mode, regions, o))
<1> DEFINE settings == SettingsOf(o)
           model == ReadingModel(artifact, settings)
           One(a) == IF SupportsAll(model, a)
                     THEN {Ok([plan |-> PlanOf(settings.presentation,
                                               AllSignals(text, a, model)),
                               from |-> Null])}
                     ELSE Fails({"UNSUPPORTED_LANGUAGE"})
           All == UNION {One(a) : a \in Answers(text, mode, regions)}
<1>1. ASSUME NEW a PROVE GoodOutcomes("result", One(a))
  <2>1. PICK x : x = [plan |-> PlanOf(settings.presentation, AllSignals(text, a, model)),
                      from |-> Null]
    OBVIOUS
  <2>2. Made("result", x)
    <3>1. x.from = Null
      BY <2>1, Zenon
    <3> QED
      BY <3>1 DEF Made, MadeResult
  <2> QED
    BY <2>1, <2>2, OkIsGood, FailsAreNotOk
<1> HIDE DEF One
<1>2. GoodOutcomes("result", All)
  BY <1>1 DEF GoodOutcomes
<1>3. \/ Process(runtime, artifact, text, mode, regions, o) = Invalid
      \/ Process(runtime, artifact, text, mode, regions, o) = Fails({"INVALID_UTF8", "OUT_OF_MEMORY"})
      \/ Process(runtime, artifact, text, mode, regions, o) = All \cup ProviderFailures
  <2>1. CASE runtime = Null \/ text = Null \/ ~Accepted(o, mode)
    BY <2>1, Zenon DEF Process
  <2>2. CASE ~(runtime = Null \/ text = Null \/ ~Accepted(o, mode)) /\ text = Malformed
    BY <2>2, Zenon DEF Process
  <2>3. CASE /\ ~(runtime = Null \/ text = Null \/ ~Accepted(o, mode)) /\ text # Malformed
             /\ ~UsableRegions(text, mode, regions)
    BY <2>3, Zenon DEF Process
  <2>4. CASE /\ ~(runtime = Null \/ text = Null \/ ~Accepted(o, mode)) /\ text # Malformed
             /\ UsableRegions(text, mode, regions)
    <3>1. Process(runtime, artifact, text, mode, regions, o) = All \cup ProviderFailures
      BY <2>4 DEF Process, One
    <3> QED
      BY <3>1
  <2> QED
    BY <2>1, <2>2, <2>3, <2>4, Zenon
<1>4. GoodOutcomes("result", All \cup ProviderFailures)
  BY <1>2, FailsAreNotOk, GoodTogether DEF ProviderFailures
<1> QED
  BY <1>3, <1>4, InvalidIsGood, FailsAreNotOk

(* le_analyze and le_analyze_regions return what they can make of it. *)
LEMMA AnalyzedIsMade ==
  ASSUME NEW runtime, NEW text, NEW mode \in {"direct", "regions"}, NEW regions, NEW language,
         text \notin {Null, Malformed} => text \in DOMAIN AnalysesOf,
         text \notin {Null, Malformed} /\ mode = "regions" /\ regions # Null
           /\ ValidPartition(text, regions) => Answered(text, regions)
  PROVE  GoodOutcomes("analysis", Analyze(runtime, text, mode, regions, language))
<1> DEFINE One(a) == Ok(MakeAnalysis(text, a))
           All == {One(a) : a \in Answers(text, mode, regions)}
<1>1. CASE runtime = Null \/ text = Null \/ (mode = "direct" /\ ~ValidLanguage(language))
  BY <1>1, InvalidIsGood, Zenon DEF Analyze
<1>2. CASE ~(runtime = Null \/ text = Null \/ (mode = "direct" /\ ~ValidLanguage(language)))
  <2>1. CASE text = Malformed
    BY <1>2, <2>1, FailsAreNotOk DEF Analyze
  <2>2. CASE text # Malformed /\ ~UsableRegions(text, mode, regions)
    BY <1>2, <2>2, InvalidIsGood, Zenon DEF Analyze
  <2>3. CASE text # Malformed /\ UsableRegions(text, mode, regions)
    <3>1. Analyze(runtime, text, mode, regions, language) = All \cup ProviderFailures
      BY <1>2, <2>3, Zenon DEF Analyze
    <3>2. text \in DOMAIN AnalysesOf /\ IsText(text)
      BY <1>2, <2>3, AnalysesAssumption
    <3>3. ASSUME NEW a \in Answers(text, mode, regions) PROVE IsAnalysis(a)
      <4>1. CASE mode = "direct"
        BY <3>2, <3>3, <4>1, AnalysesAssumption DEF Answers
      <4>2. CASE mode = "regions"
        <5>1. Answered(text, regions)
          BY <1>2, <2>3, <4>2 DEF UsableRegions
        <5>2. a \in Merges(text, regions, Len(regions))
          BY <3>3, <4>2 DEF Answers
        <5> QED
          BY <3>2, <5>1, <5>2, MergesAreAnalyses
      <4> QED
        BY <4>1, <4>2
    <3>4. ASSUME NEW a \in Answers(text, mode, regions) PROVE GoodOutcomes("analysis", {One(a)})
      <4>1. PICK v : v = MakeAnalysis(text, a)
        OBVIOUS
      <4>2. MadeAnalysis(v)
        BY <3>3, <4>1, Zenon DEF MadeAnalysis
      <4>3. Made("analysis", v)
        BY <4>2 DEF Made
      <4> QED
        BY <4>1, <4>3, OkIsGood
    <3> HIDE DEF One
    <3>5. GoodOutcomes("analysis", All)
      BY <3>4 DEF GoodOutcomes
    <3> QED
      BY <3>1, <3>5, FailsAreNotOk, GoodTogether DEF ProviderFailures
  <2> QED
    BY <2>1, <2>2, <2>3
<1> QED
  BY <1>1, <1>2

(* Runtimes promise nothing of their values here. *)
LEMMA OthersAreGood ==
  ASSUME NEW kind, kind \notin {"model", "analysis", "signals", "result"}, NEW outcomes
  PROVE  GoodOutcomes(kind, outcomes)
  BY DEF GoodOutcomes, Made

(* What a variable of a C program or of le-cli holds is made as its kind. *)
LEMMA HeldIsMade ==
  ASSUME HeldState, MadeInv, program # "binding", NEW k \in Kinds, k \in usable, slot[k] # Null
  PROVE  Made(k, Value(slot[k]))
<1>1. slot[k] \in Live(objects)
  BY DEF HeldState, Holds
<1>2. objects[slot[k]].kind = k
  BY DEF MadeInv, KindsHeld, OfTheirKinds
<1> QED
  BY <1>1, <1>2 DEF MadeInv, AllMade, Value

(* A step that gives at most one variable something new, of its own kind *)
LEMMA KindsCarryOver ==
  ASSUME HeldState, KindsHeld, program' = program, KindsStay(objects, objects'), NEW out,
         \A s \in Kinds \ {out} : s \in usable' => s \in usable /\ slot'[s] = slot[s],
         out \in Kinds /\ slot'[out] # Null => objects'[slot'[out]].kind = out
  PROVE  KindsHeld'
<1> SUFFICES ASSUME program # "binding", NEW k \in Kinds, k \in usable', slot'[k] # Null
             PROVE  objects'[slot'[k]].kind = k
  BY DEF KindsHeld, OfTheirKinds
<1>1. CASE k = out
  BY <1>1
<1>2. CASE k # out
  <2>1. k \in usable /\ slot'[k] = slot[k]
    BY <1>2
  <2>2. slot[k] \in DOMAIN objects
    BY <2>1 DEF HeldState, Holds, Live
  <2> QED
    BY <2>1, <2>2 DEF KindsStay, KindsHeld, OfTheirKinds
<1> QED
  BY <1>1, <1>2

(* A call through a variable that holds nothing alive *)
LEMMA CallMakes ==
  ASSUME HeldState, MadeInv, program' = program,
         NEW t, NEW out \in Slots \cup {Null}, NEW kind, NEW outcomes,
         out \in usable => slot[out] = Null,
         out \in Kinds => kind = out,
         out # Null => GoodOutcomes(kind, outcomes),
         Return(t, out, kind, outcomes)
  PROVE  MadeInv'
<1>1. /\ AllMade(objects') /\ KindsStay(objects, objects')
      /\ out # Null /\ slot'[out] # Null => objects'[slot'[out]].kind = kind
  BY ReturnMakes DEF MadeInv
<1>2. /\ usable' = usable \cup ({out} \ {Null})
      /\ \A s \in Slots \ {out} : slot'[s] = slot[s]
  BY ReturnHolds
<1>3. Kinds \subseteq Slots /\ Null \notin Kinds
  BY SlotsAssumption DEF Slots, Named
<1>4. \A s \in Kinds \ {out} : s \in usable' => s \in usable /\ slot'[s] = slot[s]
  BY <1>2, <1>3
<1>5. out \in Kinds /\ slot'[out] # Null => objects'[slot'[out]].kind = out
  BY <1>1, <1>3
<1>6. KindsHeld
  BY DEF MadeInv
<1>7. KindsHeld'
  BY <1>1, <1>4, <1>5, <1>6, KindsCarryOver
<1> QED
  BY <1>1, <1>7 DEF MadeInv

(* Objects destroyed, and variables that give up what they hold *)
LEMMA DestroyMakes ==
  ASSUME HeldState, MadeInv, program' = program, NEW D, objects' = Without(objects, D),
         program = "binding" \/ \A s \in Kinds : s \in usable' =>
                                   s \in usable /\ slot'[s] \in {slot[s], Null}
  PROVE  MadeInv'
<1>1. AllMade(objects') /\ KindsStay(objects, objects')
  BY DroppedIsMade DEF HeldState, MadeInv
<1>2. KindsHeld'
  <2> SUFFICES ASSUME program # "binding", NEW k \in Kinds, k \in usable', slot'[k] # Null
               PROVE  objects'[slot'[k]].kind = k
    BY DEF KindsHeld, OfTheirKinds
  <2>1. k \in usable /\ slot'[k] = slot[k]
    OBVIOUS
  <2>2. slot[k] \in DOMAIN objects
    BY <2>1 DEF HeldState, Holds, Live
  <2> QED
    BY <1>1, <2>1, <2>2 DEF KindsStay, KindsHeld, OfTheirKinds, MadeInv
<1> QED
  BY <1>1, <1>2 DEF MadeInv

(* A file or a buffer in the place of another *)
LEMMA PutMakes ==
  ASSUME HeldState, MadeInv, program' = program, NEW x \in Slots \ Kinds,
         NEW kind \in {"file", "buffer"}, Put(x, kind)
  PROVE  MadeInv'
<1>1. PICK o : o = Without(objects, {slot[x]})
  OBVIOUS
<1>2. Records(o) /\ AllMade(o) /\ KindsStay(objects, o)
  BY <1>1, Dropped, DroppedIsMade DEF HeldState, MadeInv
<1>3. objects' = Append(o, [kind |-> kind, live |-> TRUE, value |-> Null])
  BY <1>1 DEF Put, Destroyed, Without
<1>4. Made(kind, Null)
  BY DEF Made
<1>5. PICK v : v = Null
  OBVIOUS
<1>6. AllMade(objects') /\ KindsStay(o, objects')
  BY <1>2, <1>3, <1>4, <1>5, AppendedIsMade
<1>7. KindsStay(objects, objects')
  BY <1>2, <1>6 DEF KindsStay
<1>8. \A s \in Kinds \ {x} : s \in usable' => s \in usable /\ slot'[s] = slot[s]
  BY SlotsAssumption DEF Put, HeldState, Slots, Named
<1>9. KindsHeld
  BY DEF MadeInv
<1>10. KindsHeld'
  BY <1>7, <1>8, <1>9, KindsCarryOver
<1> QED
  BY <1>6, <1>10 DEF MadeInv

(* A C program's calls keep every object made as its kind is. *)
LEMMA CKeepsMade ==
  ASSUME HandlesInv, MadeInv, program = "c", program' = program, CNext(Me)
  PROVE  MadeInv'
<1>1. HeldState /\ Kinds \subseteq Slots /\ program # "binding" /\ Null \notin Kinds
  BY SlotsAssumption DEF HandlesInv, Slots, Named
<1>2. ASSUME NEW kind \in Kinds, NEW outcomes, GoodOutcomes(kind, outcomes),
             Create(Me, kind, outcomes)
      PROVE  MadeInv'
  <2>1. kind \in usable => slot[kind] = Null
    BY <1>2 DEF Create, MayWrite
  <2> QED
    BY <1>1, <1>2, <2>1, CallMakes DEF Create
<1>3. CASE CreateRuntime(Me)
  BY <1>2, <1>3, OthersAreGood DEF CreateRuntime, Kinds
<1>4. CASE LoadModel(Me)
  <2>1. PICK data \in Artifacts : Create(Me, "model", ModelLoad(slot["runtime"], data))
    BY <1>4 DEF LoadModel
  <2>2. data # Null /\ data.verdict = "OK" => data.model # Null
    BY LoadsAssumption
  <2>3. GoodOutcomes("model", ModelLoad(slot["runtime"], data))
    BY <2>2, LoadsAreMade
  <2> QED
    BY <1>2, <2>1, <2>3 DEF Kinds
<1>5. CASE AnalyzeText(Me)
  <2>1. ASSUME NEW text \in Texts, NEW mode \in {"direct", "regions"},
               NEW regions \in Partitions \cup {Null}, NEW language,
               Create(Me, "analysis", Analyze(slot["runtime"], text, mode, regions, language))
        PROVE  MadeInv'
    <3>1. text \notin {Null, Malformed} => text \in DOMAIN AnalysesOf
      BY TextsAssumption
    <3>2. text \notin {Null, Malformed} /\ mode = "regions" /\ regions # Null
            /\ ValidPartition(text, regions) => Answered(text, regions)
      BY TextsAssumption DEF Answered
    <3>3. GoodOutcomes("analysis", Analyze(slot["runtime"], text, mode, regions, language))
      BY <3>1, <3>2, AnalyzedIsMade
    <3> QED
      BY <1>2, <2>1, <3>3 DEF Kinds
  <2>2. PICK text \in Texts :
          \/ \E language \in Languages :
               Create(Me, "analysis", Analyze(slot["runtime"], text, "direct", Null, language))
          \/ \E regions \in Partitions :
               Create(Me, "analysis", Analyze(slot["runtime"], text, "regions", regions, ""))
    BY <1>5 DEF AnalyzeText
  <2> QED
    BY <2>1, <2>2
<1>6. CASE GenerateSignals(Me)
  <2>1. ASSUME NEW config,
               Create(Me, "signals", GeneratePrefixSignals(slot["runtime"], slot["analysis"], config))
        PROVE  MadeInv'
    BY <1>2, <2>1, PrefixSignalsAreMade DEF Kinds
  <2>2. CASE Create(Me, "signals", GenerateLexicalCoreSignals(slot["runtime"], slot["analysis"]))
    BY <1>2, <2>2, CoreSignalsAreMade DEF Kinds
  <2>3. CASE /\ MayPass({"model"})
             /\ Create(Me, "signals",
                       GenerateModelSignals(slot["runtime"], slot["analysis"], slot["model"]))
    <3>1. "model" \in usable /\ "model" \in Kinds
      BY <2>3 DEF MayPass, Kinds
    <3>2. slot["model"] # Null => Value(slot["model"]) # Null
      BY <1>1, <3>1, HeldIsMade DEF Made
    <3>3. GoodOutcomes("signals",
            GenerateModelSignals(slot["runtime"], slot["analysis"], slot["model"]))
      BY <3>2, ModelSignalsAreMade
    <3> QED
      BY <1>2, <2>3, <3>3 DEF Kinds
  <2> QED
    BY <1>6, <2>1, <2>2, <2>3 DEF GenerateSignals
<1>7. CASE EmphasizeSignals(Me)
  <2>1. PICK config : Create(Me, "result",
                             GenerateEmphasis(slot["runtime"], slot["signals"], config))
    BY <1>7 DEF EmphasizeSignals
  <2>2. "signals" \in usable /\ "signals" \in Kinds
    BY <1>7 DEF EmphasizeSignals, MayPass, Kinds
  <2>3. slot["signals"] # Null => Made("signals", Value(slot["signals"]))
    BY <1>1, <2>2, HeldIsMade
  <2>4. GoodOutcomes("result", GenerateEmphasis(slot["runtime"], slot["signals"], config))
    BY <2>3, EmphasisIsMade
  <2> QED
    BY <1>2, <2>1, <2>4 DEF Kinds
<1>8. CASE ProcessText(Me)
  <2>1. PICK outcomes : /\ Create(Me, "result", outcomes)
                        /\ \/ outcomes = Invalid
                           \/ \E artifact, text, mode, regions, o :
                                outcomes = Process(slot["runtime"], artifact, text, mode, regions, o)
    BY <1>8 DEF ProcessText
  <2>2. GoodOutcomes("result", outcomes)
    BY <2>1, InvalidIsGood, ProcessedIsMade
  <2> QED
    BY <1>2, <2>1, <2>2 DEF Kinds
<1>9. CASE CallWithoutOut(Me)
  <2>1. PICK out : out = Null
    OBVIOUS
  <2>2. /\ Return(Me, out, "result", Invalid)
        /\ out \in Slots \cup {Null} /\ out \notin usable /\ out \notin Kinds
    BY <1>1, <1>9, <2>1, SlotsAssumption DEF CallWithoutOut, HeldState
  <2> QED
    BY <1>1, <2>1, <2>2, CallMakes
<1>10. CASE DestroyOne(Me)
  <2>1. PICK k \in Kinds :
          /\ objects' = Without(objects, {slot[k]})
          /\ usable' = usable \ {k}
          /\ slot' = slot
    BY <1>10 DEF DestroyOne, Destroy, Destroyed, Without
  <2>2. PICK D : D = {slot[k]}
    OBVIOUS
  <2>3. \A s \in Kinds : s \in usable' => s \in usable /\ slot'[s] \in {slot[s], Null}
    BY <2>1
  <2> QED
    BY <1>1, <2>1, <2>2, <2>3, DestroyMakes
<1> QED
  BY <1>3, <1>4, <1>5, <1>6, <1>7, <1>8, <1>9, <1>10 DEF CNext

(* What le-cli has read is what its files held. *)
FilesRead ==
  program = "le-cli" =>
    /\ {"text", "data"} \subseteq DOMAIN parsed
    /\ parsed.text \in FileTexts \cup {Null}
    /\ parsed.data \in FileArtifacts \cup {Null}

(* Setting a field of what has been parsed leaves the rest. *)
LEMMA FieldsStay ==
  ASSUME NEW p, {"text", "data"} \subseteq DOMAIN p
  PROVE  /\ \A f, v : /\ DOMAIN [p EXCEPT ![f] = v] = DOMAIN p
                      /\ f # "text" => [p EXCEPT ![f] = v].text = p.text
                      /\ f # "data" => [p EXCEPT ![f] = v].data = p.data
         /\ \A v : [p EXCEPT !.text = v].text = v /\ [p EXCEPT !.data = v].data = v
  OBVIOUS

(* What has been parsed but for the files' contents *)
SameFiles(p, q) == DOMAIN q = DOMAIN p /\ q.text = p.text /\ q.data = p.data

(* le-cli's arguments change nothing of what its files held. *)
LEMMA ArgumentsLeaveFiles ==
  ASSUME {"text", "data"} \subseteq DOMAIN parsed, TakeArgument
  PROVE  SameFiles(parsed, parsed')
<1> DEFINE P == parsed
<1>1. \/ parsed' = parsed
      \/ \E p : /\ parsed' = [p EXCEPT !.at = p.at + 1]
                /\ \E v : \E f \in {"path", "artifact", "dump", "options"} : p = [P EXCEPT ![f] = v]
  <2>1. PICK arg : arg = line[parsed.at]
    OBVIOUS
  <2>2. \/ \E code : ReturnNow(code)
        \/ Take([parsed EXCEPT !.path = TRUE])
        \/ Take([parsed EXCEPT !.artifact = TRUE])
        \/ Take([parsed EXCEPT !.dump = parsed.dump \cup {Option}])
        \/ Take([parsed EXCEPT !.options = SetField(parsed.options, arg)])
    BY <2>1, Zenon DEF TakeArgument
  <2>3. CASE \E code : ReturnNow(code)
    BY <2>3 DEF ReturnNow
  <2>4. ASSUME NEW f \in {"path", "artifact", "dump", "options"}, NEW v,
               Take([parsed EXCEPT ![f] = v])
        PROVE  \E p : /\ parsed' = [p EXCEPT !.at = p.at + 1]
                      /\ \E w : \E g \in {"path", "artifact", "dump", "options"} : p = [P EXCEPT ![g] = w]
    BY <2>4, Zenon DEF Take
  <2> QED
    BY <2>2, <2>3, <2>4, Zenon
<1>2. ASSUME NEW p, parsed' = [p EXCEPT !.at = p.at + 1],
             NEW f \in {"path", "artifact", "dump", "options"}, NEW v, p = [P EXCEPT ![f] = v]
      PROVE  SameFiles(parsed, parsed')
  <2>1. SameFiles(parsed, p)
    BY <1>2, FieldsStay DEF SameFiles
  <2>2. {"text", "data"} \subseteq DOMAIN p
    BY <2>1 DEF SameFiles
  <2>3. PICK n : n = p.at + 1
    OBVIOUS
  <2>4. SameFiles(p, parsed')
    BY <1>2, <2>2, <2>3, FieldsStay DEF SameFiles
  <2> QED
    BY <2>1, <2>4 DEF SameFiles
<1> QED
  BY <1>1, <1>2 DEF SameFiles

(* le-cli parses nothing but what it read. *)
LEMMA LineKeepsFiles ==
  ASSUME FilesRead, program = "le-cli", program' = program, LineNext
  PROVE  FilesRead'
<1>1. /\ {"text", "data"} \subseteq DOMAIN parsed
      /\ parsed.text \in FileTexts \cup {Null}
      /\ parsed.data \in FileArtifacts \cup {Null}
  BY DEF FilesRead
<1>2. CASE SameFiles(parsed, parsed')
  BY <1>1, <1>2 DEF FilesRead, SameFiles
<1>3. \/ TakeArgument
      \/ parsed' = parsed
      \/ \E c \in FileTexts : parsed' = [parsed EXCEPT !.text = c]
      \/ \E c \in FileArtifacts : parsed' = [parsed EXCEPT !.data = c]
  <2> USE DEF Go, ReturnNow, CallThen, lineVars
  <2>1. CASE ArgumentsDone \/ OpenInput \/ CreateRuntimeHandle \/ OpenArtifact
    BY <2>1 DEF ArgumentsDone, OpenInput, CreateRuntimeHandle, OpenArtifact
  <2>2. CASE ReadInput
    BY <2>2 DEF ReadInput, Allocate, Grow, ReadFails, ReadDone
  <2>3. CASE ReadArtifact
    BY <2>3 DEF ReadArtifact, Allocate, Grow, ReadFails, ReadDone
  <2>4. CASE CloseArtifact \/ LoadArtifact \/ RunStage \/ DumpSignals
    BY <2>4 DEF CloseArtifact, LoadArtifact, RunStage, DumpSignals
  <2>5. CASE PrintStage \/ Cleanup
    BY <2>5 DEF PrintStage, Cleanup
  <2> QED
    BY <2>1, <2>2, <2>3, <2>4, <2>5 DEF LineNext
<1>4. CASE TakeArgument
  BY <1>1, <1>2, <1>4, ArgumentsLeaveFiles
<1>5. CASE parsed' = parsed
  BY <1>2, <1>5 DEF SameFiles
<1>6. ASSUME NEW c \in FileTexts, parsed' = [parsed EXCEPT !.text = c]
      PROVE  FilesRead'
  <2>1. DOMAIN parsed' = DOMAIN parsed /\ parsed'.text = c /\ parsed'.data = parsed.data
    BY <1>1, <1>6, FieldsStay
  <2> QED
    BY <1>1, <2>1 DEF FilesRead
<1>7. ASSUME NEW c \in FileArtifacts, parsed' = [parsed EXCEPT !.data = c]
      PROVE  FilesRead'
  <2>1. DOMAIN parsed' = DOMAIN parsed /\ parsed'.data = c /\ parsed'.text = parsed.text
    BY <1>1, <1>7, FieldsStay
  <2> QED
    BY <1>1, <2>1 DEF FilesRead
<1> QED
  BY <1>3, <1>4, <1>5, <1>6, <1>7

(* le-cli's calls keep every object made as its kind is. *)
LEMMA LineKeepsMade ==
  ASSUME HandlesInv, FilesRead, MadeInv, program = "le-cli", program' = program, LineNext
  PROVE  MadeInv'
<1>1. HeldState /\ Kinds \subseteq Slots /\ program # "binding" /\ Null \notin Kinds
  BY SlotsAssumption DEF HandlesInv, Slots, Named
<1>2. CASE UNCHANGED <<objects, slot, usable>>
  BY <1>2 DEF MadeInv, AllMade, KindsHeld, OfTheirKinds, Live
<1>3. ASSUME NEW kind \in Kinds, NEW outcomes, GoodOutcomes(kind, outcomes),
             slot[kind] = Null, NEW next, CallThen(kind, outcomes, next)
      PROVE  MadeInv'
  BY <1>1, <1>3, CallMakes DEF CallThen
<1>4. ASSUME NEW x \in {"input", "text", "artifact_input", "artifact_data"},
             NEW kind \in {"file", "buffer"}, Put(x, kind)
      PROVE  MadeInv'
  <2>1. x \in Slots \ Kinds
    BY DEF Slots, Named, Kinds
  <2> QED
    BY <1>1, <1>4, <2>1, PutMakes
<1>5. ASSUME NEW S, Drop(S)
      PROVE  MadeInv'
  <2>1. PICK D : D = {slot[s] : s \in S}
    OBVIOUS
  <2>2. objects' = Without(objects, D)
    BY <1>5, <2>1 DEF Drop, Destroyed, Without
  <2>3. \A s \in Kinds : s \in usable' => s \in usable /\ slot'[s] \in {slot[s], Null}
    BY <1>1, <1>5 DEF Drop
  <2> QED
    BY <1>1, <2>2, <2>3, DestroyMakes
<1>6. CASE TakeArgument \/ ArgumentsDone \/ PrintStage
  BY <1>2, <1>6, Zenon DEF TakeArgument, ArgumentsDone, PrintStage, apiVars
<1>7. CASE OpenInput \/ OpenArtifact
  BY <1>2, <1>4, <1>7 DEF OpenInput, OpenArtifact, apiVars
<1>8. CASE ReadInput
  BY <1>2, <1>4, <1>5, <1>8 DEF ReadInput, Allocate, Grow, ReadFails, ReadDone, apiVars
<1>9. CASE ReadArtifact
  BY <1>2, <1>4, <1>5, <1>9 DEF ReadArtifact, Allocate, Grow, ReadFails, ReadDone, apiVars
<1>10. CASE CreateRuntimeHandle
  <2>1. slot["runtime"] = Null
    BY <1>10 DEF CreateRuntimeHandle, At, HandlesInv, StagedSlots, Opening
  <2> QED
    BY <1>3, <1>10, <2>1, OthersAreGood DEF CreateRuntimeHandle, Kinds
<1>11. CASE LoadArtifact
  <2>1. slot["model"] = Null
    BY <1>1, <1>11 DEF LoadArtifact, At, HandlesInv, StagedSlots, Loading
  <2>2. PICK data : data = parsed.data
    OBVIOUS
  <2>3. data # Null /\ data.verdict = "OK" => data.model # Null
    <3>1. data \in FileArtifacts \/ data = Null
      BY <2>2 DEF FilesRead
    <3> QED
      BY <3>1, LoadsAssumption
  <2>4. GoodOutcomes("model", ModelLoad(slot["runtime"], data))
    BY <2>3, LoadsAreMade
  <2> QED
    BY <1>3, <1>11, <2>1, <2>2, <2>4 DEF LoadArtifact, Kinds
<1>12. CASE RunStage
  <2>1. slot["analysis"] = Null /\ slot["result"] = Null
    BY <1>1, <1>12 DEF RunStage, At, HandlesInv, StagedSlots, Running
  <2>2. PICK text, mode : text = parsed.text /\ mode = "direct"
    OBVIOUS
  <2>3. text \notin {Null, Malformed} => text \in DOMAIN AnalysesOf
    BY <2>2, FileTextsAssumption DEF FilesRead
  <2>4. \A language :
          GoodOutcomes("analysis", Analyze(slot["runtime"], parsed.text, "direct", Null, language))
    BY <2>2, <2>3, AnalyzedIsMade
  <2> QED
    BY <1>3, <1>12, <2>1, <2>4, ProcessedIsMade DEF RunStage, Kinds
<1>13. CASE DumpSignals
  <2>1. slot["signals"] = Null /\ usable = Named
    BY <1>1, <1>13 DEF DumpSignals, At, HandlesInv, StagedSlots
  <2>2. slot["model"] # Null => Value(slot["model"]) # Null
    BY <1>1, <2>1, HeldIsMade DEF Made, Kinds, Named
  <2>3. GoodOutcomes("signals",
          GenerateModelSignals(slot["runtime"], slot["analysis"], slot["model"]))
    BY <2>2, ModelSignalsAreMade
  <2>4. GoodOutcomes("signals", GenerateLexicalCoreSignals(slot["runtime"], slot["analysis"]))
    BY CoreSignalsAreMade
  <2>5. \A config :
          GoodOutcomes("signals", GeneratePrefixSignals(slot["runtime"], slot["analysis"], config))
    BY PrefixSignalsAreMade
  <2>6. PICK outcomes : CallThen("signals", outcomes, "print") /\ GoodOutcomes("signals", outcomes)
    BY <1>13, <2>3, <2>4, <2>5, Zenon DEF DumpSignals
  <2> QED
    BY <1>3, <2>1, <2>6 DEF Kinds
<1>14. CASE CloseArtifact
  BY <1>5, <1>14 DEF CloseArtifact
<1>15. CASE Cleanup
  <2>1. PICK D : D = {slot[s] : s \in {"signals", "analysis", "result", "model", "runtime",
                                       "artifact_data", "text", "input"}}
    OBVIOUS
  <2>2. objects' = Without(objects, D) /\ usable' = {}
    BY <1>15, <2>1 DEF Cleanup, Destroyed, Without
  <2> QED
    BY <1>1, <2>2, DestroyMakes
<1> QED
  BY <1>6, <1>7, <1>8, <1>9, <1>10, <1>11, <1>12, <1>13, <1>14, <1>15 DEF LineNext

(* The Python binding's calls keep every object made as its kind is. *)
LEMMA BindingKeepsMade ==
  ASSUME HandlesInv, MadeInv, program = "binding", program' = program,
         NEW t \in Threads, BindingNext(t)
  PROVE  MadeInv'
<1>1. /\ HeldState
      /\ t \in Slots /\ "runtime" \in Slots
      /\ "runtime" \in Kinds /\ t \notin Kinds /\ t # Null
      /\ doing \in [Threads -> Operations \cup {Null}]
      /\ t \in usable /\ slot[t] # Null => doing[t] # Null /\ doing[t].step = "take"
  BY SlotsAssumption DEF HandlesInv, BoundSlots, Slots, Named, Kinds
<1>2. CASE UNCHANGED <<objects, slot, usable>>
  BY <1>2 DEF MadeInv, AllMade, KindsHeld, OfTheirKinds, Live
<1>3. ASSUME NEW s, NEW slots, Dispose(s, slots)
      PROVE  MadeInv'
  <2>1. PICK D : D = {slot[s]}
    OBVIOUS
  <2>2. objects' = Without(objects, D)
    BY <1>3, <2>1 DEF Dispose, Destroyed, Without
  <2> QED
    BY <1>1, <2>2, DestroyMakes
<1>4. CASE NewRuntime(t)
  <2>1. slot["runtime"] = Null /\ Return(t, "runtime", "runtime", RuntimeCreate(Null))
    BY <1>4 DEF NewRuntime
  <2>2. PICK k : k = "runtime"
    OBVIOUS
  <2>3. GoodOutcomes(k, RuntimeCreate(Null))
    BY <2>2, OthersAreGood
  <2> QED
    BY <1>1, <2>1, <2>2, <2>3, CallMakes
<1>5. CASE Native(t)
  <2>1. doing[t] \in Operations /\ doing[t].step = "call" /\ (t \in usable => slot[t] = Null)
    BY <1>1, <1>5 DEF Native, Idle
  <2>2. PICK job : job = doing[t].job /\ job \in Jobs
    BY <2>1 DEF Operations
  <2>3. \/ UNCHANGED apiVars
        \/ /\ job.operation = "load"
           /\ Return(t, t, "model", ModelLoad(doing[t].runtime, job.data))
        \/ \E artifact, text, mode, regions, o :
             Return(t, t, "result", Process(doing[t].runtime, artifact, text, mode, regions, o))
    BY <1>5, <2>2 DEF Native, Outcomes
  <2>4. CASE UNCHANGED apiVars
    BY <1>2, <2>4 DEF apiVars
  <2>5. CASE /\ job.operation = "load"
             /\ Return(t, t, "model", ModelLoad(doing[t].runtime, job.data))
    <3>1. PICK data : data = job.data
      OBVIOUS
    <3>2. data \in {j.data : j \in {i \in Jobs : i.operation = "load"}}
      BY <2>2, <2>5, <3>1
    <3>3. data # Null /\ data.verdict = "OK" => data.model # Null
      BY <3>2, LoadsAssumption
    <3>4. GoodOutcomes("model", ModelLoad(doing[t].runtime, data))
      BY <3>3, LoadsAreMade
    <3> QED
      BY <1>1, <2>1, <2>5, <3>1, <3>4, CallMakes
  <2>6. ASSUME NEW outcomes, GoodOutcomes("result", outcomes), Return(t, t, "result", outcomes)
        PROVE  MadeInv'
    BY <1>1, <2>1, <2>6, CallMakes
  <2> QED
    BY <2>3, <2>4, <2>5, <2>6, ProcessedIsMade
<1>6. CASE Raise(t) \/ \E job \in Jobs : Begin(t, job)
  BY <1>2, <1>6 DEF Raise, Begin, apiVars
<1>7. CASE CopyResult(t)
  BY <1>3, <1>7 DEF CopyResult
<1>8. CASE WrapModel(t)
  BY <1>3, <1>8 DEF WrapModel
<1>9. CASE \E kind \in {"runtime", "model"} : Close(t, kind)
  BY <1>3, <1>9 DEF Close
<1> QED
  BY <1>4, <1>5, <1>6, <1>7, <1>8, <1>9 DEF BindingNext

(* In every program, every live object is made as its kind is. *)
LEMMA MadeHolds == Spec => [](FilesRead /\ MadeInv)
<1>1. Init => FilesRead /\ MadeInv
  <2> SUFFICES ASSUME Init PROVE FilesRead /\ MadeInv
    OBVIOUS
  <2>1. objects = <<>> /\ slot = [s \in Slots |-> Null]
    BY DEF Init, ApiInit
  <2>2. AllMade(objects)
    BY <2>1 DEF AllMade, Live
  <2>3. \A k \in Kinds : slot[k] = Null
    BY <2>1 DEF Slots, Named
  <2>4. KindsHeld
    BY <2>3 DEF KindsHeld, OfTheirKinds
  <2>5. FilesRead
    <3>1. PICK i : i = InitialOptions
      OBVIOUS
    <3>2. parsed = [at |-> 1, options |-> i, path |-> FALSE, artifact |-> FALSE,
                    dump |-> {}, text |-> Null, data |-> Null]
      BY <3>1, Zenon DEF Init, LineInit
    <3> QED
      BY <3>2 DEF FilesRead
  <2> QED
    BY <2>2, <2>4, <2>5 DEF MadeInv
<1>2. HandlesInv /\ FilesRead /\ MadeInv /\ [Next]_hostVars => FilesRead' /\ MadeInv'
  <2> SUFFICES ASSUME HandlesInv, FilesRead, MadeInv, [Next]_hostVars
               PROVE  FilesRead' /\ MadeInv'
    OBVIOUS
  <2>1. CASE UNCHANGED hostVars
    BY <2>1 DEF hostVars, apiVars, lineVars, FilesRead, MadeInv, AllMade, KindsHeld,
                OfTheirKinds, Live
  <2>2. CASE program = "c" /\ program' = program /\ CNext(Me)
    BY <2>2, CKeepsMade DEF FilesRead
  <2>3. CASE program = "le-cli" /\ program' = program /\ LineNext
    BY <2>3, LineKeepsMade, LineKeepsFiles
  <2>4. CASE /\ program = "binding" /\ program' = program
             /\ \E t \in Threads : BindingNext(t)
    BY <2>4, BindingKeepsMade DEF FilesRead
  <2> QED
    BY <2>1, <2>2, <2>3, <2>4 DEF Next
<1> QED
  BY <1>1, <1>2, HandlesHold, PTL DEF Spec

(* docs/c-api.md, Analysis representation, docs/architecture.md:112-114:   *)
(* what any program reads in the arrays of an analysis it holds is the     *)
(* analysis they were made of, for every analysis that le_analyze or       *)
(* le_analyze_regions may return (make_analysis in api.cpp).   *)
THEOREM AnalysesReadBack == Spec => []AnalysisReadsBack
<1>1. MadeInv => AnalysisReadsBack
  <2> SUFFICES ASSUME MadeInv, NEW h \in LiveHandles, objects[h].kind = "analysis"
               PROVE  ReadBack(Value(h)) = Value(h).core
    BY Zenon DEF AnalysisReadsBack
  <2>1. PICK v : v = Value(h)
    OBVIOUS
  <2>2. MadeAnalysis(v)
    BY <2>1 DEF MadeInv, AllMade, Made, Live, LiveHandles, Value
  <2>3. PICK text, a : IsAnalysis(a) /\ v = MakeAnalysis(text, a)
    BY <2>2 DEF MadeAnalysis
  <2>4. v.core = a
    BY <2>3, Zenon DEF MakeAnalysis
  <2> QED
    BY <2>1, <2>3, <2>4, ArraysReadBack, Zenon
<1> QED
  BY <1>1, MadeHolds, PTL

(* docs/c-api.md, Reading and presentation stages: a plan made in stages   *)
(* by any program is the plan of one call of le_process or of              *)
(* le_process_with_model, whose options are accepted (api.cpp,             *)
(* le_generate_*_signals, le_generate_emphasis, le_process).               *)
THEOREM StagesAreProcessing == Spec => []StagedPlanIsProcessPlan
<1>1. MadeInv => StagedPlanIsProcessPlan
  <2> SUFFICES ASSUME MadeInv, NEW h \in LiveHandles, objects[h].kind = "result",
                      Value(h).from # Null
               PROVE  LET from  == Value(h).from
                          o     == SameOptions(from.signals.by, from.config)
                          model == ReadingModel(IF from.signals.by.model = "artifact"
                                                THEN from.signals.by.config ELSE Null,
                                                Settings(o))
                      IN  /\ Accepted(o, "direct")
                          /\ Value(h).plan = PlanOf(Settings(o).presentation,
                               AllSignals(from.signals.text, from.signals.analysis, model))
    BY Zenon DEF StagedPlanIsProcessPlan
  <2>1. PICK v : v = Value(h)
    OBVIOUS
  <2>2. MadeResult(v)
    BY <2>1 DEF MadeInv, AllMade, Made, Live, LiveHandles, Value
  <2>3. PICK s, config :
          /\ MadeSignals(s) /\ ValidPresentationConfig(config)
          /\ v.plan = PlanOf(PresentationConfigOf(config), s.signals)
          /\ v.from = [signals |-> s.from, config |-> config]
    BY <2>1, <2>2 DEF MadeResult
  <2>4. PICK text, a, by, m :
          /\ MadeBy(by, m)
          /\ s.signals = AllSignals(text, a, m)
          /\ s.from = [text |-> text, analysis |-> a, by |-> by]
    BY <2>3 DEF MadeSignals
  <2>5. PICK f : f = s.from
    OBVIOUS
  <2>6. f.text = text /\ f.analysis = a /\ f.by = by
    BY <2>4, <2>5
  <2>7. v.from.signals = f /\ v.from.config = config
    BY <2>3, <2>5
  <2>8. PICK o : o = SameOptions(by, config)
    OBVIOUS
  <2>9. PICK n : n = ReadingModel(IF by.model = "artifact" THEN by.config ELSE Null, Settings(o))
    OBVIOUS
  <2>10. /\ Accepted(o, "direct")
         /\ Settings(o).presentation = PresentationConfigOf(config)
         /\ AllSignals(text, a, n) = AllSignals(text, a, m)
    <3>1. MadeBy(by, m) /\ ValidPresentationConfig(config)
      BY <2>3, <2>4
    <3>2. OneCallSaysSame(by, m, config)
      BY <3>1, SameOptionsSaySame
    <3> QED
      BY <2>8, <2>9, <3>2, Zenon DEF OneCallSaysSame
  <2> QED
    BY <2>1, <2>3, <2>4, <2>6, <2>7, <2>8, <2>9, <2>10, Zenon
<1> QED
  BY <1>1, MadeHolds, PTL
=============================================================================
