---------------------- MODULE ProviderRegistryPromises ----------------------
(***************************************************************************)
(* What the registry promises its callers, for any number of threads,      *)
(* runtimes, providers, modules and calls.                                 *)
(*                                                                         *)
(* It implements the atomic service of ProviderService: what the loop over *)
(* entries_ finds under the shared lock is the first claimant of the       *)
(* region's language, at the moment the region is served.  And it gives    *)
(* back what it takes: every dlopen is closed once, no code runs after its *)
(* module is gone, and every adopted context is destroyed once.            *)
(***************************************************************************)
EXTENDS ProviderRegistryProofs, FiniteSetTheorems

(* What thread t's call has decided and served, by where the thread is *)
StatusOfLabel(t) == pc[t] \in {"reject", "done"} <=> status[t] # Pending

ServedInPlan(t) ==
  /\ call[t].op # "analyze" => served[t] = <<>>
  /\ call[t].op = "analyze" => Len(served[t]) <= Len(call[t].plan)
  /\ pc[t] \in {"rlock"} \cup ReaderLabels => Len(served[t]) < Len(call[t].plan)

(* The loop has passed no entry that claims the language, and the entry    *)
(* whose analyze runs does claim it.                                       *)
ScannedUnclaimed(t) ==
  /\ pc[t] \in ReaderLabels =>
       \A j \in 1..(cursor[t] - 1) : Language(t) \notin Claims[entries[Rt(t)][j].provider]
  /\ At(t, "analyze") => Language(t) \in Claims[Current(t).provider]

(* Entry k is the first of runtime r that claims language l. *)
FirstClaimant(r, k, l) ==
  /\ k \in DOMAIN entries[r]
  /\ l \in Claims[entries[r][k].provider]
  /\ \A j \in 1..(k - 1) : l \notin Claims[entries[r][j].provider]

(* A region that went to a registered provider went to the one that is     *)
(* still the first claimant: registrations only append.                    *)
ServedByFirst(t) ==
  \A i \in DOMAIN served[t] : served[t][i] # BuiltIn =>
    \E k \in DOMAIN entries[Rt(t)] :
      /\ FirstClaimant(Rt(t), k, call[t].plan[i])
      /\ served[t][i] = entries[Rt(t)][k].provider

Sticky(t) ==
  \A i, j \in DOMAIN served[t] :
    i < j /\ call[t].plan[i] = call[t].plan[j] /\ served[t][i] # BuiltIn
      => served[t][j] = served[t][i]

RoutingOK(t) ==
  StatusOfLabel(t) /\ ServedInPlan(t) /\ ScannedUnclaimed(t) /\ ServedByFirst(t) /\ Sticky(t)

(* The inductive invariant of routing *)
RoutingInv == \A t \in Threads : RoutingOK(t)

-----------------------------------------------------------------------------
(* What a step of one thread leaves to the others *)

Acts(t) == CallRegister(t) \/ CallLoad(t) \/ CallAnalyze(t) \/ CallDestroy(t) \/ Step(t)

LocalsKept(u) ==
  /\ pc'[u] = pc[u] /\ call'[u] = call[u] /\ status'[u] = status[u]
  /\ served'[u] = served[u] /\ cursor'[u] = cursor[u]

(* A thread's locals are its own. *)
LEMMA LocalsAreOwn ==
  ASSUME TypeOK, NEW t \in Threads, Acts(t), NEW u \in Threads \ {t}
  PROVE  LocalsKept(u)
  <1>a. /\ pc \in [Threads -> Labels] /\ call \in [Threads -> Calls]
        /\ status \in [Threads -> {Pending, "OK"} \cup Service!Failures]
        /\ served \in [Threads -> Seq(Descriptors \cup {BuiltIn})]
        /\ cursor \in [Threads -> Nat]
    BY DEF TypeOK
  <1>1. CASE CallRegister(t) \/ CallLoad(t) \/ CallAnalyze(t) \/ CallDestroy(t)
    BY <1>1, <1>a DEF CallRegister, CallLoad, CallAnalyze, CallDestroy, Begin, Goto, LocalsKept
  <1>2. CASE OpenModule(t) \/ ResolveEntry(t) \/ ValidateDescriptor(t) \/ LockExclusive(t)
             \/ FindDuplicate(t) \/ InsertEntry(t) \/ RejectRegistration(t)
    BY <1>2, <1>a
    DEF OpenModule, ResolveEntry, ValidateDescriptor, LockExclusive, FindDuplicate,
        InsertEntry, RejectRegistration, Finish, Goto, LocalsKept
  <1>3. CASE NextRegion(t) \/ LockShared(t) \/ NextEntry(t) \/ LockCall(t)
             \/ SupportsReturns(t) \/ AnalyzeReturns(t) \/ BuiltInReturns(t)
    BY <1>3, <1>a
    DEF NextRegion, LockShared, NextEntry, LockCall, SupportsReturns, AnalyzeReturns,
        BuiltInReturns, Finish, Goto, LocalsKept
  <1>4. CASE DestroyNextEntry(t) \/ DestroyReturns(t) \/ CloseEntryModule(t) \/ Return(t)
    BY <1>4, <1>a
    DEF DestroyNextEntry, DestroyReturns, CloseEntryModule, Return, Finish, Goto, LocalsKept
  <1>5. QED
    BY <1>1, <1>2, <1>3, <1>4 DEF Acts, Step

(* The entries of runtime r are those it had, or those and one more. *)
EntriesGrow(r) ==
  /\ DOMAIN entries[r] \subseteq DOMAIN entries'[r]
  /\ \A i \in DOMAIN entries[r] : entries'[r][i] = entries[r][i]

(* A runtime with a call in progress other than its destruction loses no entry. *)
LEMMA EntriesOnlyGrow ==
  ASSUME IInv, NEW t \in Threads, Acts(t), NEW u \in Threads,
         ~At(u, "idle"), call[u].op # "destroy"
  PROVE  EntriesGrow(Rt(u))
  <1>a. /\ TypeOK /\ CallOfLabel /\ CursorInRange /\ DestroyerIsAlone
        /\ entries \in [Runtimes -> Seq(Entry)]
    BY DEF IInv, LockDiscipline, TypeOK
  <1>b. InContext(t) /\ InContext(u) /\ Rt(u) \in Runtimes
    BY <1>a, CallContext DEF InContext
  <1>1. CASE CallRegister(t) \/ CallLoad(t) \/ CallAnalyze(t) \/ CallDestroy(t)
    BY <1>1 DEF CallRegister, CallLoad, CallAnalyze, CallDestroy, EntriesGrow
  <1>2. CASE OpenModule(t) \/ ResolveEntry(t) \/ ValidateDescriptor(t) \/ LockExclusive(t)
             \/ FindDuplicate(t) \/ RejectRegistration(t)
    BY <1>2
    DEF OpenModule, ResolveEntry, ValidateDescriptor, LockExclusive, FindDuplicate,
        RejectRegistration, EntriesGrow
  <1>3. CASE InsertEntry(t)
    <2> DEFINE e == [provider |-> Candidate(t), module |-> Origin(t)]
    <2>1. \/ entries' = entries
          \/ entries' = [entries EXCEPT ![Rt(t)] = Append(@, e)]
      BY <1>3 DEF InsertEntry
    <2>2. /\ Len(Append(entries[Rt(u)], e)) = Len(entries[Rt(u)]) + 1
          /\ DOMAIN entries[Rt(u)] \subseteq DOMAIN Append(entries[Rt(u)], e)
          /\ \A i \in DOMAIN entries[Rt(u)] : Append(entries[Rt(u)], e)[i] = entries[Rt(u)][i]
      <3>1. entries[Rt(u)] \in Seq(Entry)
        BY <1>a, <1>b
      <3>2. QED
        BY <3>1
    <2>3. QED
      <3> HIDE DEF e
      <3>1. QED
        BY <2>1, <2>2, <1>a, <1>b DEF EntriesGrow
  <1>4. CASE NextRegion(t) \/ LockShared(t) \/ NextEntry(t) \/ LockCall(t)
             \/ SupportsReturns(t) \/ AnalyzeReturns(t) \/ BuiltInReturns(t)
    BY <1>4
    DEF NextRegion, LockShared, NextEntry, LockCall, SupportsReturns, AnalyzeReturns,
        BuiltInReturns, EntriesGrow
  <1>5. CASE DestroyNextEntry(t) \/ DestroyReturns(t) \/ Return(t)
    BY <1>5 DEF DestroyNextEntry, DestroyReturns, Return, EntriesGrow
  <1>6. CASE CloseEntryModule(t)
    <2>1. call[t].op = "destroy" /\ Rt(t) # Rt(u)
      BY <1>6, <1>a DEF CloseEntryModule, CallOfLabel, DestroyLabels, DestroyerIsAlone, At
    <2>2. entries'[Rt(u)] = entries[Rt(u)]
      BY <1>6, <1>a, <1>b, <2>1 DEF CloseEntryModule
    <2>3. QED
      BY <2>2 DEF EntriesGrow
  <1>7. QED
    BY <1>1, <1>2, <1>3, <1>4, <1>5, <1>6 DEF Acts, Step

(* A thread that did not move keeps its part of the invariant. *)
LEMMA BystanderKeepsRouting ==
  ASSUME IInv, NEW t \in Threads, Acts(t), NEW u \in Threads, LocalsKept(u), RoutingOK(u)
  PROVE  RoutingOK(u)'
  <1>a. TypeOK /\ CallOfLabel /\ CursorInRange /\ ReadersMatch
    BY DEF IInv, LockDiscipline
  <1>b. InContext(u)
    BY <1>a, CallContext
  <1>c. served[u] \in Seq(Descriptors \cup {BuiltIn}) /\ cursor[u] \in Nat
    BY <1>a DEF TypeOK
  <1>1. StatusOfLabel(u)' /\ ServedInPlan(u)' /\ Sticky(u)'
    BY DEF RoutingOK, StatusOfLabel, ServedInPlan, Sticky, LocalsKept
  <1>2. ScannedUnclaimed(u)'
    <2>1. pc[u] \in ReaderLabels => Rt(u) \in Runtimes /\ entries'[Rt(u)] = entries[Rt(u)]
      <3>1. pc[u] \in ReaderLabels => ~At(u, "idle")
        BY DEF ReaderLabels, EntryLabels, At
      <3>2. pc[u] \in ReaderLabels => readers[Rt(u)] # {}
        BY <1>a, <1>b, <3>1 DEF ReadersMatch, InContext
      <3>3. NoEntryMoves
        BY RoutingStep DEF Acts, Next
      <3>4. QED
        BY <1>b, <3>1, <3>2, <3>3 DEF NoEntryMoves, InContext
    <2>2. QED
      BY <2>1 DEF RoutingOK, ScannedUnclaimed, LocalsKept, Language, Current, Rt, At,
                  ReaderLabels, EntryLabels
  <1>3. ServedByFirst(u)'
    <2>1. CASE call[u].op # "analyze"
      BY <2>1, <1>c DEF RoutingOK, ServedInPlan, LocalsKept, ServedByFirst
    <2>2. CASE call[u].op = "analyze"
      <3>1. ~At(u, "idle") /\ Rt(u) \in Runtimes
        BY <2>2, <1>a, <1>b, NoCallTyped DEF CallOfLabel, InContext
      <3>2. EntriesGrow(Rt(u))
        BY <3>1, <2>2, EntriesOnlyGrow
      <3>3. entries[Rt(u)] \in Seq(Entry)
        BY <1>a, <3>1 DEF TypeOK
      <3>4. ASSUME NEW i \in DOMAIN served[u], served[u][i] # BuiltIn
            PROVE  \E k \in DOMAIN entries'[Rt(u)] :
                     /\ k \in DOMAIN entries'[Rt(u)]
                     /\ call[u].plan[i] \in Claims[entries'[Rt(u)][k].provider]
                     /\ \A j \in 1..(k - 1) :
                          call[u].plan[i] \notin Claims[entries'[Rt(u)][j].provider]
                     /\ served[u][i] = entries'[Rt(u)][k].provider
        <4>1. PICK k \in DOMAIN entries[Rt(u)] :
                     /\ FirstClaimant(Rt(u), k, call[u].plan[i])
                     /\ served[u][i] = entries[Rt(u)][k].provider
          BY <3>4 DEF RoutingOK, ServedByFirst
        <4>2. \A j \in 1..(k - 1) : j \in DOMAIN entries[Rt(u)]
          BY <3>3, <4>1
        <4>3. QED
          BY <3>2, <4>1, <4>2 DEF FirstClaimant, EntriesGrow
      <3>5. QED
        BY <3>4 DEF ServedByFirst, FirstClaimant, LocalsKept, Rt
    <2>3. QED
      BY <2>1, <2>2
  <1>4. QED
    BY <1>1, <1>2, <1>3 DEF RoutingOK

(* Outside an analysis nothing has been served, so only labels and statuses *)
(* have to agree.                                                           *)
LEMMA NothingServed ==
  ASSUME NEW t \in Threads, served'[t] = <<>>, StatusOfLabel(t)',
         pc'[t] \notin {"rlock"} \cup ReaderLabels,
         call'[t].op = "analyze" => call'[t].plan \in Seq(Languages)
  PROVE  RoutingOK(t)'
  <1>1. ServedInPlan(t)'
    BY EmptySeq DEF ServedInPlan
  <1>2. ScannedUnclaimed(t)'
    BY DEF ScannedUnclaimed, At, ReaderLabels, EntryLabels
  <1>3. DOMAIN (served'[t]) = {}
    OBVIOUS
  <1>4. ServedByFirst(t)' /\ Sticky(t)'
    BY <1>3 DEF ServedByFirst, Sticky
  <1>5. QED
    BY <1>1, <1>2, <1>4 DEF RoutingOK

(* The thread that moves keeps its part of the invariant: its loop meets   *)
(* the first claimant first, and that is who served the language before.   *)
LEMMA MoverKeepsRouting ==
  ASSUME IInv, NEW t \in Threads, Acts(t), RoutingOK(t)
  PROVE  RoutingOK(t)'
  <1>a. /\ TypeOK /\ CallOfLabel /\ CursorInRange
        /\ pc \in [Threads -> Labels] /\ call \in [Threads -> Calls]
        /\ status \in [Threads -> {Pending, "OK"} \cup Service!Failures]
        /\ served \in [Threads -> Seq(Descriptors \cup {BuiltIn})]
        /\ cursor \in [Threads -> Nat] /\ entries \in [Runtimes -> Seq(Entry)]
    BY DEF IInv, LockDiscipline, TypeOK
  <1>b. InContext(t)
    BY <1>a, CallContext
  <1>c. /\ StatusOfLabel(t) /\ ServedInPlan(t) /\ ScannedUnclaimed(t)
        /\ ServedByFirst(t) /\ Sticky(t)
    BY DEF RoutingOK
  <1>d. call[t] \in Calls /\ served[t] \in Seq(Descriptors \cup {BuiltIn})
    BY <1>a
  <1>e. call[t].op = "analyze" => call[t].plan \in Seq(Languages)
    BY <1>d, CallShape, RegistryAssumption
  <1>1. CASE CallRegister(t) \/ CallLoad(t) \/ CallAnalyze(t) \/ CallDestroy(t)
    <2>1. served'[t] = <<>>
      BY <1>1, <1>a, <1>c, NoCallTyped
      DEF CallRegister, CallLoad, CallAnalyze, CallDestroy, Begin, CallOfLabel, ServedInPlan, At
    <2>2. StatusOfLabel(t)' /\ pc'[t] \notin {"rlock"} \cup ReaderLabels
      BY <1>1, <1>a, <1>c
      DEF CallRegister, CallLoad, CallAnalyze, CallDestroy, Begin, Goto, At, StatusOfLabel,
          ReaderLabels, EntryLabels
    <2>3. call'[t].op = "analyze" => call'[t].plan \in Seq(Languages)
      BY <1>1, <1>a, NewCalls, RegistryAssumption
      DEF CallRegister, CallLoad, CallAnalyze, CallDestroy, Begin, TypeOK
    <2>4. QED
      BY <2>1, <2>2, <2>3, NothingServed
  <1>2. CASE OpenModule(t) \/ ResolveEntry(t) \/ ValidateDescriptor(t) \/ LockExclusive(t)
             \/ FindDuplicate(t) \/ InsertEntry(t) \/ RejectRegistration(t)
    <2>1. call[t].op # "analyze"
      BY <1>2, <1>a
      DEF OpenModule, ResolveEntry, ValidateDescriptor, LockExclusive, FindDuplicate,
          InsertEntry, RejectRegistration, CallOfLabel, LoadLabels, RegisterLabels, At
    <2>2. served'[t] = <<>> /\ call'[t] = call[t]
      BY <1>2, <1>c, <2>1
      DEF OpenModule, ResolveEntry, ValidateDescriptor, LockExclusive, FindDuplicate,
          InsertEntry, RejectRegistration, ServedInPlan
    <2>3. StatusOfLabel(t)' /\ pc'[t] \notin {"rlock"} \cup ReaderLabels
      BY <1>2, <1>a, <1>c
      DEF OpenModule, ResolveEntry, ValidateDescriptor, LockExclusive, FindDuplicate,
          InsertEntry, RejectRegistration, Finish, Goto, At, StatusOfLabel, Pending,
          ReaderLabels, EntryLabels
    <2>4. QED
      BY <2>1, <2>2, <2>3, NothingServed
  <1>3. CASE DestroyNextEntry(t) \/ DestroyReturns(t) \/ CloseEntryModule(t)
    <2>1. call[t].op = "destroy"
      BY <1>3, <1>a
      DEF DestroyNextEntry, DestroyReturns, CloseEntryModule, CallOfLabel, DestroyLabels, At
    <2>2. served'[t] = <<>> /\ call'[t] = call[t]
      BY <1>3, <1>c, <2>1
      DEF DestroyNextEntry, DestroyReturns, CloseEntryModule, ServedInPlan
    <2>3. StatusOfLabel(t)' /\ pc'[t] \notin {"rlock"} \cup ReaderLabels
      BY <1>3, <1>a, <1>c
      DEF DestroyNextEntry, DestroyReturns, CloseEntryModule, Finish, Goto, At, StatusOfLabel,
          Pending, ReaderLabels, EntryLabels
    <2>4. QED
      BY <2>1, <2>2, <2>3, NothingServed
  <1>4. CASE Return(t)
    <2>1. served'[t] = <<>> /\ call'[t] = NoCall
      BY <1>4, <1>a DEF Return
    <2>2. StatusOfLabel(t)' /\ pc'[t] \notin {"rlock"} \cup ReaderLabels
      BY <1>4, <1>a DEF Return, Goto, StatusOfLabel, ReaderLabels, EntryLabels
    <2>3. QED
      BY <2>1, <2>2, NoCallTyped, NothingServed
  <1>5. CASE NextRegion(t) \/ BuiltInReturns(t)
    <2>1. call[t].op = "analyze"
      BY <1>5, <1>a DEF NextRegion, BuiltInReturns, CallOfLabel, AnalyzeLabels, At
    <2>2. /\ served' = served /\ call' = call /\ entries' = entries
          /\ pc'[t] \in {"rlock", "region", "done"}
      BY <1>5, <1>a DEF NextRegion, BuiltInReturns, Finish, Goto
    <2>3. StatusOfLabel(t)'
      BY <1>5, <1>a, <1>c
      DEF NextRegion, BuiltInReturns, Finish, Goto, At, StatusOfLabel, Pending
    <2>4. pc'[t] = "rlock" => Len(served[t]) < Len(call[t].plan)
      BY <1>5, <1>a DEF NextRegion, BuiltInReturns, Finish, Goto
    <2>5. ServedInPlan(t)' /\ ScannedUnclaimed(t)'
      BY <2>1, <2>2, <2>4, <1>c DEF ServedInPlan, ScannedUnclaimed, At, ReaderLabels, EntryLabels
    <2>6. ServedByFirst(t)' /\ Sticky(t)'
      BY <2>2, <1>c DEF ServedByFirst, Sticky, FirstClaimant, Rt
    <2>7. QED
      BY <2>3, <2>5, <2>6 DEF RoutingOK
  <1>6. CASE LockShared(t) \/ LockCall(t)
    <2>1. /\ served' = served /\ call' = call /\ entries' = entries /\ status' = status
          /\ pc[t] \in {"rlock", "calllock"} /\ pc'[t] \in {"route", "supports"}
          /\ pc'[t] = "route" => cursor'[t] = 1
          /\ pc'[t] = "supports" => pc[t] = "calllock" /\ cursor' = cursor
      BY <1>6, <1>a DEF LockShared, LockCall, Goto, At
    <2>2. StatusOfLabel(t)' /\ ServedInPlan(t)'
      BY <2>1, <1>c DEF StatusOfLabel, ServedInPlan, ReaderLabels, EntryLabels
    <2>3. ScannedUnclaimed(t)'
      BY <2>1, <1>c DEF ScannedUnclaimed, At, Language, Rt, ReaderLabels, EntryLabels
    <2>4. ServedByFirst(t)' /\ Sticky(t)'
      BY <2>1, <1>c DEF ServedByFirst, Sticky, FirstClaimant, Rt
    <2>5. QED
      BY <2>2, <2>3, <2>4 DEF RoutingOK
  <1>7. CASE NextEntry(t) /\ cursor[t] <= Len(entries[Rt(t)])
    <2>1. /\ served' = served /\ call' = call /\ entries' = entries /\ status' = status
          /\ cursor' = cursor /\ pc[t] = "route" /\ pc'[t] \in {"calllock", "supports"}
      BY <1>7, <1>a DEF NextEntry, Goto, At
    <2>2. StatusOfLabel(t)' /\ ServedInPlan(t)' /\ ScannedUnclaimed(t)'
      BY <2>1, <1>c
      DEF StatusOfLabel, ServedInPlan, ScannedUnclaimed, At, Language, Rt, ReaderLabels,
          EntryLabels
    <2>3. ServedByFirst(t)' /\ Sticky(t)'
      BY <2>1, <1>c DEF ServedByFirst, Sticky, FirstClaimant, Rt
    <2>4. QED
      BY <2>2, <2>3 DEF RoutingOK
  <1>8. CASE SupportsReturns(t)
    <2>1. /\ served' = served /\ call' = call /\ entries' = entries
          /\ pc[t] = "supports" /\ pc'[t] \in {"analyze", "route", "done"}
          /\ pc'[t] = "analyze" =>
               /\ Language(t) \in Claims[Current(t).provider]
               /\ cursor' = cursor /\ status' = status
          /\ pc'[t] = "route" =>
               /\ Language(t) \notin Claims[Current(t).provider]
               /\ cursor'[t] = cursor[t] + 1 /\ status' = status
          /\ pc'[t] = "done" => status'[t] # Pending
      BY <1>8, <1>a DEF SupportsReturns, Finish, Goto, At, Pending
    <2>2. StatusOfLabel(t)' /\ ServedInPlan(t)'
      BY <2>1, <1>c DEF StatusOfLabel, ServedInPlan, ReaderLabels, EntryLabels
    <2>3. ScannedUnclaimed(t)'
      <3>1. cursor[t] \in Nat /\ \A j \in 1..(cursor[t] - 1) :
              Language(t) \notin Claims[entries[Rt(t)][j].provider]
        BY <2>1, <1>a, <1>c DEF ScannedUnclaimed, ReaderLabels, EntryLabels
      <3>2. CASE pc'[t] = "route"
        <4>1. \A j \in 1..(cursor'[t] - 1) : j \in 1..(cursor[t] - 1) \/ j = cursor[t]
          BY <2>1, <3>1, <3>2
        <4>2. QED
          BY <2>1, <3>1, <3>2, <4>1 DEF ScannedUnclaimed, At, Language, Rt, Current
      <3>3. CASE pc'[t] = "analyze"
        BY <2>1, <3>1, <3>3 DEF ScannedUnclaimed, At, Language, Rt, Current
      <3>4. CASE pc'[t] = "done"
        BY <3>4 DEF ScannedUnclaimed, At, ReaderLabels, EntryLabels
      <3>5. QED
        BY <2>1, <3>2, <3>3, <3>4
    <2>4. ServedByFirst(t)' /\ Sticky(t)'
      BY <2>1, <1>c DEF ServedByFirst, Sticky, FirstClaimant, Rt
    <2>5. QED
      BY <2>2, <2>3, <2>4 DEF RoutingOK
  <1>9. CASE AnalyzeReturns(t) /\ served' = served
    <2>1. /\ served' = served /\ call' = call /\ entries' = entries
          /\ pc[t] = "analyze"
          /\ \/ pc'[t] = "done" /\ status'[t] # Pending
             \/ pc'[t] = "region" /\ status' = status
      BY <1>9, <1>a DEF AnalyzeReturns, Finish, Goto, At, Pending
    <2>2. StatusOfLabel(t)' /\ ServedInPlan(t)' /\ ScannedUnclaimed(t)'
      BY <2>1, <1>c
      DEF StatusOfLabel, ServedInPlan, ScannedUnclaimed, At, ReaderLabels, EntryLabels
    <2>3. ServedByFirst(t)' /\ Sticky(t)'
      BY <2>1, <1>c DEF ServedByFirst, Sticky, FirstClaimant, Rt
    <2>4. QED
      BY <2>2, <2>3 DEF RoutingOK
  <1>10. CASE \/ NextEntry(t) /\ ~(cursor[t] <= Len(entries[Rt(t)]))
              \/ AnalyzeReturns(t) /\ served' # served
    <2> DEFINE n == Len(served[t]) + 1
               who == IF pc[t] = "analyze" THEN Current(t).provider ELSE BuiltIn
    <2>1. /\ call' = call /\ entries' = entries /\ status' = status
          /\ pc[t] \in {"route", "analyze"} /\ pc'[t] \in {"builtin", "region"}
          /\ served' = [served EXCEPT ![t] = Append(@, who)]
          /\ pc[t] = "route" => ~(cursor[t] <= Len(entries[Rt(t)]))
      <3>1. CASE NextEntry(t) /\ ~(cursor[t] <= Len(entries[Rt(t)]))
        BY <3>1, <1>a DEF NextEntry, Goto, At
      <3>2. CASE AnalyzeReturns(t) /\ served' # served
        <4>1. pc[t] = "analyze" /\ who = Current(t).provider
          BY <3>2 DEF AnalyzeReturns, At
        <4> HIDE DEF who
        <4>2. QED
          BY <3>2, <4>1, <1>a DEF AnalyzeReturns, Finish, Goto
      <3>3. QED
        BY <1>10, <3>1, <3>2
    <2>2. /\ Rt(t) \in Runtimes /\ call[t].op = "analyze"
          /\ entries[Rt(t)] \in Seq(Entry) /\ cursor[t] \in Nat
          /\ pc[t] = "analyze" => cursor[t] \in DOMAIN entries[Rt(t)]
          /\ pc[t] = "route" => \A k \in DOMAIN entries[Rt(t)] : k \in 1..(cursor[t] - 1)
          /\ who \in Descriptors \cup {BuiltIn}
      BY <2>1, <1>a, <1>b
      DEF CallOfLabel, CursorInRange, InContext, AnalyzeLabels, ReaderLabels, EntryLabels, At
    <2>3. /\ Len(served[t]) < Len(call[t].plan) /\ Len(served[t]) \in Nat
          /\ \A j \in 1..(cursor[t] - 1) :
               call[t].plan[n] \notin Claims[entries[Rt(t)][j].provider]
          /\ pc[t] = "analyze" => call[t].plan[n] \in Claims[entries[Rt(t)][cursor[t]].provider]
      BY <2>1, <1>c, <1>d
      DEF ServedInPlan, ScannedUnclaimed, At, Language, Current, ReaderLabels, EntryLabels
    <2>4. /\ DOMAIN served[t] = 1..Len(served[t])
          /\ DOMAIN served'[t] = 1..n /\ Len(served'[t]) = n
          /\ served'[t][n] = who
          /\ \A i \in 1..Len(served[t]) : served'[t][i] = served[t][i]
      <3> HIDE DEF who
      <3>1. served'[t] = Append(served[t], who)
        BY <2>1, <1>a
      <3>2. QED
        BY <3>1, <2>2, <1>d
    <2>5. \A i \in 1..n : i \in 1..Len(served[t]) \/ i = n
      BY <2>3
    <2>6. StatusOfLabel(t)' /\ ScannedUnclaimed(t)'
      BY <2>1, <1>c DEF StatusOfLabel, ScannedUnclaimed, At, ReaderLabels, EntryLabels
    <2>7. ServedInPlan(t)'
      <3>1. Len(call[t].plan) \in Nat /\ n <= Len(call[t].plan)
        BY <2>2, <2>3, <1>e
      <3>2. QED
        BY <2>1, <2>2, <2>4, <3>1 DEF ServedInPlan, ReaderLabels, EntryLabels
    <2>8. pc[t] = "analyze" =>
            FirstClaimant(Rt(t), cursor[t], call[t].plan[n]) /\ who = entries[Rt(t)][cursor[t]].provider
      BY <2>2, <2>3 DEF FirstClaimant, Current
    <2>9. ServedByFirst(t)'
      <3>1. ASSUME NEW i \in 1..n, served'[t][i] # BuiltIn
            PROVE  \E k \in DOMAIN entries[Rt(t)] :
                     /\ FirstClaimant(Rt(t), k, call[t].plan[i])
                     /\ served'[t][i] = entries[Rt(t)][k].provider
        <4>1. CASE i \in 1..Len(served[t])
          <5> HIDE DEF who, n
          <5>1. i \in DOMAIN served[t] /\ served'[t][i] = served[t][i]
            BY <4>1, <2>4
          <5>2. QED
            BY <3>1, <5>1, <1>c DEF ServedByFirst
        <4>2. CASE i = n
          <5> HIDE DEF n
          <5>1. who # BuiltIn /\ served'[t][i] = who
            BY <3>1, <4>2, <2>4
          <5>2. pc[t] = "analyze"
            BY <5>1, <2>1
          <5>3. QED
            <6> HIDE DEF who
            <6>1. QED
              BY <5>1, <5>2, <4>2, <2>2, <2>8
        <4>3. QED
          BY <4>1, <4>2, <2>5
      <3> HIDE DEF who, n
      <3>2. \A i \in DOMAIN served'[t] : served'[t][i] # BuiltIn =>
              \E k \in DOMAIN entries[Rt(t)] :
                /\ FirstClaimant(Rt(t), k, call[t].plan[i])
                /\ served'[t][i] = entries[Rt(t)][k].provider
        BY <3>1, <2>4
      <3>3. entries' = entries /\ call' = call /\ call'[t].runtime = Rt(t)
        BY <2>1 DEF Rt
      <3>4. QED
        BY <3>2, <3>3, Zenon DEF ServedByFirst, FirstClaimant, Rt
    <2>10. Sticky(t)'
      <3>1. ASSUME NEW i \in 1..Len(served[t]), call[t].plan[i] = call[t].plan[n],
                   served[t][i] # BuiltIn
            PROVE  who = served[t][i]
        <4>1. PICK k \in DOMAIN entries[Rt(t)] :
                     /\ FirstClaimant(Rt(t), k, call[t].plan[n])
                     /\ served[t][i] = entries[Rt(t)][k].provider
          BY <3>1, <2>4, <1>c DEF ServedByFirst
        <4>2. k \in Nat /\ k >= 1 /\ cursor[t] \in Nat
          BY <2>2
        <4>3. pc[t] = "analyze"
          BY <4>1, <2>1, <2>2, <2>3 DEF FirstClaimant
        <4>4. k = cursor[t]
          BY <4>1, <4>2, <4>3, <2>2, <2>3, <2>8 DEF FirstClaimant
        <4>5. QED
          BY <4>1, <4>3, <4>4, <2>8
      <3>2. \A i \in 1..n, j \in 1..n : i < j => i \in 1..Len(served[t])
        BY <2>3
      <3> HIDE DEF who
      <3>3. QED
        BY <3>1, <3>2, <2>1, <2>4, <2>5, <1>c DEF Sticky
    <2>11. QED
      BY <2>6, <2>7, <2>9, <2>10 DEF RoutingOK
  <1>11. QED
    BY <1>1, <1>2, <1>3, <1>4, <1>5, <1>6, <1>7, <1>8, <1>9, <1>10 DEF Acts, Step

(* The routing invariant holds in every behaviour. *)
LEMMA RoutingHolds == Spec => []RoutingInv
  <1>1. Init => RoutingInv
    BY NoCallTyped
    DEF Init, RoutingInv, RoutingOK, StatusOfLabel, ServedInPlan, ScannedUnclaimed,
        ServedByFirst, Sticky, ReaderLabels, EntryLabels, At
  <1>2. ASSUME IInv, RoutingInv, [Next]_vars PROVE RoutingInv'
    <2>1. ASSUME NEW t \in Threads, Acts(t), NEW u \in Threads PROVE RoutingOK(u)'
      <3>1. CASE u = t
        BY <1>2, <2>1, <3>1, MoverKeepsRouting DEF RoutingInv
      <3>2. CASE u # t
        <4>1. TypeOK /\ RoutingOK(u)
          BY <1>2 DEF IInv, RoutingInv
        <4>2. LocalsKept(u)
          BY <2>1, <3>2, <4>1, LocalsAreOwn
        <4>3. QED
          BY <1>2, <2>1, <4>1, <4>2, BystanderKeepsRouting
      <3>3. QED
        BY <3>1, <3>2
    <2>2. CASE UNCHANGED vars
      <3>1. pc' = pc /\ call' = call /\ status' = status /\ served' = served
            /\ cursor' = cursor /\ entries' = entries
        BY <2>2 DEF vars, locals
      <3>2. ASSUME NEW t \in Threads PROVE RoutingOK(t)'
        <4>1. RoutingOK(t)
          BY <1>2 DEF RoutingInv
        <4>2. StatusOfLabel(t)' /\ ServedInPlan(t)' /\ Sticky(t)'
          BY <3>1, <4>1 DEF RoutingOK, StatusOfLabel, ServedInPlan, Sticky, At
        <4>3. ScannedUnclaimed(t)'
          BY <3>1, <4>1 DEF RoutingOK, ScannedUnclaimed, Language, Current, Rt, At
        <4>4. ServedByFirst(t)'
          BY <3>1, <4>1 DEF RoutingOK, ServedByFirst, FirstClaimant, Rt
        <4>5. QED
          BY <4>2, <4>3, <4>4 DEF RoutingOK
      <3>3. QED
        BY <3>2 DEF RoutingInv
    <2>3. QED
      BY <1>2, <2>1, <2>2 DEF Next, Acts, RoutingInv
  <1>3. QED
    BY <1>1, <1>2, InvariantHolds, PTL DEF Spec

(* A provider that served a language in a call serves it to the end of the *)
(* call, though every region takes the lock anew (provider_registry.cpp    *)
(* :303-320 inside the loop of api.cpp's analyze_explicit_regions).        *)
THEOREM RoutingIsSticky == Spec => []StickyRouting
  <1>1. RoutingInv => StickyRouting
    BY DEF RoutingInv, RoutingOK, Sticky, StickyRouting
  <1>2. QED
    BY <1>1, RoutingHolds, PTL

-----------------------------------------------------------------------------
(* The refinement *)

(* The service's registered: what open runtimes' entries_ say *)
Registered ==
  [r \in Runtimes |->
     IF r \in open THEN [i \in DOMAIN entries[r] |-> entries[r][i].provider] ELSE <<>>]

(* What the loop finds is what the service promises. *)
LEMMA FoundIsFirstClaim ==
  ASSUME NEW r \in open, open \subseteq Runtimes, entries[r] \in Seq(Entry), NEW l
  PROVE  /\ \A k : FirstClaimant(r, k, l) =>
                   Service!FirstClaim(Registered[r], l) = entries[r][k].provider
         /\ (\A k \in DOMAIN entries[r] : l \notin Claims[entries[r][k].provider]) =>
              Service!FirstClaim(Registered[r], l) = BuiltIn
  <1> DEFINE ps == Registered[r]
             C == Service!Claimants(ps, l)
  <1>1. ps = [i \in DOMAIN entries[r] |-> entries[r][i].provider]
    BY DEF Registered
  <1>2. C = {i \in DOMAIN entries[r] : l \in Claims[entries[r][i].provider]}
    BY <1>1 DEF Service!Claimants
  <1>3. Service!FirstClaim(ps, l) =
          IF C = {} THEN BuiltIn ELSE ps[CHOOSE i \in C : \A j \in C : i <= j]
    BY DEF Service!FirstClaim
  <1> HIDE DEF ps, C
  <1>4. ASSUME NEW k, FirstClaimant(r, k, l)
        PROVE  Service!FirstClaim(ps, l) = entries[r][k].provider
    <2>1. k \in C /\ \A j \in C : k <= j
      BY <1>2, <1>4 DEF FirstClaimant
    <2>2. \A i \in C : (\A j \in C : i <= j) => i = k
      BY <1>2, <2>1
    <2>3. (CHOOSE i \in C : \A j \in C : i <= j) = k
      BY <2>1, <2>2
    <2>4. C # {} /\ k \in DOMAIN entries[r]
      BY <1>2, <2>1
    <2>5. ps[k] = entries[r][k].provider
      BY <1>1, <2>4
    <2>6. QED
      BY <1>3, <2>3, <2>4, <2>5
  <1>5. (\A k \in DOMAIN entries[r] : l \notin Claims[entries[r][k].provider]) =>
          Service!FirstClaim(ps, l) = BuiltIn
    BY <1>2, <1>3
  <1>6. QED
    BY <1>4, <1>5 DEF ps

ServiceNext == Service!Next \/ UNCHANGED Service!vars

(* What the service sees of a step that leaves its variables alone *)
LEMMA ServiceStutters ==
  ASSUME open' = open, entries' = entries, call' = call, served' = served, status' = status
  PROVE  UNCHANGED Service!vars
  BY DEF Service!vars

(* A call that fails, fails in the service with a status it knows. *)
LEMMA ServiceFails ==
  ASSUME TypeOK, NEW t \in Threads, NEW s \in Service!Failures,
         ~At(t, "idle"), CallOfLabel, call[t].op # "destroy",
         status[t] = Pending, status' = [status EXCEPT ![t] = s],
         s \in {"INVALID_ARGUMENT", "UNSUPPORTED"} => call[t].op = "load",
         s = "PLUGIN_FAILURE" => call[t].op \in {"load", "analyze"},
         s = "INTERNAL" => call[t].op = "analyze",
         s = "PLUGIN_INCOMPATIBLE" => call[t].op \in {"register", "load"},
         open' = open, entries' = entries, call' = call, served' = served
  PROVE  ServiceNext
  <1>1. Service!Running(t)
    BY DEF Service!Running, Service!NoCall, Service!Pending, NoCall, Pending, CallOfLabel
  <1>2. Service!Fail(t)
    BY <1>1 DEF Service!Fail, TypeOK
  <1>3. QED
    BY <1>2 DEF ServiceNext, Service!Next

(* Seen without their modules, the entries grow by the provider appended. *)
LEMMA ProvidersAppend ==
  ASSUME NEW s \in Seq(Entry), NEW e \in Entry
  PROVE  [i \in DOMAIN Append(s, e) |-> Append(s, e)[i].provider]
           = Append([i \in DOMAIN s |-> s[i].provider], e.provider)
  <1> DEFINE ps == [i \in 1..Len(s) |-> s[i].provider]
             qs == [i \in 1..(Len(s) + 1) |-> Append(s, e)[i].provider]
             as == Append(ps, e.provider)
  <1>1. /\ Len(s) \in Nat /\ DOMAIN s = 1..Len(s)
        /\ DOMAIN Append(s, e) = 1..(Len(s) + 1)
        /\ \A i \in 1..Len(s) : s[i] \in Entry /\ Append(s, e)[i] = s[i]
        /\ Append(s, e)[Len(s) + 1] = e
    OBVIOUS
  <1>2. e.provider \in Descriptors /\ \A i \in 1..Len(s) : s[i].provider \in Descriptors
    BY <1>1 DEF Entry
  <1>3. ps \in [1..Len(s) -> Descriptors]
    BY <1>2
  <1>4. ps \in Seq(Descriptors) /\ Len(ps) = Len(s) /\ \A i \in 1..Len(s) : ps[i] = s[i].provider
    BY <1>1, <1>3, IsASeq, LenProperties
  <1>5. /\ as \in Seq(Descriptors) /\ Len(as) = Len(s) + 1
        /\ \A i \in 1..Len(s) : as[i] = s[i].provider
        /\ as[Len(s) + 1] = e.provider
    <2> HIDE DEF ps
    <2>1. QED
      BY <1>1, <1>2, <1>4, AppendProperties
  <1>6. as = [i \in 1..(Len(s) + 1) |-> as[i]]
    <2> HIDE DEF as
    <2>1. QED
      BY <1>5, LenProperties
  <1>7. \A i \in 1..(Len(s) + 1) : as[i] = Append(s, e)[i].provider
    <2> DEFINE es == Append(s, e)
    <2> HIDE DEF as, es
    <2>1. /\ \A i \in 1..Len(s) : es[i] = s[i]
          /\ es[Len(s) + 1] = e
      BY <1>1 DEF es
    <2>2. \A i \in 1..(Len(s) + 1) : i \in 1..Len(s) \/ i = Len(s) + 1
      BY <1>1
    <2>3. \A i \in 1..(Len(s) + 1) : as[i] = es[i].provider
      BY <1>5, <2>1, <2>2
    <2>4. QED
      BY <2>3 DEF es
  <1>8. as = qs
    <2> HIDE DEF as
    <2>1. QED
      BY <1>6, <1>7
  <1>9. QED
    BY <1>1, <1>8

(* Every step of the registry is one of the service or none. *)
LEMMA RefinementStep ==
  ASSUME IInv, NamesInv, RoutingInv, [Next]_vars PROVE ServiceNext
  <1>a. /\ TypeOK /\ CallOfLabel /\ CursorInRange /\ DestroyerIsAlone
        /\ pc \in [Threads -> Labels] /\ call \in [Threads -> Calls]
        /\ status \in [Threads -> {Pending, "OK"} \cup Service!Failures]
        /\ served \in [Threads -> Seq(Descriptors \cup {BuiltIn})]
        /\ entries \in [Runtimes -> Seq(Entry)] /\ open \subseteq Runtimes
    BY DEF IInv, LockDiscipline, TypeOK
  <1>b. \A t \in Threads : InContext(t)
    BY <1>a, CallContext
  <1>c. \A t \in Threads : RoutingOK(t)
    BY DEF RoutingInv
  <1>1. ASSUME NEW t \in Threads, CallRegister(t) PROVE ServiceNext
    <2>1. PICK r \in open, d \in Static : Begin(t, Service!RegisterCall(r, d), "validate")
      BY <1>1 DEF CallRegister
    <2>2. Service!Start(t, Service!RegisterCall(r, d)) /\ d \in Descriptors
      BY <2>1, <1>a, RegistryAssumption
      DEF Begin, CallOfLabel, At, Service!Start, Service!NoCall, NoCall
    <2>3. /\ open' = open /\ entries' = entries /\ served' = served /\ status' = status
      BY <1>1 DEF CallRegister
    <2>4. Service!Invoke(t)
      BY <2>2, <2>3 DEF Service!Invoke
    <2>5. QED
      BY <2>4 DEF ServiceNext, Service!Next
  <1>2. ASSUME NEW t \in Threads, CallLoad(t) PROVE ServiceNext
    <2>1. PICK r \in open, m \in Modules \cup {NoModule} :
            Begin(t, Service!LoadCall(r, m), "open")
      BY <1>2 DEF CallLoad
    <2>2. Service!Start(t, Service!LoadCall(r, m))
      BY <2>1, <1>a DEF Begin, CallOfLabel, At, Service!Start, Service!NoCall, NoCall
    <2>3. /\ open' = open /\ entries' = entries /\ served' = served /\ status' = status
      BY <1>2 DEF CallLoad
    <2>4. Service!Invoke(t)
      BY <2>2, <2>3 DEF Service!Invoke
    <2>5. QED
      BY <2>4 DEF ServiceNext, Service!Next
  <1>3. ASSUME NEW t \in Threads, CallAnalyze(t) PROVE ServiceNext
    <2>1. PICK r \in open, p \in Plans : Begin(t, Service!AnalyzeCall(r, p), "region")
      BY <1>3 DEF CallAnalyze
    <2>2. Service!Start(t, Service!AnalyzeCall(r, p))
      BY <2>1, <1>a DEF Begin, CallOfLabel, At, Service!Start, Service!NoCall, NoCall
    <2>3. /\ open' = open /\ entries' = entries /\ served' = served /\ status' = status
      BY <1>3 DEF CallAnalyze
    <2>4. Service!Invoke(t)
      BY <2>2, <2>3 DEF Service!Invoke
    <2>5. QED
      BY <2>4 DEF ServiceNext, Service!Next
  <1>4. ASSUME NEW t \in Threads, CallDestroy(t) PROVE ServiceNext
    <2>1. PICK r \in open :
            /\ \A u \in Threads : ~At(u, "idle") => Rt(u) # r
            /\ Begin(t, Service!DestroyCall(r), "teardown")
            /\ open' = open \ {r}
      BY <1>4 DEF CallDestroy
    <2>2. Service!Start(t, Service!DestroyCall(r))
      BY <2>1, <1>a DEF Begin, CallOfLabel, At, Service!Start, Service!NoCall, NoCall
    <2>3. \A u \in Threads : call[u] # Service!NoCall => call[u].runtime # r
      BY <2>1, <1>a DEF CallOfLabel, Rt, Service!NoCall, NoCall
    <2>4. entries' = entries /\ served' = served /\ status' = status
      BY <1>4 DEF CallDestroy
    <2>5. Registered' = [Registered EXCEPT ![r] = <<>>]
      BY <2>1, <2>4, <1>a DEF Registered
    <2>6. Service!Destroy(t)
      BY <2>1, <2>2, <2>3, <2>4, <2>5 DEF Service!Destroy, Registered
    <2>7. QED
      BY <2>6 DEF ServiceNext, Service!Next
  <1>5. ASSUME NEW t \in Threads, OpenModule(t) PROVE ServiceNext
    <2>1. /\ ~At(t, "idle") /\ call[t].op = "load" /\ status[t] = Pending
          /\ open' = open /\ entries' = entries /\ call' = call /\ served' = served
      BY <1>5, <1>a, <1>c
      DEF OpenModule, CallOfLabel, RoutingOK, StatusOfLabel, LoadLabels, RegisterLabels, At
    <2>2. \/ status' = status
          \/ \E s \in {"INVALID_ARGUMENT", "UNSUPPORTED", "PLUGIN_FAILURE", "OUT_OF_MEMORY"} :
               status' = [status EXCEPT ![t] = s]
      BY <1>5 DEF OpenModule, Finish
    <2>3. QED
      BY <2>1, <2>2, <1>a, ServiceStutters, ServiceFails DEF ServiceNext, Service!Failures
  <1>6. ASSUME NEW t \in Threads, ResolveEntry(t) PROVE ServiceNext
    <2>1. /\ ~At(t, "idle") /\ call[t].op = "load" /\ status[t] = Pending
          /\ open' = open /\ entries' = entries /\ call' = call /\ served' = served
      BY <1>6, <1>a, <1>c
      DEF ResolveEntry, CallOfLabel, RoutingOK, StatusOfLabel, LoadLabels, RegisterLabels, At
    <2>2. \/ status' = status
          \/ \E s \in {"PLUGIN_INCOMPATIBLE", "PLUGIN_FAILURE"} :
               status' = [status EXCEPT ![t] = s]
      BY <1>6 DEF ResolveEntry, Finish
    <2>3. QED
      BY <2>1, <2>2, <1>a, ServiceStutters, ServiceFails DEF ServiceNext, Service!Failures
  <1>7. ASSUME NEW t \in Threads, ValidateDescriptor(t) \/ FindDuplicate(t) PROVE ServiceNext
    <2>1. /\ ~At(t, "idle") /\ call[t].op \in {"register", "load"} /\ status[t] = Pending
          /\ open' = open /\ entries' = entries /\ call' = call /\ served' = served
      BY <1>7, <1>a, <1>c
      DEF ValidateDescriptor, FindDuplicate, CallOfLabel, RoutingOK, StatusOfLabel, LoadLabels,
          RegisterLabels, At
    <2>2. \/ status' = status
          \/ \E s \in {"PLUGIN_INCOMPATIBLE", "OUT_OF_MEMORY"} :
               status' = [status EXCEPT ![t] = s]
      BY <1>7 DEF ValidateDescriptor, FindDuplicate
    <2>3. QED
      BY <2>1, <2>2, <1>a, ServiceStutters, ServiceFails DEF ServiceNext, Service!Failures
  <1>8. ASSUME NEW t \in Threads,
               \/ LockExclusive(t) \/ RejectRegistration(t) \/ LockShared(t) \/ LockCall(t)
               \/ DestroyReturns(t)
        PROVE  ServiceNext
    BY <1>8, ServiceStutters
    DEF LockExclusive, RejectRegistration, LockShared, LockCall, DestroyReturns, ServiceNext
  <1>9. ASSUME NEW t \in Threads, InsertEntry(t) PROVE ServiceNext
    <2> DEFINE r == Rt(t)
               e == [provider |-> Candidate(t), module |-> Origin(t)]
    <2>1. /\ ~At(t, "idle") /\ call[t].op \in {"register", "load"} /\ status[t] = Pending
          /\ call[t].op = "load" => call[t].module # NoModule
          /\ r \in open /\ r \in Runtimes /\ Candidate(t) \in Descriptors
          /\ open' = open /\ call' = call /\ served' = served
          /\ ~NameTaken(r, Candidate(t))
      BY <1>9, <1>a, <1>b, <1>c
      DEF InsertEntry, CallOfLabel, DestroyerIsAlone, RoutingOK, StatusOfLabel, LoadLabels,
          RegisterLabels, At, InContext, NamesInv, CheckedName
    <2>2. CASE entries' = entries /\ status' = [status EXCEPT ![t] = "OUT_OF_MEMORY"]
      BY <2>1, <2>2, <1>a, ServiceFails DEF Service!Failures
    <2>3. CASE /\ entries' = [entries EXCEPT ![r] = Append(@, e)]
               /\ status' = [status EXCEPT ![t] = "OK"]
      <3>1. Service!Candidate(t) = Candidate(t)
        BY DEF Service!Candidate, Candidate
      <3>2. /\ Service!Running(t)
            /\ call[t].runtime = r
        BY <2>1, <1>a
        DEF Service!Running, Service!NoCall, Service!Pending, NoCall, Pending, CallOfLabel, Rt
      <3>3. Registered[r] = [i \in DOMAIN entries[r] |-> entries[r][i].provider]
        BY <2>1 DEF Registered
      <3>4. ~\E i \in DOMAIN Registered[r] : NameOf[Registered[r][i]] = NameOf[Candidate(t)]
        BY <2>1, <3>3 DEF NameTaken
      <3>5. Registered' = [Registered EXCEPT ![r] = Append(@, Candidate(t))]
        <4>1. entries'[r] = Append(entries[r], e) /\ entries[r] \in Seq(Entry)
          BY <2>1, <2>3, <1>a
        <4>2. e \in Entry /\ e.provider = Candidate(t)
          BY <2>1, <1>9, <1>b DEF InsertEntry, InContext, At, LoadLabels, RegisterLabels, Entry
        <4>3. [i \in DOMAIN entries'[r] |-> entries'[r][i].provider]
                = Append([i \in DOMAIN entries[r] |-> entries[r][i].provider], Candidate(t))
          <5> HIDE DEF e
          <5>1. QED
            BY <4>1, <4>2, ProvidersAppend
        <4>4. \A q \in Runtimes \ {r} : entries'[q] = entries[q]
          BY <2>3, <1>a
        <4>5. QED
          BY <2>1, <3>3, <4>3, <4>4, <1>a DEF Registered
      <3>6. Service!Adopt(t)
        BY <2>1, <2>3, <3>1, <3>2, <3>4, <3>5
        DEF Service!Adopt, Service!NameTaken, Registered
      <3>7. QED
        BY <3>6 DEF ServiceNext, Service!Next
    <2>4. QED
      BY <1>9, <2>2, <2>3 DEF InsertEntry, Finish
  <1>10. ASSUME NEW t \in Threads, NextRegion(t) PROVE ServiceNext
    <2>1. /\ ~At(t, "idle") /\ call[t].op = "analyze" /\ status[t] = Pending
          /\ Len(served[t]) <= Len(call[t].plan)
          /\ open' = open /\ entries' = entries /\ call' = call /\ served' = served
      BY <1>10, <1>a, <1>c
      DEF NextRegion, CallOfLabel, RoutingOK, StatusOfLabel, ServedInPlan, AnalyzeLabels, At
    <2>2. CASE status' = status
      BY <2>1, <2>2, ServiceStutters DEF ServiceNext
    <2>3. CASE status' = [status EXCEPT ![t] = "OUT_OF_MEMORY"]
      BY <2>1, <2>3, <1>a, ServiceFails DEF Service!Failures
    <2>4. CASE /\ ~(Len(served[t]) < Len(call[t].plan))
               /\ status' = [status EXCEPT ![t] = "OK"]
      <3>1. Len(served[t]) \in Nat /\ Len(call[t].plan) \in Nat
        BY <2>1, <1>a, CallShape, RegistryAssumption
      <3>2. Len(served[t]) = Len(call[t].plan)
        BY <2>1, <2>4, <3>1
      <3>3. Service!Running(t)
        BY <2>1, <1>a
        DEF Service!Running, Service!NoCall, Service!Pending, NoCall, Pending, CallOfLabel
      <3>4. Service!Complete(t)
        BY <2>1, <2>4, <3>2, <3>3 DEF Service!Complete
      <3>5. QED
        BY <3>4 DEF ServiceNext, Service!Next
    <2>5. QED
      BY <1>10, <2>2, <2>3, <2>4 DEF NextRegion, Finish
  <1>11. ASSUME NEW t \in Threads,
                \/ NextEntry(t) /\ served' = served
                \/ SupportsReturns(t)
                \/ AnalyzeReturns(t) /\ served' = served
                \/ BuiltInReturns(t)
         PROVE  ServiceNext
    <2>1. /\ ~At(t, "idle") /\ call[t].op = "analyze" /\ status[t] = Pending
          /\ open' = open /\ entries' = entries /\ call' = call /\ served' = served
      BY <1>11, <1>a, <1>c
      DEF NextEntry, SupportsReturns, AnalyzeReturns, BuiltInReturns, CallOfLabel, RoutingOK,
          StatusOfLabel, AnalyzeLabels, ReaderLabels, EntryLabels, At
    <2>2. \/ status' = status
          \/ \E s \in {"PLUGIN_FAILURE", "OUT_OF_MEMORY", "INTERNAL"} :
               status' = [status EXCEPT ![t] = s]
      BY <1>11 DEF NextEntry, SupportsReturns, AnalyzeReturns, BuiltInReturns, Finish
    <2>3. QED
      BY <2>1, <2>2, <1>a, ServiceStutters, ServiceFails DEF ServiceNext, Service!Failures
  <1>12. ASSUME NEW t \in Threads,
                \/ NextEntry(t) /\ served' # served
                \/ AnalyzeReturns(t) /\ served' # served
         PROVE  ServiceNext
    <2> DEFINE who == IF pc[t] = "analyze" THEN Current(t).provider ELSE BuiltIn
    <2>1. /\ ~At(t, "idle") /\ call[t].op = "analyze" /\ status[t] = Pending
          /\ pc[t] \in {"route", "analyze"} /\ pc[t] \in ReaderLabels
          /\ Len(served[t]) < Len(call[t].plan) /\ Rt(t) \in open /\ Rt(t) \in Runtimes
          /\ open' = open /\ entries' = entries /\ call' = call
      BY <1>12, <1>a, <1>c
      DEF NextEntry, AnalyzeReturns, CallOfLabel, DestroyerIsAlone, RoutingOK, StatusOfLabel,
          ServedInPlan, AnalyzeLabels, ReaderLabels, EntryLabels, At
    <2>2. /\ served' = [served EXCEPT ![t] = Append(@, who)] /\ status' = status
          /\ pc[t] = "route" => ~(cursor[t] <= Len(entries[Rt(t)]))
      <3>1. CASE NextEntry(t) /\ served' # served
        BY <3>1, <1>a DEF NextEntry, At
      <3>2. CASE AnalyzeReturns(t) /\ served' # served
        <4>1. pc[t] = "analyze" /\ who = Current(t).provider
          BY <3>2 DEF AnalyzeReturns, At
        <4> HIDE DEF who
        <4>2. QED
          BY <3>2, <4>1 DEF AnalyzeReturns
      <3>3. QED
        BY <1>12, <3>1, <3>2
    <2>3. /\ entries[Rt(t)] \in Seq(Entry) /\ cursor[t] \in Nat
          /\ pc[t] = "analyze" => cursor[t] \in DOMAIN entries[Rt(t)]
          /\ \A j \in 1..(cursor[t] - 1) : Language(t) \notin Claims[entries[Rt(t)][j].provider]
          /\ pc[t] = "analyze" => Language(t) \in Claims[Current(t).provider]
      BY <2>1, <1>a, <1>c DEF TypeOK, CursorInRange, EntryLabels, RoutingOK, ScannedUnclaimed, At
    <2>4. Service!FirstClaim(Registered[Rt(t)], Language(t)) = who
      <3>1. CASE pc[t] = "analyze"
        <4>1. FirstClaimant(Rt(t), cursor[t], Language(t))
          BY <2>3, <3>1 DEF FirstClaimant, Current
        <4>2. QED
          BY <4>1, <2>1, <2>3, <3>1, <1>a, FoundIsFirstClaim DEF Current
      <3>2. CASE pc[t] = "route"
        <4>1. \A k \in DOMAIN entries[Rt(t)] : k \in 1..(cursor[t] - 1)
          BY <2>2, <2>3, <3>2
        <4>2. QED
          BY <4>1, <2>1, <2>3, <3>2, <1>a, FoundIsFirstClaim
      <3>3. QED
        BY <2>1, <3>1, <3>2
    <2>5. Service!Running(t)
      BY <2>1, <1>a
      DEF Service!Running, Service!NoCall, Service!Pending, NoCall, Pending, CallOfLabel
    <2>6. Service!Serve(t)
      <3> HIDE DEF who
      <3>1. QED
        BY <2>1, <2>2, <2>4, <2>5, <1>a DEF Service!Serve, Registered, Language, Rt
    <2>7. QED
      BY <2>6 DEF ServiceNext, Service!Next
  <1>13. ASSUME NEW t \in Threads, DestroyNextEntry(t) PROVE ServiceNext
    <2>1. /\ ~At(t, "idle") /\ call[t].op = "destroy" /\ status[t] = Pending
          /\ open' = open /\ entries' = entries /\ call' = call /\ served' = served
      BY <1>13, <1>a, <1>c
      DEF DestroyNextEntry, CallOfLabel, RoutingOK, StatusOfLabel, DestroyLabels, At
    <2>2. CASE status' = status
      BY <2>1, <2>2, ServiceStutters DEF ServiceNext
    <2>3. CASE status' = [status EXCEPT ![t] = "OK"]
      <3>1. Service!Running(t)
        BY <2>1, <1>a
        DEF Service!Running, Service!NoCall, Service!Pending, NoCall, Pending, CallOfLabel
      <3>2. Service!Complete(t)
        BY <2>1, <2>3, <3>1 DEF Service!Complete
      <3>3. QED
        BY <3>2 DEF ServiceNext, Service!Next
    <2>4. QED
      BY <1>13, <2>2, <2>3 DEF DestroyNextEntry, Finish
  <1>14. ASSUME NEW t \in Threads, CloseEntryModule(t) PROVE ServiceNext
    <2>1. Rt(t) \notin open
      BY <1>14, <1>a
      DEF CloseEntryModule, CallOfLabel, DestroyerIsAlone, DestroyLabels, At
    <2>2. \A r \in open : entries'[r] = entries[r]
      BY <1>14, <2>1, <1>a DEF CloseEntryModule
    <2>3. Registered' = Registered
      BY <1>14, <2>2 DEF CloseEntryModule, Registered
    <2>4. QED
      BY <1>14, <2>3 DEF CloseEntryModule, ServiceNext, Service!vars, Registered
  <1>15. ASSUME NEW t \in Threads, Return(t) PROVE ServiceNext
    <2>1. call[t] # Service!NoCall /\ status[t] # Service!Pending
      BY <1>15, <1>a, <1>c
      DEF Return, CallOfLabel, RoutingOK, StatusOfLabel, At, Pending, Service!Pending, NoCall,
          Service!NoCall
    <2>2. Service!Return(t)
      BY <1>15, <2>1
      DEF Return, Service!Return, Pending, Service!Pending, NoCall, Service!NoCall
    <2>3. QED
      BY <2>2 DEF ServiceNext, Service!Next
  <1>16. CASE UNCHANGED vars
    BY <1>16, ServiceStutters DEF vars, locals, ServiceNext
  <1>17. QED
    BY <1>1, <1>2, <1>3, <1>4, <1>5, <1>6, <1>7, <1>8, <1>9, <1>10, <1>11, <1>12, <1>13,
       <1>14, <1>15, <1>16
    DEF Next, Step

(* Names stay unique and checked in every behaviour. *)
LEMMA NamesHold == Spec => []NamesInv
  <1>1. Init => NamesInv
    BY DEF Init, NamesInv, UniqueNames, CheckedName, At
  <1>2. IInv /\ NamesInv /\ [Next]_vars => NamesInv'
    BY NamesStep
  <1>3. QED
    BY <1>1, <1>2, InvariantHolds, PTL DEF Spec

(* Registrations take effect in one step, and each region goes to the first *)
(* claimant of its language at one moment, whatever registers, loads or     *)
(* destroys meanwhile: the loop of provider_registry.cpp:300-323 implements *)
(* the atomic routing of ProviderService.                                   *)
THEOREM RegistryImplementsService == Spec => ImplementsService
  <1>1. Init => Service!Init
    <2>1. ASSUME Init PROVE Registered = [r \in Runtimes |-> <<>>]
      <3>1. \A r \in Runtimes : entries[r] = <<>>
        BY <2>1 DEF Init
      <3>2. \A r \in Runtimes : [i \in DOMAIN entries[r] |-> entries[r][i].provider] = <<>>
        BY <3>1
      <3>3. QED
        BY <3>2 DEF Registered
    <2>2. QED
      BY <2>1
      DEF Init, Service!Init, Registered, NoCall, Service!NoCall, Pending, Service!Pending
  <1>2. IInv /\ NamesInv /\ RoutingInv /\ [Next]_vars => [Service!Next]_(Service!vars)
    BY RefinementStep DEF ServiceNext
  <1>3. QED
    BY <1>1, <1>2, InvariantHolds, NamesHold, RoutingHolds, PTL
    DEF Spec, ImplementsService, Service!Spec

-----------------------------------------------------------------------------
(* Modules and contexts *)


(* Thread t has opened module m and not handed it over yet; runtime r has  *)
(* an entry that keeps it.                                                 *)
Loads(t, m) == pc[t] \in LoadingLabels /\ Origin(t) = m
Keeps(r, m) == \E i \in DOMAIN entries[r] : entries[r][i].module = m

(* An entry that owns a module has the descriptor of its entry point. *)
EntryOfModule ==
  \A r \in Runtimes : \A i \in DOMAIN entries[r] :
    entries[r][i].module # NoModule => entries[r][i].provider = EntryPoint[entries[r][i].module]

FinitelyHeld ==
  \A m \in Modules : IsFiniteSet(Loading(m)) /\ IsFiniteSet(Keeping(m))

(* The inductive invariant for modules, beside IInv and NamesInv *)
ModulesInv == ModuleReferences /\ EntryOfModule /\ FinitelyHeld

Count(p) == IF p THEN 1 ELSE 0

(* A set that gains or loses at most one element changes its size by one. *)
LEMMA SizeMoves ==
  ASSUME NEW S, NEW T, IsFiniteSet(S), NEW x, S \ {x} = T \ {x}
  PROVE  /\ IsFiniteSet(T)
         /\ Cardinality(S) \in Nat /\ Cardinality(T) \in Nat
         /\ Cardinality(T) - Count(x \in T) = Cardinality(S) - Count(x \in S)
  <1> DEFINE U == S \ {x}
  <1>1. /\ IsFiniteSet(U)
        /\ Cardinality(U) = IF x \in S THEN Cardinality(S) - 1 ELSE Cardinality(S)
    BY FS_RemoveElement
  <1>2. x \notin U /\ T \ {x} = U
    OBVIOUS
  <1>3. x \in T => T = U \cup {x}
    BY <1>2
  <1>4. x \notin T => T = U
    BY <1>2
  <1> HIDE DEF U
  <1>5. IsFiniteSet(U \cup {x}) /\ Cardinality(U \cup {x}) = Cardinality(U) + 1
    BY <1>1, <1>2, FS_AddElement
  <1>6. Cardinality(S) \in Nat /\ Cardinality(U) \in Nat
    BY <1>1, FS_CardinalityType
  <1>7. CASE x \in T
    <2>1. IsFiniteSet(T) /\ Cardinality(T) = Cardinality(U) + 1
      BY <1>3, <1>5, <1>7
    <2>2. QED
      BY <1>1, <1>6, <1>7, <2>1 DEF Count
  <1>8. CASE x \notin T
    <2>1. IsFiniteSet(T) /\ Cardinality(T) = Cardinality(U)
      BY <1>1, <1>4, <1>8
    <2>2. QED
      BY <1>1, <1>6, <1>8, <2>1 DEF Count
  <1>9. QED
    BY <1>7, <1>8

(* One thread's step moves it alone into or out of Loading(m). *)
LEMMA LoadingMoves ==
  ASSUME NEW t \in Threads, NEW m, IsFiniteSet(Loading(m)),
         \A u \in Threads \ {t} : LocalsKept(u)
  PROVE  /\ IsFiniteSet(Loading(m)')
         /\ Cardinality(Loading(m)) \in Nat /\ Cardinality(Loading(m)') \in Nat
         /\ Cardinality(Loading(m)') - Count(Loads(t, m)')
              = Cardinality(Loading(m)) - Count(Loads(t, m))
  <1>1. Loading(m) \ {t} = Loading(m)' \ {t}
    BY DEF Loading, LocalsKept, Origin
  <1>2. (t \in Loading(m) <=> Loads(t, m)) /\ (t \in Loading(m)' <=> Loads(t, m)')
    BY DEF Loading, Loads
  <1> HIDE DEF Loading, Loads
  <1>3. /\ IsFiniteSet(Loading(m)')
        /\ Cardinality(Loading(m)) \in Nat /\ Cardinality(Loading(m)') \in Nat
        /\ Cardinality(Loading(m)') - Count(t \in Loading(m)')
             = Cardinality(Loading(m)) - Count(t \in Loading(m))
    BY <1>1, SizeMoves
  <1>4. /\ Count(t \in Loading(m)) = Count(Loads(t, m))
        /\ Count(t \in Loading(m)') = Count(Loads(t, m)')
    BY <1>2 DEF Count
  <1>5. QED
    BY <1>3, <1>4

(* A step that changes one runtime's entries moves it alone in Keeping(m). *)
LEMMA KeepingMoves ==
  ASSUME NEW r \in Runtimes, NEW m, IsFiniteSet(Keeping(m)),
         \A q \in Runtimes \ {r} : entries'[q] = entries[q]
  PROVE  /\ IsFiniteSet(Keeping(m)')
         /\ Cardinality(Keeping(m)) \in Nat /\ Cardinality(Keeping(m)') \in Nat
         /\ Cardinality(Keeping(m)') - Count(Keeps(r, m)')
              = Cardinality(Keeping(m)) - Count(Keeps(r, m))
  <1>1. Keeping(m) \ {r} = Keeping(m)' \ {r}
    BY DEF Keeping
  <1>2. (r \in Keeping(m) <=> Keeps(r, m)) /\ (r \in Keeping(m)' <=> Keeps(r, m)')
    BY DEF Keeping, Keeps
  <1>3. /\ IsFiniteSet(Keeping(m)')
        /\ Cardinality(Keeping(m)) \in Nat /\ Cardinality(Keeping(m)') \in Nat
        /\ Cardinality(Keeping(m)') - Count(r \in Keeping(m)')
             = Cardinality(Keeping(m)) - Count(r \in Keeping(m))
    BY <1>1, SizeMoves
  <1>4. /\ Count(r \in Keeping(m)) = Count(Keeps(r, m))
        /\ Count(r \in Keeping(m)') = Count(Keeps(r, m)')
    BY <1>2 DEF Count
  <1>5. QED
    BY <1>3, <1>4

(* A step that leaves the entries alone keeps the books if it counts the   *)
(* load it begins or ends.                                                 *)
LEMMA LoadsBalance ==
  ASSUME ModulesInv, TypeOK, NEW t \in Threads, \A u \in Threads \ {t} : LocalsKept(u),
         entries' = entries,
         \A m \in Modules : refs'[m] = refs[m] + Count(Loads(t, m)') - Count(Loads(t, m))
  PROVE  ModulesInv'
  <1>1. EntryOfModule'
    BY DEF ModulesInv, EntryOfModule
  <1>2. \A m : Keeping(m)' = Keeping(m)
    BY DEF Keeping
  <1>3. ASSUME NEW m \in Modules
        PROVE  /\ IsFiniteSet(Loading(m)') /\ IsFiniteSet(Keeping(m)')
               /\ refs'[m] = Cardinality(Loading(m)') + Cardinality(Keeping(m)')
    <2>1. /\ IsFiniteSet(Loading(m)) /\ IsFiniteSet(Keeping(m))
          /\ refs[m] = Cardinality(Loading(m)) + Cardinality(Keeping(m))
      BY DEF ModulesInv, FinitelyHeld, ModuleReferences
    <2>2. /\ IsFiniteSet(Loading(m)')
          /\ Cardinality(Loading(m)) \in Nat /\ Cardinality(Loading(m)') \in Nat
          /\ Cardinality(Loading(m)') - Count(Loads(t, m)')
               = Cardinality(Loading(m)) - Count(Loads(t, m))
      BY <2>1, LoadingMoves
    <2>3. Cardinality(Keeping(m)) \in Nat
      BY <2>1, FS_CardinalityType
    <2>4. Count(Loads(t, m)) \in Int /\ Count(Loads(t, m)') \in Int
      BY DEF Count
    <2>5. QED
      BY <1>2, <2>1, <2>2, <2>3, <2>4
  <1>4. QED
    BY <1>1, <1>3 DEF ModulesInv, ModuleReferences, FinitelyHeld

(* A step on one runtime's entries keeps the books if it counts the load   *)
(* and the entry.                                                          *)
LEMMA EntriesBalance ==
  ASSUME ModulesInv, TypeOK, NEW t \in Threads, \A u \in Threads \ {t} : LocalsKept(u),
         NEW r \in Runtimes, \A q \in Runtimes \ {r} : entries'[q] = entries[q],
         EntryOfModule',
         \A m \in Modules : refs'[m] = refs[m] + Count(Loads(t, m)') - Count(Loads(t, m))
                                               + Count(Keeps(r, m)') - Count(Keeps(r, m))
  PROVE  ModulesInv'
  <1>1. ASSUME NEW m \in Modules
        PROVE  /\ IsFiniteSet(Loading(m)') /\ IsFiniteSet(Keeping(m)')
               /\ refs'[m] = Cardinality(Loading(m)') + Cardinality(Keeping(m)')
    <2>1. /\ IsFiniteSet(Loading(m)) /\ IsFiniteSet(Keeping(m))
          /\ refs[m] = Cardinality(Loading(m)) + Cardinality(Keeping(m))
      BY DEF ModulesInv, FinitelyHeld, ModuleReferences
    <2>2. /\ IsFiniteSet(Loading(m)')
          /\ Cardinality(Loading(m)) \in Nat /\ Cardinality(Loading(m)') \in Nat
          /\ Cardinality(Loading(m)') - Count(Loads(t, m)')
               = Cardinality(Loading(m)) - Count(Loads(t, m))
      BY <2>1, LoadingMoves
    <2>3. /\ IsFiniteSet(Keeping(m)')
          /\ Cardinality(Keeping(m)) \in Nat /\ Cardinality(Keeping(m)') \in Nat
          /\ Cardinality(Keeping(m)') - Count(Keeps(r, m)')
               = Cardinality(Keeping(m)) - Count(Keeps(r, m))
      BY <2>1, KeepingMoves
    <2>4. /\ Count(Loads(t, m)) \in Int /\ Count(Loads(t, m)') \in Int
          /\ Count(Keeps(r, m)) \in Int /\ Count(Keeps(r, m)') \in Int
      BY DEF Count
    <2>5. refs'[m] = refs[m] + Count(Loads(t, m)') - Count(Loads(t, m))
                             + Count(Keeps(r, m)') - Count(Keeps(r, m))
      OBVIOUS
    <2>6. refs'[m] = Cardinality(Loading(m)') + Cardinality(Keeping(m)')
      <3> DEFINE l == Cardinality(Loading(m))  l1 == Cardinality(Loading(m)')
                 k == Cardinality(Keeping(m))  k1 == Cardinality(Keeping(m)')
                 a == Count(Loads(t, m))       a1 == Count(Loads(t, m)')
                 b == Count(Keeps(r, m))       b1 == Count(Keeps(r, m)')
      <3>1. l \in Nat /\ l1 \in Nat /\ k \in Nat /\ k1 \in Nat
        BY <2>2, <2>3
      <3>2. a \in Int /\ a1 \in Int /\ b \in Int /\ b1 \in Int
        BY <2>4
      <3>3. refs[m] = l + k /\ l1 - a1 = l - a /\ k1 - b1 = k - b
        BY <2>1, <2>2, <2>3, Zenon
      <3>4. refs'[m] = refs[m] + a1 - a + b1 - b
        BY <2>5, Zenon
      <3> HIDE DEF l, l1, k, k1, a, a1, b, b1
      <3>5. refs'[m] = l1 + k1
        BY <3>1, <3>2, <3>3, <3>4
      <3>6. QED
        BY <3>5 DEF l1, k1
    <2>7. QED
      BY <2>2, <2>3, <2>6
  <1>2. QED
    BY <1>1 DEF ModulesInv, ModuleReferences, FinitelyHeld

(* Dropping an element leaves the others, and nothing else. *)
LEMMA WithoutEntryKeeps ==
  ASSUME NEW S, NEW s \in Seq(S), NEW c \in DOMAIN s
  PROVE  /\ \A j \in DOMAIN WithoutEntry(s, c) :
              \E i \in DOMAIN s : i # c /\ WithoutEntry(s, c)[j] = s[i]
         /\ \A i \in DOMAIN s : i # c =>
              \E j \in DOMAIN WithoutEntry(s, c) : WithoutEntry(s, c)[j] = s[i]
  <1> DEFINE w == WithoutEntry(s, c)
  <1>1. /\ Len(w) = Len(s) - 1 /\ w \in Seq(S)
        /\ \A j \in DOMAIN w :
             /\ j \in Nat
             /\ j < c => j \in DOMAIN s /\ w[j] = s[j]
             /\ j >= c => j + 1 \in DOMAIN s /\ w[j] = s[j + 1]
    BY WithoutEntryElements, WithoutEntryTyped
  <1> HIDE DEF w
  <1>2. c \in 1..Len(s) /\ Len(s) \in Nat /\ DOMAIN s = 1..Len(s) /\ DOMAIN w = 1..(Len(s) - 1)
    BY <1>1, LenProperties
  <1>3. ASSUME NEW j \in DOMAIN w PROVE \E i \in DOMAIN s : i # c /\ w[j] = s[i]
    <2>1. CASE j < c
      BY <1>1, <1>2, <2>1
    <2>2. CASE j >= c
      BY <1>1, <1>2, <2>2
    <2>3. QED
      BY <1>1, <1>2, <2>1, <2>2
  <1>4. ASSUME NEW i \in DOMAIN s, i # c PROVE \E j \in DOMAIN w : w[j] = s[i]
    <2>1. CASE i < c
      <3>1. i \in DOMAIN w /\ w[i] = s[i]
        BY <1>1, <1>2, <2>1
      <3>2. QED
        BY <3>1
    <2>2. CASE i > c
      <3>1. i - 1 \in DOMAIN w /\ i - 1 >= c /\ (i - 1) + 1 = i
        BY <1>2, <2>2
      <3>2. w[i - 1] = s[i]
        BY <1>1, <3>1
      <3>3. QED
        BY <3>1, <3>2
    <2>3. QED
      BY <1>2, <1>4, <2>1, <2>2
  <1>5. QED
    BY <1>3, <1>4 DEF w

(* Every step closes what it opened: an insertion hands the module from    *)
(* the load to the entry, whose provider no other entry has.               *)
LEMMA ModulesStep ==
  ASSUME IInv, NamesInv, ModulesInv, [Next]_vars PROVE ModulesInv'
  <1>a. /\ TypeOK /\ CallOfLabel /\ CursorInRange
        /\ pc \in [Threads -> Labels] /\ call \in [Threads -> Calls]
        /\ entries \in [Runtimes -> Seq(Entry)] /\ refs \in [Modules -> Int]
    BY DEF IInv, LockDiscipline, TypeOK
  <1>b. \A t \in Threads : InContext(t)
    BY <1>a, CallContext
  <1>c. \A t \in Threads : Acts(t) => \A u \in Threads \ {t} : LocalsKept(u)
    BY <1>a, LocalsAreOwn
  <1>d. NoModule \notin Modules
    BY RegistryAssumption
  <1>1. ASSUME NEW t \in Threads,
               CallRegister(t) \/ CallLoad(t) \/ CallAnalyze(t) \/ CallDestroy(t)
        PROVE  ModulesInv'
    <2>1. entries' = entries /\ refs' = refs
      BY <1>1 DEF CallRegister, CallLoad, CallAnalyze, CallDestroy
    <2>2. ~(pc[t] \in LoadingLabels)
      BY <1>1
      DEF CallRegister, CallLoad, CallAnalyze, CallDestroy, Begin, At, LoadingLabels
    <2>3. pc'[t] \in LoadingLabels => call'[t].op = "register"
      BY <1>1, <1>a, NewCalls
      DEF CallRegister, CallLoad, CallAnalyze, CallDestroy, Begin, Goto, At, LoadingLabels, TypeOK
    <2>4. \A m \in Modules : ~Loads(t, m) /\ ~Loads(t, m)'
      BY <2>2, <2>3, <1>d DEF Loads, Origin
    <2>5. \A m \in Modules : refs'[m] = refs[m] + Count(Loads(t, m)') - Count(Loads(t, m))
      BY <2>1, <2>4, <1>a DEF Count
    <2>6. QED
      BY <1>1, <2>1, <2>5, <1>a, <1>c, LoadsBalance DEF Acts
  <1>2. ASSUME NEW t \in Threads,
               \/ ValidateDescriptor(t) \/ LockExclusive(t) \/ FindDuplicate(t)
               \/ InsertEntry(t) /\ entries' = entries
               \/ NextRegion(t) \/ LockShared(t) \/ NextEntry(t) \/ LockCall(t)
               \/ SupportsReturns(t) \/ AnalyzeReturns(t) \/ BuiltInReturns(t)
               \/ DestroyNextEntry(t) \/ DestroyReturns(t) \/ Return(t)
        PROVE  ModulesInv'
    <2>1. entries' = entries /\ refs' = refs
      BY <1>2
      DEF ValidateDescriptor, LockExclusive, FindDuplicate, InsertEntry, NextRegion, LockShared,
          NextEntry, LockCall, SupportsReturns, AnalyzeReturns, BuiltInReturns,
          DestroyNextEntry, DestroyReturns, Return
    <2>2. \A m \in Modules : Loads(t, m)' <=> Loads(t, m)
      <3>1. CASE ValidateDescriptor(t) \/ LockExclusive(t) \/ FindDuplicate(t)
        BY <3>1, <1>a
        DEF ValidateDescriptor, LockExclusive, FindDuplicate, Goto, At, Loads, LoadingLabels,
            Origin
      <3>2. CASE InsertEntry(t) /\ entries' = entries
        <4>1. pc'[t] = "reject" /\ pc[t] = "insert" /\ call' = call
          <5>1. entries[Rt(t)] \in Seq(Entry) /\ Rt(t) \in Runtimes
            BY <3>2, <1>a, <1>b DEF InsertEntry, InContext, At
          <5>2. \A e : Append(entries[Rt(t)], e) # entries[Rt(t)]
            <6>1. \A e : Len(Append(entries[Rt(t)], e)) = Len(entries[Rt(t)]) + 1
              BY <5>1
            <6>2. QED
              BY <5>1, <6>1
          <5>3. entries'[Rt(t)] = entries[Rt(t)]
            BY <3>2
          <5>4. QED
            BY <3>2, <5>1, <5>2, <5>3, <1>a DEF InsertEntry, Goto, At
        <4>2. QED
          BY <4>1 DEF Loads, LoadingLabels, Origin
      <3>3. CASE NextRegion(t) \/ LockShared(t) \/ NextEntry(t) \/ LockCall(t)
                 \/ SupportsReturns(t) \/ AnalyzeReturns(t) \/ BuiltInReturns(t)
        BY <3>3, <1>a
        DEF NextRegion, LockShared, NextEntry, LockCall, SupportsReturns, AnalyzeReturns,
            BuiltInReturns, Finish, Goto, At, Loads, LoadingLabels
      <3>4. CASE DestroyNextEntry(t) \/ DestroyReturns(t) \/ Return(t)
        BY <3>4, <1>a
        DEF DestroyNextEntry, DestroyReturns, Return, Finish, Goto, At, Loads, LoadingLabels
      <3>5. QED
        BY <1>2, <3>1, <3>2, <3>3, <3>4
    <2>3. \A m \in Modules : refs'[m] = refs[m] + Count(Loads(t, m)') - Count(Loads(t, m))
      <3>1. ASSUME NEW m \in Modules
            PROVE  /\ Count(Loads(t, m)') = Count(Loads(t, m))
                   /\ Count(Loads(t, m)) \in Int /\ refs[m] \in Int
        BY <2>2, <1>a DEF Count
      <3>2. QED
        BY <2>1, <3>1
    <2>4. QED
      BY <1>2, <2>1, <2>3, <1>a, <1>c, LoadsBalance DEF Acts, Step
  <1>3. ASSUME NEW t \in Threads, OpenModule(t) \/ ResolveEntry(t) \/ RejectRegistration(t)
        PROVE  ModulesInv'
    <2>1. entries' = entries /\ call' = call
      BY <1>3 DEF OpenModule, ResolveEntry, RejectRegistration
    <2>2. ASSUME NEW m \in Modules
          PROVE  refs'[m] = refs[m] + Count(Loads(t, m)') - Count(Loads(t, m))
      <3>1. CASE OpenModule(t)
        <4>1. pc[t] = "open" /\ call[t].op = "load"
          BY <3>1, <1>a DEF OpenModule, CallOfLabel, LoadLabels, RegisterLabels, At
        <4>2. ~Loads(t, m)
          BY <4>1 DEF Loads, LoadingLabels
        <4>3. CASE pc'[t] = "entry" /\ refs' = [refs EXCEPT ![call[t].module] = @ + 1]
          BY <4>1, <4>2, <4>3, <2>1, <1>a DEF Loads, LoadingLabels, Origin, Count
        <4>4. CASE pc'[t] = "done" /\ refs' = refs
          BY <4>2, <4>4, <1>a DEF Loads, LoadingLabels, Count
        <4>5. QED
          BY <3>1, <4>3, <4>4, <1>a DEF OpenModule, Finish, Goto
      <3>2. CASE ResolveEntry(t)
        <4>1. pc[t] = "entry" /\ call[t].op = "load"
          BY <3>2, <1>a DEF ResolveEntry, CallOfLabel, LoadLabels, RegisterLabels, At
        <4>2. CASE pc'[t] = "validate" /\ refs' = refs
          BY <4>1, <4>2, <2>1, <1>a DEF Loads, LoadingLabels, Origin, Count
        <4>3. CASE pc'[t] = "done" /\ refs' = [refs EXCEPT ![call[t].module] = @ - 1]
          BY <4>1, <4>3, <1>a DEF Loads, LoadingLabels, Origin, Count
        <4>4. QED
          BY <3>2, <4>2, <4>3, <1>a DEF ResolveEntry, Finish, Goto
      <3>3. CASE RejectRegistration(t)
        <4>1. pc[t] = "reject" /\ pc'[t] = "done"
          BY <3>3, <1>a DEF RejectRegistration, Goto, At
        <4>2. (Loads(t, m) <=> Origin(t) = m) /\ ~Loads(t, m)'
          BY <4>1 DEF Loads, LoadingLabels
        <4>3. refs'[m] = IF Origin(t) = m THEN refs[m] - 1 ELSE refs[m]
          BY <3>3, <1>a, <1>d DEF RejectRegistration
        <4>4. QED
          BY <4>2, <4>3, <1>a DEF Count
      <3>4. QED
        BY <1>3, <3>1, <3>2, <3>3
    <2>3. QED
      BY <1>3, <2>1, <2>2, <1>a, <1>c, LoadsBalance DEF Acts, Step
  <1>4. ASSUME NEW t \in Threads, InsertEntry(t), entries' # entries PROVE ModulesInv'
    <2>0. PICK r \in Runtimes : r = Rt(t)
      BY <1>4, <1>b DEF InsertEntry, InContext, At
    <2> DEFINE e == [provider |-> Candidate(t), module |-> Origin(t)]
    <2>1. /\ pc[t] = "insert" /\ pc'[t] = "done" /\ refs' = refs
          /\ entries' = [entries EXCEPT ![r] = Append(@, e)]
          /\ e.provider = Candidate(t) /\ e.module = Origin(t)
          /\ ~NameTaken(r, Candidate(t))
      BY <1>4, <2>0, <1>a DEF InsertEntry, Finish, Goto, At, NamesInv, CheckedName
    <2>2. /\ \A q \in Runtimes \ {r} : entries'[q] = entries[q]
          /\ DOMAIN entries[r] \subseteq DOMAIN entries'[r]
          /\ \A i \in DOMAIN entries'[r] :
               \/ i \in DOMAIN entries[r] /\ entries'[r][i] = entries[r][i]
               \/ entries'[r][i] = e
          /\ \E i \in DOMAIN entries'[r] : entries'[r][i] = e
      <3> HIDE DEF e
      <3>1. entries[r] \in Seq(Entry) /\ entries'[r] = Append(entries[r], e)
        BY <2>1, <1>a
      <3>2. /\ Len(entries[r]) \in Nat /\ DOMAIN entries[r] = 1..Len(entries[r])
            /\ DOMAIN entries'[r] = 1..(Len(entries[r]) + 1)
            /\ \A i \in 1..Len(entries[r]) : entries'[r][i] = entries[r][i]
            /\ entries'[r][Len(entries[r]) + 1] = e
        BY <3>1
      <3>3. \A i \in 1..(Len(entries[r]) + 1) : i \in 1..Len(entries[r]) \/ i = Len(entries[r]) + 1
        BY <3>2
      <3>4. Len(entries[r]) + 1 \in 1..(Len(entries[r]) + 1)
        BY <3>2
      <3>5. \A q \in Runtimes \ {r} : entries'[q] = entries[q]
        BY <2>1, <1>a
      <3>6. QED
        BY <3>2, <3>3, <3>4, <3>5
    <2>3. Origin(t) # NoModule => Candidate(t) = EntryPoint[Origin(t)]
      BY <2>1, <1>a DEF Origin, Candidate, CallOfLabel, At, LoadLabels, RegisterLabels
    <2> HIDE DEF e
    <2>4. EntryOfModule'
      <3>1. \A q \in Runtimes : \A i \in DOMAIN entries'[q] :
              entries'[q][i].module # NoModule =>
                entries'[q][i].provider = EntryPoint[entries'[q][i].module]
        BY <2>1, <2>2, <2>3 DEF ModulesInv, EntryOfModule
      <3>2. QED
        BY <3>1 DEF EntryOfModule
    <2>5. ASSUME NEW m \in Modules
          PROVE  refs'[m] = refs[m] + Count(Loads(t, m)') - Count(Loads(t, m))
                                    + Count(Keeps(r, m)') - Count(Keeps(r, m))
      <3>1. (Loads(t, m) <=> Origin(t) = m) /\ ~Loads(t, m)'
        BY <2>1 DEF Loads, LoadingLabels
      <3>2. Origin(t) = m => ~Keeps(r, m)
        <4>1. ASSUME Origin(t) = m, NEW i \in DOMAIN entries[r], entries[r][i].module = m
              PROVE  FALSE
          <5>1. entries[r][i].provider = Candidate(t)
            BY <4>1, <2>1, <2>3, <1>d DEF ModulesInv, EntryOfModule
          <5>2. QED
            BY <5>1, <2>1 DEF NameTaken
        <4>2. QED
          BY <4>1 DEF Keeps
      <3>3. Keeps(r, m)' <=> Keeps(r, m) \/ Origin(t) = m
        <4>1. (\E i \in DOMAIN entries'[r] : entries'[r][i].module = m)
                <=> Keeps(r, m) \/ Origin(t) = m
          BY <2>1, <2>2 DEF Keeps
        <4>2. QED
          BY <4>1 DEF Keeps
      <3>4. QED
        BY <3>1, <3>2, <3>3, <2>1, <1>a DEF Count
    <2>6. QED
      BY <1>4, <2>1, <2>2, <2>4, <2>5, <1>a, <1>c, EntriesBalance DEF Acts, Step
  <1>5. ASSUME NEW t \in Threads, CloseEntryModule(t) PROVE ModulesInv'
    <2>0. PICK r \in Runtimes : r = Rt(t)
      BY <1>5, <1>b DEF CloseEntryModule, InContext, At
    <2> DEFINE s == entries[r]
               c == cursor[t]
               w == WithoutEntry(s, c)
    <2>1. /\ pc[t] = "close" /\ pc'[t] = "teardown"
          /\ s \in Seq(Entry) /\ c \in DOMAIN s
          /\ entries'[r] = w /\ \A q \in Runtimes \ {r} : entries'[q] = entries[q]
          /\ Current(t) = s[c] /\ call' = call
      BY <1>5, <2>0, <1>a
      DEF CloseEntryModule, Goto, At, CursorInRange, Current
    <2>2. /\ \A j \in DOMAIN w : \E i \in DOMAIN s : i # c /\ w[j] = s[i]
          /\ \A i \in DOMAIN s : i # c => \E j \in DOMAIN w : w[j] = s[i]
      BY <2>1, WithoutEntryKeeps
    <2>3. /\ \A i \in DOMAIN s : s[i].module # NoModule => s[i].provider = EntryPoint[s[i].module]
          /\ \A i, j \in DOMAIN s : NameOf[s[i].provider] = NameOf[s[j].provider] => i = j
      BY <2>1 DEF ModulesInv, EntryOfModule, NamesInv, UniqueNames
    <2>4. \A m \in Modules :
            refs'[m] = IF s[c].module = m THEN refs[m] - 1 ELSE refs[m]
      BY <1>5, <2>1, <1>a, <1>d DEF CloseEntryModule
    <2> HIDE DEF s, c, w
    <2>5. EntryOfModule'
      <3>1. \A q \in Runtimes : \A j \in DOMAIN entries'[q] :
              entries'[q][j].module # NoModule =>
                entries'[q][j].provider = EntryPoint[entries'[q][j].module]
        <4>1. ASSUME NEW q \in Runtimes, NEW j \in DOMAIN entries'[q],
                     entries'[q][j].module # NoModule
              PROVE  entries'[q][j].provider = EntryPoint[entries'[q][j].module]
          <5>1. CASE q = r
            BY <4>1, <5>1, <2>1, <2>2, <2>3
          <5>2. CASE q # r
            BY <4>1, <5>2, <2>1 DEF ModulesInv, EntryOfModule
          <5>3. QED
            BY <5>1, <5>2
        <4>2. QED
          BY <4>1
      <3>2. QED
        BY <3>1 DEF EntryOfModule
    <2>6. ASSUME NEW m \in Modules
          PROVE  refs'[m] = refs[m] + Count(Loads(t, m)') - Count(Loads(t, m))
                                    + Count(Keeps(r, m)') - Count(Keeps(r, m))
      <3>1. ~Loads(t, m) /\ ~Loads(t, m)'
        BY <2>1 DEF Loads, LoadingLabels
      <3>2. Keeps(r, m) <=> \E i \in DOMAIN s : s[i].module = m
        BY DEF Keeps, s
      <3>3. Keeps(r, m)' <=> \E j \in DOMAIN w : w[j].module = m
        BY <2>1 DEF Keeps
      <3>4. s[c].module = m => Keeps(r, m) /\ ~Keeps(r, m)'
        <4>1. ASSUME s[c].module = m, NEW i \in DOMAIN s, i # c, s[i].module = m
              PROVE  FALSE
          <5>1. s[i].provider = s[c].provider
            BY <4>1, <2>1, <2>3, <1>d
          <5>2. QED
            BY <4>1, <5>1, <2>1, <2>3
        <4>2. QED
          BY <4>1, <3>2, <3>3, <2>1, <2>2
      <3>5. s[c].module # m => (Keeps(r, m)' <=> Keeps(r, m))
        BY <3>2, <3>3, <2>1, <2>2
      <3>6. QED
        BY <3>1, <3>4, <3>5, <2>4, <1>a DEF Count
    <2>7. QED
      BY <1>5, <2>1, <2>5, <2>6, <1>a, <1>c, EntriesBalance DEF Acts, Step
  <1>6. CASE UNCHANGED vars
    BY <1>6
    DEF vars, locals, ModulesInv, ModuleReferences, EntryOfModule, FinitelyHeld, Loading,
        Keeping, Origin
  <1>7. QED
    BY <1>1, <1>2, <1>3, <1>4, <1>5, <1>6 DEF Next, Step

(* Every reference to a module is held by an entry or by a load under way. *)
LEMMA ModulesHold == Spec => []ModulesInv
  <1>1. Init => ModulesInv
    <2>1. ASSUME Init, NEW m \in Modules PROVE Loading(m) = {} /\ Keeping(m) = {} /\ refs[m] = 0
      BY <2>1 DEF Init, Loading, Keeping, LoadingLabels
    <2>2. Init => EntryOfModule
      BY DEF Init, EntryOfModule
    <2>3. QED
      BY <2>1, <2>2, FS_EmptySet DEF ModulesInv, ModuleReferences, FinitelyHeld
  <1>2. IInv /\ NamesInv /\ ModulesInv /\ [Next]_vars => ModulesInv'
    BY ModulesStep
  <1>3. QED
    BY <1>1, <1>2, InvariantHolds, NamesHold, PTL DEF Spec

(* Every successful dlopen is undone by exactly one dlclose: by the catch  *)
(* in load or by the entry's destructor (provider_registry.cpp:92-100 and  *)
(* load's catch), however loads of one module race in several runtimes.    *)
THEOREM ModulesAreBalanced == Spec => []ModuleReferences
  <1>1. ModulesInv => ModuleReferences
    BY DEF ModulesInv
  <1>2. QED
    BY <1>1, ModulesHold, PTL

(* A module that a thread is inside, as a load, a callback or a destroy,   *)
(* is one that Loading or Keeping counts, so it is still loaded.           *)
THEOREM CodeIsMapped == Spec => []CodeStaysMapped
  <1>1. ASSUME IInv, ModulesInv PROVE CodeStaysMapped
    <2>a. TypeOK /\ CallOfLabel /\ CursorInRange
      BY <1>1 DEF IInv, LockDiscipline
    <2>1. ASSUME NEW t \in Threads, InUse(t) # NoModule PROVE refs[InUse(t)] > 0
      <3> DEFINE m == InUse(t)
      <3>1. InContext(t)
        BY <2>a, CallContext
      <3>2. /\ m \in Modules
            /\ t \in Loading(m) \/ Keeping(m) # {}
        <4>1. CASE pc[t] \in LoadingLabels
          BY <4>1, <3>1, <2>1
          DEF InUse, Loading, LoadingLabels, InContext, LoadLabels, RegisterLabels
        <4>2. CASE pc[t] \in CallbackLabels
          <5>1. /\ m = Current(t).module /\ Rt(t) \in Runtimes
                /\ cursor[t] \in DOMAIN entries[Rt(t)] /\ m \in Modules \cup {NoModule}
            BY <4>2, <3>1, <2>a
            DEF InUse, CallbackLabels, LoadingLabels, InContext, CursorInRange, EntryLabels, At
          <5>2. Rt(t) \in Keeping(m)
            BY <5>1 DEF Keeping, Current
          <5>3. QED
            BY <5>1, <5>2, <2>1
        <4>3. QED
          BY <2>1, <4>1, <4>2 DEF InUse
      <3> HIDE DEF m
      <3>3. /\ IsFiniteSet(Loading(m)) /\ IsFiniteSet(Keeping(m))
            /\ refs[m] = Cardinality(Loading(m)) + Cardinality(Keeping(m))
        BY <1>1, <3>2 DEF ModulesInv, FinitelyHeld, ModuleReferences
      <3>4. /\ Cardinality(Loading(m)) \in Nat /\ Cardinality(Keeping(m)) \in Nat
            /\ Cardinality(Loading(m)) # 0 \/ Cardinality(Keeping(m)) # 0
        BY <3>2, <3>3, FS_CardinalityType, FS_EmptySet
      <3>5. refs[m] > 0
        BY <3>3, <3>4
      <3>6. QED
        BY <3>5 DEF m
    <2>2. QED
      BY <2>1 DEF CodeStaysMapped
  <1>2. QED
    BY <1>1, InvariantHolds, ModulesHold, PTL

-----------------------------------------------------------------------------
(* Contexts *)

(* The destroy callback of entry i of runtime r has returned; runtime r    *)
(* owes descriptor d's context its destroy callback.                       *)
Closing(r, i) == \E t \in Threads : At(t, "close") /\ Rt(t) = r /\ cursor[t] = i
OwesIn(r, d)  == \E i \in DOMAIN entries[r] : entries[r][i].provider = d /\ ~Closing(r, i)

(* The inductive invariant for contexts, beside IInv and NamesInv *)
ContextsInv == ContextLifecycle /\ \A d \in Descriptors : IsFiniteSet(Owing(d))

(* A step changes what the other runtimes owe only through their entries   *)
(* or the thread that closes one.                                          *)
LEMMA OwedElsewhere ==
  ASSUME NEW t \in Threads, \A u \in Threads \ {t} : LocalsKept(u),
         NEW q, NEW d, entries'[q] = entries[q],
         ~(pc[t] = "close" /\ Rt(t) = q), ~(pc'[t] = "close" /\ Rt(t)' = q)
  PROVE  OwesIn(q, d)' <=> OwesIn(q, d)
  <1>1. \A i : Closing(q, i)' <=> Closing(q, i)
    BY DEF Closing, LocalsKept, Rt, At
  <1>2. QED
    BY <1>1 DEF OwesIn

(* A step of one runtime keeps the books if it counts the callback owed.   *)
LEMMA ContextsBalance ==
  ASSUME ContextsInv, TypeOK, NEW r \in Runtimes,
         \A d \in Descriptors : \A q \in Runtimes \ {r} : OwesIn(q, d)' <=> OwesIn(q, d),
         \A d \in Descriptors :
           adopted'[d] - destroyed'[d] - Count(OwesIn(r, d)')
             = adopted[d] - destroyed[d] - Count(OwesIn(r, d)),
         adopted' \in [Descriptors -> Nat], destroyed' \in [Descriptors -> Nat]
  PROVE  ContextsInv'
  <1>1. ASSUME NEW d \in Descriptors
        PROVE  IsFiniteSet(Owing(d)') /\ adopted'[d] = destroyed'[d] + Cardinality(Owing(d)')
    <2>1. IsFiniteSet(Owing(d)) /\ adopted[d] = destroyed[d] + Cardinality(Owing(d))
      BY DEF ContextsInv, ContextLifecycle
    <2>2. /\ Owing(d) = {q \in Runtimes : OwesIn(q, d)}
          /\ Owing(d)' = {q \in Runtimes : OwesIn(q, d)'}
      BY DEF Owing, OwesIn, Closing
    <2> HIDE DEF Owing, OwesIn
    <2>3. Owing(d) \ {r} = Owing(d)' \ {r}
      BY <2>2
    <2>4. /\ IsFiniteSet(Owing(d)')
          /\ Cardinality(Owing(d)) \in Nat /\ Cardinality(Owing(d)') \in Nat
          /\ Cardinality(Owing(d)') - Count(r \in Owing(d)')
               = Cardinality(Owing(d)) - Count(r \in Owing(d))
      BY <2>1, <2>3, SizeMoves
    <2>5. /\ Count(r \in Owing(d)) = Count(OwesIn(r, d))
          /\ Count(r \in Owing(d)') = Count(OwesIn(r, d)')
      BY <2>2 DEF Count
    <2>6. Count(OwesIn(r, d)) \in Int /\ Count(OwesIn(r, d)') \in Int
      BY DEF Count
    <2>7. /\ adopted[d] \in Int /\ destroyed[d] \in Int
          /\ adopted'[d] \in Int /\ destroyed'[d] \in Int
          /\ adopted'[d] - destroyed'[d] - Count(OwesIn(r, d)')
               = adopted[d] - destroyed[d] - Count(OwesIn(r, d))
      BY DEF TypeOK
    <2> DEFINE n == Cardinality(Owing(d))    n1 == Cardinality(Owing(d)')
               b == Count(OwesIn(r, d))      b1 == Count(OwesIn(r, d)')
    <2>8. /\ n \in Int /\ n1 \in Int /\ b \in Int /\ b1 \in Int
          /\ n1 - b1 = n - b
      BY <2>4, <2>5, <2>6
    <2>9. adopted'[d] - destroyed'[d] - b1 = adopted[d] - destroyed[d] - b
      BY <2>7, Zenon
    <2>10. adopted[d] = destroyed[d] + n
      BY <2>1
    <2> HIDE DEF n, n1, b, b1
    <2>11. adopted'[d] = destroyed'[d] + n1
      BY <2>7, <2>8, <2>9, <2>10
    <2>12. QED
      BY <2>4, <2>11 DEF n1
  <1>2. QED
    BY <1>1 DEF ContextsInv, ContextLifecycle

(* Every step keeps the books: an insertion is owed one callback, because  *)
(* no other entry has its name, and a callback that returned is not owed.  *)
LEMMA ContextsStep ==
  ASSUME IInv, NamesInv, ContextsInv, [Next]_vars PROVE ContextsInv'
  <1>a. /\ TypeOK /\ CallOfLabel /\ CursorInRange /\ DestroyerIsAlone
        /\ pc \in [Threads -> Labels] /\ call \in [Threads -> Calls]
        /\ entries \in [Runtimes -> Seq(Entry)]
        /\ adopted \in [Descriptors -> Nat] /\ destroyed \in [Descriptors -> Nat]
    BY DEF IInv, LockDiscipline, TypeOK
  <1>b. \A t \in Threads : InContext(t)
    BY <1>a, CallContext
  <1>c. \A t \in Threads : Acts(t) => \A u \in Threads \ {t} : LocalsKept(u)
    BY <1>a, LocalsAreOwn
  <1>d. /\ TypeOK'
        /\ adopted' \in [Descriptors -> Nat] /\ destroyed' \in [Descriptors -> Nat]
    <2>1. TypeOK'
      BY TypeStep
    <2>2. QED
      BY <2>1 DEF TypeOK
  <1>e. ASSUME NEW t \in Threads, ~At(t, "idle"), ~At(t, "close"), NEW i
        PROVE  ~Closing(Rt(t), i)
    BY <1>a, <1>e DEF Closing, DestroyerIsAlone, CallOfLabel, DestroyLabels, At
  <1>1. ASSUME NEW t \in Threads, Acts(t), ~CloseEntryModule(t), ~DestroyReturns(t),
               entries' = entries, adopted' = adopted
        PROVE  ContextsInv'
    <2>1. destroyed' = destroyed /\ pc[t] # "close" /\ pc'[t] # "close"
      <3>1. CASE CallRegister(t) \/ CallLoad(t) \/ CallAnalyze(t) \/ CallDestroy(t)
        BY <3>1, <1>a
        DEF CallRegister, CallLoad, CallAnalyze, CallDestroy, Begin, Goto, At, history
      <3>2. CASE OpenModule(t) \/ ResolveEntry(t) \/ ValidateDescriptor(t) \/ LockExclusive(t)
                 \/ FindDuplicate(t) \/ InsertEntry(t) \/ RejectRegistration(t)
        BY <3>2, <1>a
        DEF OpenModule, ResolveEntry, ValidateDescriptor, LockExclusive, FindDuplicate,
            InsertEntry, RejectRegistration, Finish, Goto, At, history
      <3>3. CASE NextRegion(t) \/ LockShared(t) \/ NextEntry(t) \/ LockCall(t)
                 \/ SupportsReturns(t) \/ AnalyzeReturns(t) \/ BuiltInReturns(t)
        BY <3>3, <1>a
        DEF NextRegion, LockShared, NextEntry, LockCall, SupportsReturns, AnalyzeReturns,
            BuiltInReturns, Finish, Goto, At, history
      <3>4. CASE DestroyNextEntry(t) \/ Return(t)
        BY <3>4, <1>a DEF DestroyNextEntry, Return, Finish, Goto, At, history
      <3>5. QED
        BY <1>1, <3>1, <3>2, <3>3, <3>4 DEF Acts, Step
    <2>2. \A q \in Runtimes, d \in Descriptors : OwesIn(q, d)' <=> OwesIn(q, d)
      BY <1>1, <1>c, <2>1, OwedElsewhere
    <2>3. \A d \in Descriptors : Owing(d)' = Owing(d)
      <3>1. \A d : /\ Owing(d) = {q \in Runtimes : OwesIn(q, d)}
                   /\ Owing(d)' = {q \in Runtimes : OwesIn(q, d)'}
        BY DEF Owing, OwesIn, Closing
      <3> HIDE DEF Owing, OwesIn
      <3>2. QED
        BY <2>2, <3>1
    <2>4. QED
      BY <1>1, <2>1, <2>3 DEF ContextsInv, ContextLifecycle
  <1>2. ASSUME NEW t \in Threads, InsertEntry(t), ~(entries' = entries /\ adopted' = adopted)
        PROVE  ContextsInv'
    <2>0. PICK r \in Runtimes : r = Rt(t)
      BY <1>2, <1>b DEF InsertEntry, InContext, At
    <2> DEFINE e == [provider |-> Candidate(t), module |-> Origin(t)]
               x == Candidate(t)
    <2>1. /\ pc[t] = "insert" /\ pc'[t] = "done" /\ call' = call
          /\ destroyed' = destroyed /\ adopted' = [adopted EXCEPT ![x] = @ + 1]
          /\ entries' = [entries EXCEPT ![r] = Append(@, e)]
          /\ e.provider = x /\ x \in Descriptors
          /\ ~NameTaken(r, x)
      BY <1>2, <2>0, <1>a, <1>b
      DEF InsertEntry, Finish, Goto, At, NamesInv, CheckedName, InContext, LoadLabels,
          RegisterLabels
    <2>2. /\ \A q \in Runtimes \ {r} : entries'[q] = entries[q]
          /\ \A d : (\E i \in DOMAIN entries'[r] : entries'[r][i].provider = d) <=>
                     \/ \E i \in DOMAIN entries[r] : entries[r][i].provider = d
                     \/ d = x
      <3>1. entries[r] \in Seq(Entry) /\ entries'[r] = Append(entries[r], e)
        BY <2>1, <1>a
      <3> HIDE DEF e, x
      <3>2. /\ Len(entries[r]) \in Nat /\ DOMAIN entries[r] = 1..Len(entries[r])
            /\ DOMAIN entries'[r] = 1..(Len(entries[r]) + 1)
            /\ \A i \in 1..Len(entries[r]) : entries'[r][i] = entries[r][i]
            /\ entries'[r][Len(entries[r]) + 1] = e
        BY <3>1
      <3>3. \A i \in 1..(Len(entries[r]) + 1) : i \in 1..Len(entries[r]) \/ i = Len(entries[r]) + 1
        BY <3>2
      <3>4. /\ Len(entries[r]) + 1 \in 1..(Len(entries[r]) + 1)
            /\ 1..Len(entries[r]) \subseteq 1..(Len(entries[r]) + 1)
        BY <3>2
      <3>5. \A q \in Runtimes \ {r} : entries'[q] = entries[q]
        BY <2>1, <1>a
      <3>6. QED
        BY <3>2, <3>3, <3>4, <3>5, <2>1
    <2>3. \A u \in Threads \ {t} : LocalsKept(u)
      BY <1>2, <1>c DEF Acts, Step
    <2>4. \A i : ~Closing(r, i) /\ ~Closing(r, i)'
      <3>1. \A i : ~Closing(r, i)
        BY <2>0, <2>1, <1>e DEF At
      <3>2. \A u \in Threads : ~(pc'[u] = "close" /\ call'[u].runtime = r)
        BY <2>1, <2>3, <3>1 DEF Closing, LocalsKept, At, Rt
      <3>3. QED
        BY <3>1, <3>2 DEF Closing, At, Rt
    <2> HIDE DEF e, x
    <2>5. \A d : /\ OwesIn(r, d) <=> \E i \in DOMAIN entries[r] : entries[r][i].provider = d
                 /\ OwesIn(r, d)' <=> \E i \in DOMAIN entries'[r] : entries'[r][i].provider = d
      BY <2>4 DEF OwesIn
    <2>6. ~OwesIn(r, x)
      BY <2>1, <2>5 DEF NameTaken
    <2>7. \A d \in Descriptors : \A q \in Runtimes \ {r} : OwesIn(q, d)' <=> OwesIn(q, d)
      BY <2>1, <2>2, <2>3, OwedElsewhere
    <2>8. ASSUME NEW d \in Descriptors
          PROVE  adopted'[d] - destroyed'[d] - Count(OwesIn(r, d)')
                   = adopted[d] - destroyed[d] - Count(OwesIn(r, d))
      <3>1. OwesIn(r, d)' <=> OwesIn(r, d) \/ d = x
        BY <2>2, <2>5
      <3>2. CASE d = x
        BY <3>1, <3>2, <2>1, <2>6, <1>a DEF Count
      <3>3. CASE d # x
        BY <3>1, <3>3, <2>1, <1>a DEF Count
      <3>4. QED
        BY <3>2, <3>3
    <2>9. QED
      BY <2>7, <2>8, <1>a, <1>d, ContextsBalance
  <1>3. ASSUME NEW t \in Threads, DestroyReturns(t) PROVE ContextsInv'
    <2>0. PICK r \in Runtimes, x \in Descriptors : r = Rt(t) /\ x = Current(t).provider
      BY <1>3, <1>b DEF DestroyReturns, InContext, At
    <2> DEFINE s == entries[r]
               c == cursor[t]
    <2>1. /\ pc[t] = "destroy" /\ pc'[t] = "close" /\ call' = call /\ cursor' = cursor
          /\ adopted' = adopted /\ destroyed' = [destroyed EXCEPT ![x] = @ + 1]
          /\ entries' = entries /\ c \in DOMAIN s /\ x = s[c].provider
      BY <1>3, <2>0, <1>a DEF DestroyReturns, Goto, At, CursorInRange, Current
    <2>2. \A u \in Threads \ {t} : LocalsKept(u)
      BY <1>3, <1>c DEF Acts, Step
    <2>3. (\A i : ~Closing(r, i)) /\ (\A i : Closing(r, i)' <=> i = c)
      <3>1. \A i : ~Closing(r, i)
        BY <2>0, <2>1, <1>e DEF At
      <3>2. \A u \in Threads \ {t} : ~(pc'[u] = "close" /\ call'[u].runtime = r)
        BY <2>2, <3>1 DEF Closing, LocalsKept, At, Rt
      <3>3. call'[t].runtime = r
        BY <2>0, <2>1 DEF Rt
      <3>4. QED
        BY <2>1, <3>1, <3>2, <3>3 DEF Closing, At, Rt
    <2>4. \A i, j \in DOMAIN s : NameOf[s[i].provider] = NameOf[s[j].provider] => i = j
      BY DEF NamesInv, UniqueNames
    <2>5. \A d : /\ OwesIn(r, d) <=> \E i \in DOMAIN s : s[i].provider = d
                 /\ OwesIn(r, d)' <=> \E i \in DOMAIN s : s[i].provider = d /\ i # c
      BY <2>1, <2>3 DEF OwesIn
    <2> HIDE DEF s, c
    <2>6. OwesIn(r, x) /\ ~OwesIn(r, x)'
      BY <2>1, <2>4, <2>5
    <2>7. \A d \in Descriptors : \A q \in Runtimes \ {r} : OwesIn(q, d)' <=> OwesIn(q, d)
      BY <2>0, <2>1, <2>2, OwedElsewhere DEF Rt
    <2>8. ASSUME NEW d \in Descriptors
          PROVE  adopted'[d] - destroyed'[d] - Count(OwesIn(r, d)')
                   = adopted[d] - destroyed[d] - Count(OwesIn(r, d))
      <3>1. CASE d = x
        <4>1. OwesIn(r, d) /\ ~OwesIn(r, d)'
          BY <3>1, <2>5, <2>6
        <4>2. QED
          BY <3>1, <4>1, <2>1, <1>a DEF Count
      <3>2. CASE d # x
        <4>1. OwesIn(r, d)' <=> OwesIn(r, d)
          BY <3>2, <2>1, <2>5
        <4>2. QED
          BY <3>2, <4>1, <2>1, <1>a DEF Count
      <3>3. QED
        BY <3>1, <3>2
    <2>9. QED
      BY <2>7, <2>8, <1>a, <1>d, ContextsBalance
  <1>4. ASSUME NEW t \in Threads, CloseEntryModule(t) PROVE ContextsInv'
    <2>0. PICK r \in Runtimes : r = Rt(t)
      BY <1>4, <1>b DEF CloseEntryModule, InContext, At
    <2> DEFINE s == entries[r]
               c == cursor[t]
               w == WithoutEntry(s, c)
    <2>1. /\ pc[t] = "close" /\ pc'[t] = "teardown" /\ call' = call /\ cursor' = cursor
          /\ adopted' = adopted /\ destroyed' = destroyed
          /\ s \in Seq(Entry) /\ c \in DOMAIN s
          /\ entries'[r] = w /\ \A q \in Runtimes \ {r} : entries'[q] = entries[q]
      BY <1>4, <2>0, <1>a DEF CloseEntryModule, Goto, At, CursorInRange, history
    <2>2. /\ \A j \in DOMAIN w : \E i \in DOMAIN s : i # c /\ w[j] = s[i]
          /\ \A i \in DOMAIN s : i # c => \E j \in DOMAIN w : w[j] = s[i]
      BY <2>1, WithoutEntryKeeps
    <2>3. \A u \in Threads \ {t} : LocalsKept(u)
      BY <1>4, <1>c DEF Acts, Step
    <2>4. (\A i : Closing(r, i) <=> i = c) /\ (\A i : ~Closing(r, i)')
      <3>1. \A u \in Threads \ {t} : ~(pc[u] = "close" /\ call[u].runtime = r)
        BY <2>0, <2>1, <1>a DEF DestroyerIsAlone, CallOfLabel, DestroyLabels, At, Rt
      <3>2. \A u \in Threads \ {t} : ~(pc'[u] = "close" /\ call'[u].runtime = r)
        BY <2>3, <3>1 DEF LocalsKept
      <3>3. QED
        BY <2>0, <2>1, <3>1, <3>2 DEF Closing, At, Rt
    <2> HIDE DEF w
    <2>5. \A d : /\ OwesIn(r, d) <=> \E i \in DOMAIN s : s[i].provider = d /\ i # c
                 /\ OwesIn(r, d)' <=> \E j \in DOMAIN w : w[j].provider = d
      BY <2>1, <2>4 DEF OwesIn
    <2> HIDE DEF s, c
    <2>6. \A d : OwesIn(r, d)' <=> OwesIn(r, d)
      BY <2>2, <2>5
    <2>7. \A d \in Descriptors : \A q \in Runtimes \ {r} : OwesIn(q, d)' <=> OwesIn(q, d)
      BY <2>0, <2>1, <2>3, OwedElsewhere DEF Rt
    <2>8. ASSUME NEW d \in Descriptors
          PROVE  adopted'[d] - destroyed'[d] - Count(OwesIn(r, d)')
                   = adopted[d] - destroyed[d] - Count(OwesIn(r, d))
      BY <2>1, <2>6 DEF Count
    <2>9. QED
      BY <2>7, <2>8, <1>a, <1>d, ContextsBalance
  <1>5. CASE UNCHANGED vars
    BY <1>5 DEF vars, locals, history, ContextsInv, ContextLifecycle, Owing, At, Rt
  <1>6. ASSUME NEW t \in Threads, Acts(t), ~InsertEntry(t), ~CloseEntryModule(t)
        PROVE  entries' = entries /\ adopted' = adopted
    <2>1. CASE CallRegister(t) \/ CallLoad(t) \/ CallAnalyze(t) \/ CallDestroy(t)
      BY <2>1 DEF CallRegister, CallLoad, CallAnalyze, CallDestroy, history
    <2>2. CASE OpenModule(t) \/ ResolveEntry(t) \/ ValidateDescriptor(t) \/ LockExclusive(t)
               \/ FindDuplicate(t) \/ RejectRegistration(t)
      BY <2>2
      DEF OpenModule, ResolveEntry, ValidateDescriptor, LockExclusive, FindDuplicate,
          RejectRegistration, history
    <2>3. CASE NextRegion(t) \/ LockShared(t) \/ NextEntry(t) \/ LockCall(t)
               \/ SupportsReturns(t) \/ AnalyzeReturns(t) \/ BuiltInReturns(t)
      BY <2>3
      DEF NextRegion, LockShared, NextEntry, LockCall, SupportsReturns, AnalyzeReturns,
          BuiltInReturns, history
    <2>4. CASE DestroyNextEntry(t) \/ DestroyReturns(t) \/ Return(t)
      BY <2>4 DEF DestroyNextEntry, DestroyReturns, Return, history
    <2>5. QED
      BY <1>6, <2>1, <2>2, <2>3, <2>4 DEF Acts, Step
  <1>7. QED
    BY <1>1, <1>2, <1>3, <1>4, <1>5, <1>6 DEF Next, Step, Acts

(* A context handed over is destroyed exactly once, with its runtime, and  *)
(* one whose registration was rejected never is (provider_registry.cpp's   *)
(* Entry::activate and ~Entry).                                            *)
THEOREM ContextsAreReturned == Spec => []ContextLifecycle
  <1>1. Init => ContextsInv
    <2>1. ASSUME Init, NEW d \in Descriptors
          PROVE  Owing(d) = {} /\ adopted[d] = 0 /\ destroyed[d] = 0
      BY <2>1 DEF Init, Owing
    <2>2. QED
      BY <2>1, FS_EmptySet DEF ContextsInv, ContextLifecycle
  <1>2. IInv /\ NamesInv /\ ContextsInv /\ [Next]_vars => ContextsInv'
    BY ContextsStep
  <1>3. ContextsInv => ContextLifecycle
    BY DEF ContextsInv
  <1>4. QED
    BY <1>1, <1>2, <1>3, InvariantHolds, NamesHold, PTL DEF Spec
=============================================================================
