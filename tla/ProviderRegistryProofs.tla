----------------------- MODULE ProviderRegistryProofs -----------------------
(* Safety of the provider registry for any number of threads, runtimes,     *)
(* providers, modules and calls.                                            *)
EXTENDS ProviderRegistry, SequenceTheorems, TLAPS

(* What a call in progress looks like, by its operation *)
LEMMA CallShape ==
  ASSUME NEW c \in Calls
  PROVE  \/ c = NoCall /\ c.op = "none"
         \/ c.op = "register" /\ c.runtime \in Runtimes /\ c.provider \in Static
         \/ c.op = "load" /\ c.runtime \in Runtimes /\ c.module \in Modules \cup {NoModule}
         \/ c.op = "analyze" /\ c.runtime \in Runtimes /\ c.plan \in Plans
         \/ c.op = "destroy" /\ c.runtime \in Runtimes
  BY DEF Calls, NoCall, Service!RegisterCall, Service!LoadCall, Service!AnalyzeCall,
         Service!DestroyCall

(* The calls a host starts, and what they are not *)
LEMMA NewCalls ==
  ASSUME NEW r \in Runtimes
  PROVE  /\ \A d \in Static : /\ Service!RegisterCall(r, d) \in Calls
                              /\ Service!RegisterCall(r, d) # NoCall
                              /\ Service!RegisterCall(r, d).op = "register"
                              /\ Service!RegisterCall(r, d).runtime = r
                              /\ Service!RegisterCall(r, d).provider = d
         /\ \A m \in Modules \cup {NoModule} :
              /\ Service!LoadCall(r, m) \in Calls
              /\ Service!LoadCall(r, m) # NoCall
              /\ Service!LoadCall(r, m).op = "load"
              /\ Service!LoadCall(r, m).runtime = r
              /\ Service!LoadCall(r, m).module = m
         /\ \A p \in Plans : /\ Service!AnalyzeCall(r, p) \in Calls
                             /\ Service!AnalyzeCall(r, p) # NoCall
                             /\ Service!AnalyzeCall(r, p).op = "analyze"
                             /\ Service!AnalyzeCall(r, p).runtime = r
                             /\ Service!AnalyzeCall(r, p).plan = p
         /\ /\ Service!DestroyCall(r) \in Calls
            /\ Service!DestroyCall(r) # NoCall
            /\ Service!DestroyCall(r).op = "destroy"
            /\ Service!DestroyCall(r).runtime = r
  BY DEF Calls, NoCall, Service!RegisterCall, Service!LoadCall, Service!AnalyzeCall,
         Service!DestroyCall

(* An idle thread's call is a call too. *)
LEMMA NoCallTyped == NoCall \in Calls /\ NoCall.op = "none"
  BY DEF Calls, NoCall

-----------------------------------------------------------------------------
(* The inductive invariant: the labels, locks and cursors fit together *)
IInv == TypeOK /\ LockDiscipline

(* A thread inside a call has a runtime, one looking at an entry has one,  *)
(* and one registering a provider has its descriptor and module.           *)
InContext(t) ==
  /\ ~At(t, "idle") => Rt(t) \in Runtimes
  /\ pc[t] \in EntryLabels \cup {"destroy", "close"} =>
       /\ Current(t).provider \in Descriptors
       /\ Current(t).module \in Modules \cup {NoModule}
  /\ pc[t] \in LoadLabels \ {"open"} =>
       Candidate(t) \in Descriptors /\ Origin(t) \in Modules \cup {NoModule}

(* Typed labels and calls put every thread in context. *)
LEMMA CallContext ==
  ASSUME TypeOK, CallOfLabel, CursorInRange, NEW t \in Threads
  PROVE  InContext(t)
  <1>1. call[t] \in Calls
    BY DEF TypeOK
  <1>2. ~At(t, "idle") => Rt(t) \in Runtimes
    BY <1>1, CallShape DEF CallOfLabel, Rt
  <1>3. pc[t] \in EntryLabels \cup {"destroy", "close"} => Current(t) \in Entry
    BY <1>2 DEF TypeOK, CursorInRange, Current, At, EntryLabels
  <1>4. Current(t) \in Entry =>
          /\ Current(t).provider \in Descriptors
          /\ Current(t).module \in Modules \cup {NoModule}
    BY DEF Entry
  <1>5. pc[t] \in LoadLabels \ {"open"} =>
          Candidate(t) \in Descriptors /\ Origin(t) \in Modules \cup {NoModule}
    BY <1>1, CallShape, RegistryAssumption
    DEF CallOfLabel, Candidate, Origin, LoadLabels, At
  <1>6. QED
    BY <1>2, <1>3, <1>4, <1>5 DEF InContext

(* Dropping an entry leaves a sequence of entries. *)
LEMMA WithoutEntryTyped ==
  ASSUME NEW S, NEW s \in Seq(S), NEW i \in DOMAIN s
  PROVE  WithoutEntry(s, i) \in Seq(S)
  BY DEF WithoutEntry

(* Every action keeps the shape of every variable. *)
LEMMA TypeStep ==
  ASSUME IInv, [Next]_vars PROVE TypeOK'
  <1>a. TypeOK /\ CallOfLabel /\ CursorInRange
    BY DEF IInv, LockDiscipline
  <1>b. \A t \in Threads : InContext(t)
    BY <1>a, CallContext
  <1>1. ASSUME NEW t \in Threads, CallRegister(t) PROVE TypeOK'
    BY <1>1, <1>a, NewCalls, RegistryAssumption
    DEF CallRegister, Begin, Goto, At, TypeOK, locals, locks, history, Labels
  <1>2. ASSUME NEW t \in Threads, CallLoad(t) PROVE TypeOK'
    BY <1>2, <1>a, NewCalls, RegistryAssumption
    DEF CallLoad, Begin, Goto, At, TypeOK, locals, locks, history, Labels
  <1>3. ASSUME NEW t \in Threads, CallAnalyze(t) PROVE TypeOK'
    BY <1>3, <1>a, NewCalls, RegistryAssumption
    DEF CallAnalyze, Begin, Goto, At, TypeOK, locals, locks, history, Labels
  <1>4. ASSUME NEW t \in Threads, CallDestroy(t) PROVE TypeOK'
    BY <1>4, <1>a, NewCalls, RegistryAssumption
    DEF CallDestroy, Begin, Goto, At, TypeOK, locals, locks, history, Labels
  <1>5. ASSUME NEW t \in Threads, OpenModule(t) PROVE TypeOK'
    <2>1. pc' \in [Threads -> Labels]
      BY <1>5, <1>a DEF OpenModule, Finish, Goto, At, TypeOK, Labels
    <2>2. status' \in [Threads -> {Pending, "OK"} \cup Service!Failures]
      BY <1>5, <1>a DEF OpenModule, Finish, Goto, At, TypeOK, Service!Failures
    <2>3. refs' \in [Modules -> Int]
      BY <1>5, <1>a
      DEF OpenModule, Finish, Goto, At, TypeOK, InContext, LoadLabels,
          RegisterLabels
    <2>4. QED
      BY <1>5, <1>a, <2>1, <2>2, <2>3
      DEF OpenModule, TypeOK, locals, locks, history
  <1>6. ASSUME NEW t \in Threads, ResolveEntry(t) PROVE TypeOK'
    <2>1. pc' \in [Threads -> Labels]
      BY <1>6, <1>a DEF ResolveEntry, Finish, Goto, At, TypeOK, Labels
    <2>2. status' \in [Threads -> {Pending, "OK"} \cup Service!Failures]
      BY <1>6, <1>a DEF ResolveEntry, Finish, Goto, At, TypeOK, Service!Failures
    <2>3. refs' \in [Modules -> Int]
      BY <1>6, <1>a
      DEF ResolveEntry, Finish, Goto, At, TypeOK, InContext, LoadLabels,
          RegisterLabels
    <2>4. QED
      BY <1>6, <1>a, <2>1, <2>2, <2>3
      DEF ResolveEntry, TypeOK, locals, locks, history
  <1>7. ASSUME NEW t \in Threads, ValidateDescriptor(t) PROVE TypeOK'
    BY <1>7, <1>a
    DEF ValidateDescriptor, Goto, At, TypeOK, locals, locks, history, Labels,
        Service!Failures
  <1>8. ASSUME NEW t \in Threads, LockExclusive(t) PROVE TypeOK'
    BY <1>8, <1>a
    DEF LockExclusive, Goto, At, TypeOK, locals, locks, history, Labels
  <1>9. ASSUME NEW t \in Threads, FindDuplicate(t) PROVE TypeOK'
    BY <1>9, <1>a
    DEF FindDuplicate, UnlockExclusive, Goto, At, TypeOK, locals, locks,
        history, Labels, Service!Failures
  <1>10. ASSUME NEW t \in Threads, InsertEntry(t) PROVE TypeOK'
    <2>1. pc' \in [Threads -> Labels]
      BY <1>10, <1>a
      DEF InsertEntry, UnlockExclusive, Finish, Goto, At, TypeOK, Labels
    <2>2. status' \in [Threads -> {Pending, "OK"} \cup Service!Failures]
      BY <1>10, <1>a
      DEF InsertEntry, UnlockExclusive, Finish, Goto, At, TypeOK,
          Service!Failures
    <2>3. entries' \in [Runtimes -> Seq(Entry)]
      <3>1. entries' = entries \/ entries' = [entries EXCEPT ![Rt(t)] = Append(@, [provider |-> Candidate(t), module |-> Origin(t)])]
        BY <1>10 DEF InsertEntry
      <3>2. entries \in [Runtimes -> Seq(Entry)]
        BY <1>a DEF TypeOK
      <3>3. [provider |-> Candidate(t), module |-> Origin(t)] \in Entry
        BY <1>10, <1>b
        DEF InsertEntry, InContext, At, LoadLabels, RegisterLabels, Entry
      <3>4. Rt(t) \in Runtimes
        BY <1>10, <1>b DEF InsertEntry, InContext, At
      <3>5. Append(entries[Rt(t)], [provider |-> Candidate(t), module |-> Origin(t)]) \in Seq(Entry)
        BY <3>2, <3>3, <3>4
      <3>6. QED
        BY <3>1, <3>2, <3>3, <3>4, <3>5
    <2>4. writer' \in [Runtimes -> Threads \cup {NoThread}]
      BY <1>10, <1>a, <1>b
      DEF InsertEntry, UnlockExclusive, Finish, Goto, At, TypeOK, InContext,
          LoadLabels, RegisterLabels
    <2>5. adopted' \in [Descriptors -> Nat]
      <3>1. adopted' = adopted \/ adopted' = [adopted EXCEPT ![Candidate(t)] = @ + 1]
        BY <1>10 DEF InsertEntry
      <3>2. adopted \in [Descriptors -> Nat]
        BY <1>a DEF TypeOK
      <3>3. QED
        BY <3>1, <3>2
    <2>6. QED
      BY <1>10, <1>a, <2>1, <2>2, <2>3, <2>4, <2>5
      DEF InsertEntry, TypeOK, locals, locks, history
  <1>11. ASSUME NEW t \in Threads, RejectRegistration(t) PROVE TypeOK'
    BY <1>11, <1>a, <1>b
    DEF RejectRegistration, Goto, At, TypeOK, locals, locks, history, Labels,
        Service!Failures, LoadLabels, RegisterLabels, InContext
  <1>12. ASSUME NEW t \in Threads, NextRegion(t) PROVE TypeOK'
    BY <1>12, <1>a
    DEF NextRegion, Finish, Goto, At, TypeOK, locals, locks, history, Labels,
        Service!Failures
  <1>13. ASSUME NEW t \in Threads, LockShared(t) PROVE TypeOK'
    BY <1>13, <1>a, <1>b
    DEF LockShared, Goto, At, TypeOK, locals, locks, history, Labels,
        EntryLabels, InContext
  <1>14. ASSUME NEW t \in Threads, NextEntry(t) PROVE TypeOK'
    <2>1. pc' \in [Threads -> Labels]
      BY <1>14, <1>a DEF NextEntry, UnlockShared, Goto, At, TypeOK, Labels
    <2>2. served' \in [Threads -> Seq(Descriptors \cup {BuiltIn})]
      <3>1. served' = served \/ served' = [served EXCEPT ![t] = Append(@, BuiltIn)]
        BY <1>14 DEF NextEntry
      <3>2. served \in [Threads -> Seq(Descriptors \cup {BuiltIn})]
        BY <1>a DEF TypeOK
      <3>3. Append(served[t], BuiltIn) \in Seq(Descriptors \cup {BuiltIn})
        BY <3>2
      <3>4. QED
        BY <3>1, <3>2, <3>3
    <2>3. readers' \in [Runtimes -> SUBSET Threads]
      <3>1. readers' = readers \/ readers' = [readers EXCEPT ![Rt(t)] = @ \ {t}]
        BY <1>14 DEF NextEntry, UnlockShared
      <3>2. readers \in [Runtimes -> SUBSET Threads]
        BY <1>a DEF TypeOK
      <3>3. QED
        BY <3>1, <3>2
    <2>4. QED
      BY <1>14, <1>a, <2>1, <2>2, <2>3
      DEF NextEntry, TypeOK, locals, locks, history
  <1>15. ASSUME NEW t \in Threads, LockCall(t) PROVE TypeOK'
    BY <1>15, <1>a, <1>b
    DEF LockCall, Goto, At, TypeOK, locals, locks, history, Labels, EntryLabels,
        InContext
  <1>16. ASSUME NEW t \in Threads, SupportsReturns(t) PROVE TypeOK'
    <2>1. pc' \in [Threads -> Labels]
      BY <1>16, <1>a
      DEF SupportsReturns, UnlockCall, UnlockShared, Finish, Goto, At, TypeOK,
          Labels
    <2>2. status' \in [Threads -> {Pending, "OK"} \cup Service!Failures]
      BY <1>16, <1>a
      DEF SupportsReturns, UnlockCall, UnlockShared, Finish, Goto, At, TypeOK,
          Service!Failures
    <2>3. cursor' \in [Threads -> Nat]
      BY <1>16, <1>a, <1>b
      DEF SupportsReturns, UnlockCall, UnlockShared, Finish, Goto, At, TypeOK,
          InContext, EntryLabels
    <2>4. readers' \in [Runtimes -> SUBSET Threads]
      BY <1>16, <1>a
      DEF SupportsReturns, UnlockCall, UnlockShared, Finish, Goto, At, TypeOK,
          InContext, EntryLabels
    <2>5. callLock' \in [Runtimes -> [Descriptors -> Threads \cup {NoThread}]]
      <3>1. callLock' = callLock \/ callLock' = [callLock EXCEPT ![Rt(t)][Current(t).provider] = IF @ = t THEN NoThread ELSE @]
        BY <1>16 DEF SupportsReturns, UnlockCall
      <3>2. callLock \in [Runtimes -> [Descriptors -> Threads \cup {NoThread}]]
        BY <1>a DEF TypeOK
      <3>3. Rt(t) \in Runtimes
        BY <1>16, <1>b DEF SupportsReturns, InContext, At
      <3>4. [callLock[Rt(t)] EXCEPT ![Current(t).provider] = IF @ = t THEN NoThread ELSE @] \in [Descriptors -> Threads \cup {NoThread}]
        BY <3>2, <3>3
      <3>5. QED
        BY <3>1, <3>2, <3>3, <3>4
    <2>6. QED
      BY <1>16, <1>a, <2>1, <2>2, <2>3, <2>4, <2>5
      DEF SupportsReturns, TypeOK, locals, locks, history
  <1>17. ASSUME NEW t \in Threads, AnalyzeReturns(t) PROVE TypeOK'
    <2>1. pc' \in [Threads -> Labels]
      BY <1>17, <1>a
      DEF AnalyzeReturns, UnlockCall, UnlockShared, Finish, Goto, At, TypeOK,
          Labels
    <2>2. status' \in [Threads -> {Pending, "OK"} \cup Service!Failures]
      BY <1>17, <1>a
      DEF AnalyzeReturns, UnlockCall, UnlockShared, Finish, Goto, At, TypeOK,
          Service!Failures
    <2>3. served' \in [Threads -> Seq(Descriptors \cup {BuiltIn})]
      <3>1. served' = served \/ served' = [served EXCEPT ![t] = Append(@, Current(t).provider)]
        BY <1>17 DEF AnalyzeReturns
      <3>2. served \in [Threads -> Seq(Descriptors \cup {BuiltIn})]
        BY <1>a DEF TypeOK
      <3>3. Current(t).provider \in Descriptors
        BY <1>17, <1>b DEF AnalyzeReturns, At, InContext, EntryLabels
      <3>4. Append(served[t], Current(t).provider) \in Seq(Descriptors \cup {BuiltIn})
        BY <3>2, <3>3
      <3>5. QED
        BY <3>1, <3>2, <3>3, <3>4
    <2>4. readers' \in [Runtimes -> SUBSET Threads]
      BY <1>17, <1>a
      DEF AnalyzeReturns, UnlockCall, UnlockShared, Finish, Goto, At, TypeOK,
          InContext, EntryLabels
    <2>5. callLock' \in [Runtimes -> [Descriptors -> Threads \cup {NoThread}]]
      BY <1>17, <1>a, <1>b
      DEF AnalyzeReturns, UnlockCall, UnlockShared, Finish, Goto, At, TypeOK,
          InContext, EntryLabels
    <2>6. QED
      BY <1>17, <1>a, <2>1, <2>2, <2>3, <2>4, <2>5
      DEF AnalyzeReturns, TypeOK, locals, locks, history
  <1>18. ASSUME NEW t \in Threads, BuiltInReturns(t) PROVE TypeOK'
    BY <1>18, <1>a
    DEF BuiltInReturns, Finish, Goto, At, TypeOK, locals, locks, history,
        Labels, Service!Failures
  <1>19. ASSUME NEW t \in Threads, DestroyNextEntry(t) PROVE TypeOK'
    <2>1. pc' \in [Threads -> Labels]
      BY <1>19, <1>a DEF DestroyNextEntry, Finish, Goto, At, TypeOK, Labels
    <2>2. status' \in [Threads -> {Pending, "OK"} \cup Service!Failures]
      <3>1. status' = status \/ status' = [status EXCEPT ![t] = "OK"]
        BY <1>19 DEF DestroyNextEntry, Finish
      <3>2. QED
        BY <1>a, <3>1 DEF TypeOK
    <2>3. cursor' \in [Threads -> Nat]
      BY <1>19, <1>a, <1>b
      DEF DestroyNextEntry, Finish, Goto, At, TypeOK, InContext, EntryLabels
    <2>4. QED
      BY <1>19, <1>a, <2>1, <2>2, <2>3
      DEF DestroyNextEntry, TypeOK, locals, locks, history
  <1>20. ASSUME NEW t \in Threads, DestroyReturns(t) PROVE TypeOK'
    BY <1>20, <1>a, <1>b
    DEF DestroyReturns, Goto, At, TypeOK, locals, locks, history, Labels,
        EntryLabels, InContext
  <1>21. ASSUME NEW t \in Threads, CloseEntryModule(t) PROVE TypeOK'
    <2>1. pc' \in [Threads -> Labels]
      BY <1>21, <1>a DEF CloseEntryModule, Goto, At, TypeOK, Labels
    <2>2. refs' \in [Modules -> Int]
      BY <1>21, <1>a, <1>b
      DEF CloseEntryModule, Goto, At, TypeOK, InContext, EntryLabels
    <2>3. entries' \in [Runtimes -> Seq(Entry)]
      <3>1. entries' = entries \/ entries' = [entries EXCEPT ![Rt(t)] = WithoutEntry(@, cursor[t])]
        BY <1>21 DEF CloseEntryModule, Goto
      <3>2. entries \in [Runtimes -> Seq(Entry)]
        BY <1>a DEF TypeOK
      <3>3. cursor[t] \in DOMAIN entries[Rt(t)]
        BY <1>21, <1>a DEF CloseEntryModule, At, CursorInRange, EntryLabels
      <3>4. WithoutEntry(entries[Rt(t)], cursor[t]) \in Seq(Entry)
        BY <3>2, <3>3, <1>b, <1>21, WithoutEntryTyped
        DEF CloseEntryModule, At, InContext
      <3>5. QED
        BY <3>1, <3>2, <3>3, <3>4
    <2>4. QED
      BY <1>21, <1>a, <2>1, <2>2, <2>3
      DEF CloseEntryModule, TypeOK, locals, locks, history
  <1>22. ASSUME NEW t \in Threads, Return(t) PROVE TypeOK'
    BY <1>22, <1>a, NoCallTyped
    DEF Return, Goto, At, TypeOK, locals, locks, history, Labels
  <1>23. CASE UNCHANGED vars
    BY <1>23, <1>a DEF vars, TypeOK, locals, locks, history, Labels
  <1>24. QED
    BY <1>1, <1>2, <1>3, <1>4, <1>5, <1>6, <1>7, <1>8, <1>9, <1>10, <1>11,
       <1>12, <1>13, <1>14, <1>15, <1>16, <1>17, <1>18, <1>19, <1>20, <1>21,
       <1>22, <1>23
    DEF Next, Step

(* A label keeps to calls of its own kind. *)
LEMMA CallOfLabelStep ==
  ASSUME IInv, [Next]_vars PROVE CallOfLabel'
  <1>a. CallOfLabel /\ pc \in [Threads -> Labels] /\ call \in [Threads -> Calls]
        /\ open \subseteq Runtimes
    BY DEF IInv, LockDiscipline, TypeOK
  <1>1. ASSUME NEW t \in Threads, CallRegister(t) PROVE CallOfLabel'
    BY <1>1, <1>a, NewCalls
    DEF CallRegister, Begin, Goto, At, CallOfLabel, LoadLabels, RegisterLabels,
        AnalyzeLabels, ReaderLabels, EntryLabels, DestroyLabels
  <1>2. ASSUME NEW t \in Threads, CallLoad(t) PROVE CallOfLabel'
    BY <1>2, <1>a, NewCalls
    DEF CallLoad, Begin, Goto, At, CallOfLabel, LoadLabels, RegisterLabels,
        AnalyzeLabels, ReaderLabels, EntryLabels, DestroyLabels
  <1>3. ASSUME NEW t \in Threads, CallAnalyze(t) PROVE CallOfLabel'
    BY <1>3, <1>a, NewCalls
    DEF CallAnalyze, Begin, Goto, At, CallOfLabel, LoadLabels, RegisterLabels,
        AnalyzeLabels, ReaderLabels, EntryLabels, DestroyLabels
  <1>4. ASSUME NEW t \in Threads, CallDestroy(t) PROVE CallOfLabel'
    BY <1>4, <1>a, NewCalls
    DEF CallDestroy, Begin, Goto, At, CallOfLabel, LoadLabels, RegisterLabels,
        AnalyzeLabels, ReaderLabels, EntryLabels, DestroyLabels
  <1>5. ASSUME NEW t \in Threads, OpenModule(t) PROVE CallOfLabel'
    BY <1>5, <1>a
    DEF OpenModule, Finish, Goto, At, CallOfLabel, LoadLabels, RegisterLabels,
        AnalyzeLabels, ReaderLabels, EntryLabels, DestroyLabels
  <1>6. ASSUME NEW t \in Threads, ResolveEntry(t) PROVE CallOfLabel'
    BY <1>6, <1>a
    DEF ResolveEntry, Finish, Goto, At, CallOfLabel, LoadLabels, RegisterLabels,
        AnalyzeLabels, ReaderLabels, EntryLabels, DestroyLabels
  <1>7. ASSUME NEW t \in Threads, ValidateDescriptor(t) PROVE CallOfLabel'
    BY <1>7, <1>a
    DEF ValidateDescriptor, Goto, At, CallOfLabel, LoadLabels, RegisterLabels,
        AnalyzeLabels, ReaderLabels, EntryLabels, DestroyLabels
  <1>8. ASSUME NEW t \in Threads, LockExclusive(t) PROVE CallOfLabel'
    BY <1>8, <1>a
    DEF LockExclusive, Goto, At, CallOfLabel, LoadLabels, RegisterLabels,
        AnalyzeLabels, ReaderLabels, EntryLabels, DestroyLabels
  <1>9. ASSUME NEW t \in Threads, FindDuplicate(t) PROVE CallOfLabel'
    BY <1>9, <1>a
    DEF FindDuplicate, UnlockExclusive, Goto, At, CallOfLabel, LoadLabels,
        RegisterLabels, AnalyzeLabels, ReaderLabels, EntryLabels, DestroyLabels
  <1>10. ASSUME NEW t \in Threads, InsertEntry(t) PROVE CallOfLabel'
    BY <1>10, <1>a
    DEF InsertEntry, UnlockExclusive, Finish, Goto, At, CallOfLabel, LoadLabels,
        RegisterLabels, AnalyzeLabels, ReaderLabels, EntryLabels, DestroyLabels
  <1>11. ASSUME NEW t \in Threads, RejectRegistration(t) PROVE CallOfLabel'
    BY <1>11, <1>a
    DEF RejectRegistration, Goto, At, CallOfLabel, LoadLabels, RegisterLabels,
        AnalyzeLabels, ReaderLabels, EntryLabels, DestroyLabels
  <1>12. ASSUME NEW t \in Threads, NextRegion(t) PROVE CallOfLabel'
    BY <1>12, <1>a
    DEF NextRegion, Finish, Goto, At, CallOfLabel, LoadLabels, RegisterLabels,
        AnalyzeLabels, ReaderLabels, EntryLabels, DestroyLabels
  <1>13. ASSUME NEW t \in Threads, LockShared(t) PROVE CallOfLabel'
    BY <1>13, <1>a
    DEF LockShared, Goto, At, CallOfLabel, LoadLabels, RegisterLabels,
        AnalyzeLabels, ReaderLabels, EntryLabels, DestroyLabels
  <1>14. ASSUME NEW t \in Threads, NextEntry(t) PROVE CallOfLabel'
    BY <1>14, <1>a
    DEF NextEntry, UnlockShared, Goto, At, CallOfLabel, LoadLabels,
        RegisterLabels, AnalyzeLabels, ReaderLabels, EntryLabels, DestroyLabels
  <1>15. ASSUME NEW t \in Threads, LockCall(t) PROVE CallOfLabel'
    BY <1>15, <1>a
    DEF LockCall, Goto, At, CallOfLabel, LoadLabels, RegisterLabels,
        AnalyzeLabels, ReaderLabels, EntryLabels, DestroyLabels
  <1>16. ASSUME NEW t \in Threads, SupportsReturns(t) PROVE CallOfLabel'
    BY <1>16, <1>a
    DEF SupportsReturns, UnlockCall, UnlockShared, Finish, Goto, At,
        CallOfLabel, LoadLabels, RegisterLabels, AnalyzeLabels, ReaderLabels,
        EntryLabels, DestroyLabels
  <1>17. ASSUME NEW t \in Threads, AnalyzeReturns(t) PROVE CallOfLabel'
    BY <1>17, <1>a
    DEF AnalyzeReturns, UnlockCall, UnlockShared, Finish, Goto, At, CallOfLabel,
        LoadLabels, RegisterLabels, AnalyzeLabels, ReaderLabels, EntryLabels,
        DestroyLabels
  <1>18. ASSUME NEW t \in Threads, BuiltInReturns(t) PROVE CallOfLabel'
    BY <1>18, <1>a
    DEF BuiltInReturns, Finish, Goto, At, CallOfLabel, LoadLabels,
        RegisterLabels, AnalyzeLabels, ReaderLabels, EntryLabels, DestroyLabels
  <1>19. ASSUME NEW t \in Threads, DestroyNextEntry(t) PROVE CallOfLabel'
    BY <1>19, <1>a
    DEF DestroyNextEntry, Finish, Goto, At, CallOfLabel, LoadLabels,
        RegisterLabels, AnalyzeLabels, ReaderLabels, EntryLabels, DestroyLabels
  <1>20. ASSUME NEW t \in Threads, DestroyReturns(t) PROVE CallOfLabel'
    BY <1>20, <1>a
    DEF DestroyReturns, Goto, At, CallOfLabel, LoadLabels, RegisterLabels,
        AnalyzeLabels, ReaderLabels, EntryLabels, DestroyLabels
  <1>21. ASSUME NEW t \in Threads, CloseEntryModule(t) PROVE CallOfLabel'
    BY <1>21, <1>a
    DEF CloseEntryModule, Goto, At, CallOfLabel, LoadLabels, RegisterLabels,
        AnalyzeLabels, ReaderLabels, EntryLabels, DestroyLabels
  <1>22. ASSUME NEW t \in Threads, Return(t) PROVE CallOfLabel'
    BY <1>22, <1>a, NoCallTyped
    DEF Return, Goto, At, CallOfLabel, LoadLabels, RegisterLabels,
        AnalyzeLabels, ReaderLabels, EntryLabels, DestroyLabels
  <1>23. CASE UNCHANGED vars
    BY <1>23, <1>a
    DEF vars, CallOfLabel, LoadLabels, RegisterLabels, AnalyzeLabels,
        ReaderLabels, EntryLabels, DestroyLabels, At, locals
  <1>24. QED
    BY <1>1, <1>2, <1>3, <1>4, <1>5, <1>6, <1>7, <1>8, <1>9, <1>10, <1>11,
       <1>12, <1>13, <1>14, <1>15, <1>16, <1>17, <1>18, <1>19, <1>20, <1>21,
       <1>22, <1>23
    DEF Next, Step

(* A cursor stays within entries_, which only its holder's peers may grow. *)
LEMMA CursorStep ==
  ASSUME IInv, [Next]_vars PROVE CursorInRange'
  <1>a. /\ CursorInRange
        /\ pc \in [Threads -> Labels] /\ call \in [Threads -> Calls]
        /\ cursor \in [Threads -> Nat] /\ entries \in [Runtimes -> Seq(Entry)]
    BY DEF IInv, LockDiscipline, TypeOK
  <1>b. CallOfLabel /\ DestroyerIsAlone
    BY DEF IInv, LockDiscipline
  <1>c. \A t \in Threads : InContext(t)
    BY CallContext DEF IInv, LockDiscipline
  <1>1. ASSUME NEW t \in Threads, CallRegister(t) PROVE CursorInRange'
    BY <1>1, <1>a
    DEF CallRegister, Begin, Goto, At, CursorInRange, EntryLabels, Rt
  <1>2. ASSUME NEW t \in Threads, CallLoad(t) PROVE CursorInRange'
    BY <1>2, <1>a DEF CallLoad, Begin, Goto, At, CursorInRange, EntryLabels, Rt
  <1>3. ASSUME NEW t \in Threads, CallAnalyze(t) PROVE CursorInRange'
    BY <1>3, <1>a
    DEF CallAnalyze, Begin, Goto, At, CursorInRange, EntryLabels, Rt
  <1>4. ASSUME NEW t \in Threads, CallDestroy(t) PROVE CursorInRange'
    BY <1>4, <1>a
    DEF CallDestroy, Begin, Goto, At, CursorInRange, EntryLabels, Rt
  <1>5. ASSUME NEW t \in Threads, OpenModule(t) PROVE CursorInRange'
    BY <1>5, <1>a
    DEF OpenModule, Finish, Goto, At, CursorInRange, EntryLabels, Rt
  <1>6. ASSUME NEW t \in Threads, ResolveEntry(t) PROVE CursorInRange'
    BY <1>6, <1>a
    DEF ResolveEntry, Finish, Goto, At, CursorInRange, EntryLabels, Rt
  <1>7. ASSUME NEW t \in Threads, ValidateDescriptor(t) PROVE CursorInRange'
    BY <1>7, <1>a
    DEF ValidateDescriptor, Goto, At, CursorInRange, EntryLabels, Rt
  <1>8. ASSUME NEW t \in Threads, LockExclusive(t) PROVE CursorInRange'
    BY <1>8, <1>a DEF LockExclusive, Goto, At, CursorInRange, EntryLabels, Rt
  <1>9. ASSUME NEW t \in Threads, FindDuplicate(t) PROVE CursorInRange'
    BY <1>9, <1>a
    DEF FindDuplicate, UnlockExclusive, Goto, At, CursorInRange, EntryLabels, Rt
  <1>10. ASSUME NEW t \in Threads, InsertEntry(t) PROVE CursorInRange'
    <2>1. /\ cursor' = cursor /\ call' = call
          /\ pc' = [pc EXCEPT ![t] = "done"] \/ pc' = [pc EXCEPT ![t] = "reject"]
      BY <1>10 DEF InsertEntry, Finish, Goto
    <2>2. \A r \in Runtimes : Len(entries[r]) <= Len(entries'[r])
      <3>1. Append(entries[Rt(t)], [provider |-> Candidate(t), module |-> Origin(t)])
              = entries'[Rt(t)]
            \/ entries' = entries
        BY <1>10, <1>a, <1>c DEF InsertEntry, InContext, At
      <3>2. \A r \in Runtimes \ {Rt(t)} : entries'[r] = entries[r]
        BY <1>10, <1>a DEF InsertEntry
      <3>3. QED
        BY <1>10, <3>1, <3>2, <1>a, <1>c DEF InsertEntry, InContext, At
    <2>3. \A r \in Runtimes : entries[r] \in Seq(Entry) /\ entries'[r] \in Seq(Entry)
      BY <1>a, TypeStep DEF TypeOK
    <2>4. QED
      BY <2>1, <2>2, <2>3, <1>a, <1>c DEF CursorInRange, EntryLabels, Rt, At, InContext
  <1>11. ASSUME NEW t \in Threads, RejectRegistration(t) PROVE CursorInRange'
    BY <1>11, <1>a
    DEF RejectRegistration, Goto, At, CursorInRange, EntryLabels, Rt
  <1>12. ASSUME NEW t \in Threads, NextRegion(t) PROVE CursorInRange'
    BY <1>12, <1>a
    DEF NextRegion, Finish, Goto, At, CursorInRange, EntryLabels, Rt
  <1>13. ASSUME NEW t \in Threads, LockShared(t) PROVE CursorInRange'
    BY <1>13, <1>a, <1>c
    DEF LockShared, Goto, At, CursorInRange, EntryLabels, Rt, InContext
  <1>14. ASSUME NEW t \in Threads, NextEntry(t) PROVE CursorInRange'
    BY <1>14, <1>a, <1>c
    DEF NextEntry, UnlockShared, Goto, At, CursorInRange, EntryLabels, Rt,
        InContext
  <1>15. ASSUME NEW t \in Threads, LockCall(t) PROVE CursorInRange'
    BY <1>15, <1>a DEF LockCall, Goto, At, CursorInRange, EntryLabels, Rt
  <1>16. ASSUME NEW t \in Threads, SupportsReturns(t) PROVE CursorInRange'
    BY <1>16, <1>a, <1>c
    DEF SupportsReturns, UnlockCall, UnlockShared, Finish, Goto, At,
        CursorInRange, EntryLabels, Rt, InContext
  <1>17. ASSUME NEW t \in Threads, AnalyzeReturns(t) PROVE CursorInRange'
    BY <1>17, <1>a
    DEF AnalyzeReturns, UnlockCall, UnlockShared, Finish, Goto, At,
        CursorInRange, EntryLabels, Rt
  <1>18. ASSUME NEW t \in Threads, BuiltInReturns(t) PROVE CursorInRange'
    BY <1>18, <1>a
    DEF BuiltInReturns, Finish, Goto, At, CursorInRange, EntryLabels, Rt
  <1>19. ASSUME NEW t \in Threads, DestroyNextEntry(t) PROVE CursorInRange'
    BY <1>19, <1>a, <1>c
    DEF DestroyNextEntry, Finish, Goto, At, CursorInRange, EntryLabels, Rt,
        InContext
  <1>20. ASSUME NEW t \in Threads, DestroyReturns(t) PROVE CursorInRange'
    BY <1>20, <1>a DEF DestroyReturns, Goto, At, CursorInRange, EntryLabels, Rt
  <1>21. ASSUME NEW t \in Threads, CloseEntryModule(t) PROVE CursorInRange'
    BY <1>21, <1>a, <1>b
    DEF CloseEntryModule, Goto, At, CursorInRange, EntryLabels, Rt, CallOfLabel,
        DestroyerIsAlone, DestroyLabels
  <1>22. ASSUME NEW t \in Threads, Return(t) PROVE CursorInRange'
    BY <1>22, <1>a DEF Return, Goto, At, CursorInRange, EntryLabels, Rt
  <1>23. CASE UNCHANGED vars
    BY <1>23, <1>a DEF vars, CursorInRange, EntryLabels, Rt, At, locals
  <1>24. QED
    BY <1>1, <1>2, <1>3, <1>4, <1>5, <1>6, <1>7, <1>8, <1>9, <1>10, <1>11,
       <1>12, <1>13, <1>14, <1>15, <1>16, <1>17, <1>18, <1>19, <1>20, <1>21,
       <1>22, <1>23
    DEF Next, Step

(* mutex_ is held exclusively at the writer labels and nowhere else. *)
LEMMA WriterStep ==
  ASSUME IInv, [Next]_vars PROVE WriterMatches'
  <1>a. WriterMatches /\ writer \in [Runtimes -> Threads \cup {NoThread}]
    BY DEF IInv, LockDiscipline, TypeOK
  <1>b. CallOfLabel /\ pc \in [Threads -> Labels] /\ call \in [Threads -> Calls]
    BY DEF IInv, LockDiscipline, TypeOK
  <1>1. ASSUME NEW t \in Threads, CallRegister(t) PROVE WriterMatches'
    BY <1>1, <1>a, <1>b
    DEF CallRegister, Begin, Goto, At, WriterMatches, WriterLabels, Rt, locks
  <1>2. ASSUME NEW t \in Threads, CallLoad(t) PROVE WriterMatches'
    BY <1>2, <1>a, <1>b
    DEF CallLoad, Begin, Goto, At, WriterMatches, WriterLabels, Rt, locks
  <1>3. ASSUME NEW t \in Threads, CallAnalyze(t) PROVE WriterMatches'
    BY <1>3, <1>a, <1>b
    DEF CallAnalyze, Begin, Goto, At, WriterMatches, WriterLabels, Rt, locks
  <1>4. ASSUME NEW t \in Threads, CallDestroy(t) PROVE WriterMatches'
    BY <1>4, <1>a, <1>b
    DEF CallDestroy, Begin, Goto, At, WriterMatches, WriterLabels, Rt, locks
  <1>5. ASSUME NEW t \in Threads, OpenModule(t) PROVE WriterMatches'
    BY <1>5, <1>a, <1>b
    DEF OpenModule, Finish, Goto, At, WriterMatches, WriterLabels, Rt, locks
  <1>6. ASSUME NEW t \in Threads, ResolveEntry(t) PROVE WriterMatches'
    BY <1>6, <1>a, <1>b
    DEF ResolveEntry, Finish, Goto, At, WriterMatches, WriterLabels, Rt, locks
  <1>7. ASSUME NEW t \in Threads, ValidateDescriptor(t) PROVE WriterMatches'
    BY <1>7, <1>a, <1>b
    DEF ValidateDescriptor, Goto, At, WriterMatches, WriterLabels, Rt, locks
  <1>8. ASSUME NEW t \in Threads, LockExclusive(t) PROVE WriterMatches'
    BY <1>8, <1>a, <1>b, RegistryAssumption
    DEF LockExclusive, Goto, At, WriterMatches, WriterLabels, Rt, locks
  <1>9. ASSUME NEW t \in Threads, FindDuplicate(t) PROVE WriterMatches'
    BY <1>9, <1>a, <1>b, RegistryAssumption
    DEF FindDuplicate, UnlockExclusive, Goto, At, WriterMatches, WriterLabels,
        Rt, locks
  <1>10. ASSUME NEW t \in Threads, InsertEntry(t) PROVE WriterMatches'
    BY <1>10, <1>a, <1>b, RegistryAssumption
    DEF InsertEntry, UnlockExclusive, Finish, Goto, At, WriterMatches,
        WriterLabels, Rt, locks
  <1>11. ASSUME NEW t \in Threads, RejectRegistration(t) PROVE WriterMatches'
    BY <1>11, <1>a, <1>b
    DEF RejectRegistration, Goto, At, WriterMatches, WriterLabels, Rt, locks
  <1>12. ASSUME NEW t \in Threads, NextRegion(t) PROVE WriterMatches'
    BY <1>12, <1>a, <1>b
    DEF NextRegion, Finish, Goto, At, WriterMatches, WriterLabels, Rt, locks
  <1>13. ASSUME NEW t \in Threads, LockShared(t) PROVE WriterMatches'
    BY <1>13, <1>a, <1>b
    DEF LockShared, Goto, At, WriterMatches, WriterLabels, Rt, locks
  <1>14. ASSUME NEW t \in Threads, NextEntry(t) PROVE WriterMatches'
    BY <1>14, <1>a, <1>b
    DEF NextEntry, UnlockShared, Goto, At, WriterMatches, WriterLabels, Rt,
        locks
  <1>15. ASSUME NEW t \in Threads, LockCall(t) PROVE WriterMatches'
    BY <1>15, <1>a, <1>b
    DEF LockCall, Goto, At, WriterMatches, WriterLabels, Rt, locks
  <1>16. ASSUME NEW t \in Threads, SupportsReturns(t) PROVE WriterMatches'
    BY <1>16, <1>a, <1>b
    DEF SupportsReturns, UnlockCall, UnlockShared, Finish, Goto, At,
        WriterMatches, WriterLabels, Rt, locks
  <1>17. ASSUME NEW t \in Threads, AnalyzeReturns(t) PROVE WriterMatches'
    BY <1>17, <1>a, <1>b
    DEF AnalyzeReturns, UnlockCall, UnlockShared, Finish, Goto, At,
        WriterMatches, WriterLabels, Rt, locks
  <1>18. ASSUME NEW t \in Threads, BuiltInReturns(t) PROVE WriterMatches'
    BY <1>18, <1>a, <1>b
    DEF BuiltInReturns, Finish, Goto, At, WriterMatches, WriterLabels, Rt, locks
  <1>19. ASSUME NEW t \in Threads, DestroyNextEntry(t) PROVE WriterMatches'
    BY <1>19, <1>a, <1>b
    DEF DestroyNextEntry, Finish, Goto, At, WriterMatches, WriterLabels, Rt,
        locks
  <1>20. ASSUME NEW t \in Threads, DestroyReturns(t) PROVE WriterMatches'
    BY <1>20, <1>a, <1>b
    DEF DestroyReturns, Goto, At, WriterMatches, WriterLabels, Rt, locks
  <1>21. ASSUME NEW t \in Threads, CloseEntryModule(t) PROVE WriterMatches'
    BY <1>21, <1>a, <1>b
    DEF CloseEntryModule, Goto, At, WriterMatches, WriterLabels, Rt, locks
  <1>22. ASSUME NEW t \in Threads, Return(t) PROVE WriterMatches'
    BY <1>22, <1>a, <1>b
    DEF Return, Goto, At, WriterMatches, WriterLabels, Rt, locks
  <1>23. CASE UNCHANGED vars
    BY <1>23, <1>a DEF vars, WriterMatches, WriterLabels, Rt, locks, locals
  <1>24. QED
    BY <1>1, <1>2, <1>3, <1>4, <1>5, <1>6, <1>7, <1>8, <1>9, <1>10, <1>11,
       <1>12, <1>13, <1>14, <1>15, <1>16, <1>17, <1>18, <1>19, <1>20, <1>21,
       <1>22, <1>23
    DEF Next, Step

(* mutex_ is held shared at the reader labels and nowhere else. *)
LEMMA ReadersStep ==
  ASSUME IInv, [Next]_vars PROVE ReadersMatch'
  <1>a. ReadersMatch /\ readers \in [Runtimes -> SUBSET Threads]
    BY DEF IInv, LockDiscipline, TypeOK
  <1>b. CallOfLabel /\ pc \in [Threads -> Labels] /\ call \in [Threads -> Calls]
    BY DEF IInv, LockDiscipline, TypeOK
  <1>c. \A t \in Threads : InContext(t)
    BY CallContext DEF IInv, LockDiscipline
  <1>1. ASSUME NEW t \in Threads, CallRegister(t) PROVE ReadersMatch'
    BY <1>1, <1>a, <1>b
    DEF CallRegister, Begin, Goto, At, ReadersMatch, ReaderLabels, EntryLabels,
        Rt, locks
  <1>2. ASSUME NEW t \in Threads, CallLoad(t) PROVE ReadersMatch'
    BY <1>2, <1>a, <1>b
    DEF CallLoad, Begin, Goto, At, ReadersMatch, ReaderLabels, EntryLabels, Rt,
        locks
  <1>3. ASSUME NEW t \in Threads, CallAnalyze(t) PROVE ReadersMatch'
    BY <1>3, <1>a, <1>b
    DEF CallAnalyze, Begin, Goto, At, ReadersMatch, ReaderLabels, EntryLabels,
        Rt, locks
  <1>4. ASSUME NEW t \in Threads, CallDestroy(t) PROVE ReadersMatch'
    BY <1>4, <1>a, <1>b
    DEF CallDestroy, Begin, Goto, At, ReadersMatch, ReaderLabels, EntryLabels,
        Rt, locks
  <1>5. ASSUME NEW t \in Threads, OpenModule(t) PROVE ReadersMatch'
    BY <1>5, <1>a, <1>b
    DEF OpenModule, Finish, Goto, At, ReadersMatch, ReaderLabels, EntryLabels,
        Rt, locks
  <1>6. ASSUME NEW t \in Threads, ResolveEntry(t) PROVE ReadersMatch'
    BY <1>6, <1>a, <1>b
    DEF ResolveEntry, Finish, Goto, At, ReadersMatch, ReaderLabels, EntryLabels,
        Rt, locks
  <1>7. ASSUME NEW t \in Threads, ValidateDescriptor(t) PROVE ReadersMatch'
    BY <1>7, <1>a, <1>b
    DEF ValidateDescriptor, Goto, At, ReadersMatch, ReaderLabels, EntryLabels,
        Rt, locks
  <1>8. ASSUME NEW t \in Threads, LockExclusive(t) PROVE ReadersMatch'
    BY <1>8, <1>a, <1>b
    DEF LockExclusive, Goto, At, ReadersMatch, ReaderLabels, EntryLabels, Rt,
        locks
  <1>9. ASSUME NEW t \in Threads, FindDuplicate(t) PROVE ReadersMatch'
    BY <1>9, <1>a, <1>b
    DEF FindDuplicate, UnlockExclusive, Goto, At, ReadersMatch, ReaderLabels,
        EntryLabels, Rt, locks
  <1>10. ASSUME NEW t \in Threads, InsertEntry(t) PROVE ReadersMatch'
    BY <1>10, <1>a, <1>b
    DEF InsertEntry, UnlockExclusive, Finish, Goto, At, ReadersMatch,
        ReaderLabels, EntryLabels, Rt, locks
  <1>11. ASSUME NEW t \in Threads, RejectRegistration(t) PROVE ReadersMatch'
    BY <1>11, <1>a, <1>b
    DEF RejectRegistration, Goto, At, ReadersMatch, ReaderLabels, EntryLabels,
        Rt, locks
  <1>12. ASSUME NEW t \in Threads, NextRegion(t) PROVE ReadersMatch'
    BY <1>12, <1>a, <1>b
    DEF NextRegion, Finish, Goto, At, ReadersMatch, ReaderLabels, EntryLabels,
        Rt, locks
  <1>13. ASSUME NEW t \in Threads, LockShared(t) PROVE ReadersMatch'
    BY <1>13, <1>a, <1>b, <1>c
    DEF LockShared, Goto, At, ReadersMatch, ReaderLabels, EntryLabels, Rt,
        locks, InContext
  <1>14. ASSUME NEW t \in Threads, NextEntry(t) PROVE ReadersMatch'
    BY <1>14, <1>a, <1>b, <1>c
    DEF NextEntry, UnlockShared, Goto, At, ReadersMatch, ReaderLabels,
        EntryLabels, Rt, locks, InContext
  <1>15. ASSUME NEW t \in Threads, LockCall(t) PROVE ReadersMatch'
    BY <1>15, <1>a, <1>b
    DEF LockCall, Goto, At, ReadersMatch, ReaderLabels, EntryLabels, Rt, locks
  <1>16. ASSUME NEW t \in Threads, SupportsReturns(t) PROVE ReadersMatch'
    BY <1>16, <1>a, <1>b, <1>c
    DEF SupportsReturns, UnlockCall, UnlockShared, Finish, Goto, At,
        ReadersMatch, ReaderLabels, EntryLabels, Rt, locks, InContext
  <1>17. ASSUME NEW t \in Threads, AnalyzeReturns(t) PROVE ReadersMatch'
    BY <1>17, <1>a, <1>b, <1>c
    DEF AnalyzeReturns, UnlockCall, UnlockShared, Finish, Goto, At,
        ReadersMatch, ReaderLabels, EntryLabels, Rt, locks, InContext
  <1>18. ASSUME NEW t \in Threads, BuiltInReturns(t) PROVE ReadersMatch'
    BY <1>18, <1>a, <1>b
    DEF BuiltInReturns, Finish, Goto, At, ReadersMatch, ReaderLabels,
        EntryLabels, Rt, locks
  <1>19. ASSUME NEW t \in Threads, DestroyNextEntry(t) PROVE ReadersMatch'
    BY <1>19, <1>a, <1>b
    DEF DestroyNextEntry, Finish, Goto, At, ReadersMatch, ReaderLabels,
        EntryLabels, Rt, locks
  <1>20. ASSUME NEW t \in Threads, DestroyReturns(t) PROVE ReadersMatch'
    BY <1>20, <1>a, <1>b
    DEF DestroyReturns, Goto, At, ReadersMatch, ReaderLabels, EntryLabels, Rt,
        locks
  <1>21. ASSUME NEW t \in Threads, CloseEntryModule(t) PROVE ReadersMatch'
    BY <1>21, <1>a, <1>b
    DEF CloseEntryModule, Goto, At, ReadersMatch, ReaderLabels, EntryLabels, Rt,
        locks
  <1>22. ASSUME NEW t \in Threads, Return(t) PROVE ReadersMatch'
    BY <1>22, <1>a, <1>b
    DEF Return, Goto, At, ReadersMatch, ReaderLabels, EntryLabels, Rt, locks
  <1>23. CASE UNCHANGED vars
    BY <1>23, <1>a
    DEF vars, ReadersMatch, ReaderLabels, EntryLabels, Rt, locks, locals
  <1>24. QED
    BY <1>1, <1>2, <1>3, <1>4, <1>5, <1>6, <1>7, <1>8, <1>9, <1>10, <1>11,
       <1>12, <1>13, <1>14, <1>15, <1>16, <1>17, <1>18, <1>19, <1>20, <1>21,
       <1>22, <1>23
    DEF Next, Step

(* Neither side of mutex_ is granted while the other is held. *)
LEMMA ExclusionStep ==
  ASSUME IInv, [Next]_vars PROVE WriterExcludesReaders'
  <1>a. WriterExcludesReaders /\ readers \in [Runtimes -> SUBSET Threads]
        /\ writer \in [Runtimes -> Threads \cup {NoThread}]
    BY DEF IInv, LockDiscipline, TypeOK
  <1>1. ASSUME NEW t \in Threads, CallRegister(t) PROVE WriterExcludesReaders'
    BY <1>1, <1>a
    DEF CallRegister, Begin, Goto, At, WriterExcludesReaders, locks
  <1>2. ASSUME NEW t \in Threads, CallLoad(t) PROVE WriterExcludesReaders'
    BY <1>2, <1>a DEF CallLoad, Begin, Goto, At, WriterExcludesReaders, locks
  <1>3. ASSUME NEW t \in Threads, CallAnalyze(t) PROVE WriterExcludesReaders'
    BY <1>3, <1>a DEF CallAnalyze, Begin, Goto, At, WriterExcludesReaders, locks
  <1>4. ASSUME NEW t \in Threads, CallDestroy(t) PROVE WriterExcludesReaders'
    BY <1>4, <1>a DEF CallDestroy, Begin, Goto, At, WriterExcludesReaders, locks
  <1>5. ASSUME NEW t \in Threads, OpenModule(t) PROVE WriterExcludesReaders'
    BY <1>5, <1>a DEF OpenModule, Finish, Goto, At, WriterExcludesReaders, locks
  <1>6. ASSUME NEW t \in Threads, ResolveEntry(t) PROVE WriterExcludesReaders'
    BY <1>6, <1>a
    DEF ResolveEntry, Finish, Goto, At, WriterExcludesReaders, locks
  <1>7. ASSUME NEW t \in Threads, ValidateDescriptor(t) PROVE WriterExcludesReaders'
    BY <1>7, <1>a DEF ValidateDescriptor, Goto, At, WriterExcludesReaders, locks
  <1>8. ASSUME NEW t \in Threads, LockExclusive(t) PROVE WriterExcludesReaders'
    BY <1>8, <1>a DEF LockExclusive, Goto, At, WriterExcludesReaders, locks
  <1>9. ASSUME NEW t \in Threads, FindDuplicate(t) PROVE WriterExcludesReaders'
    BY <1>9, <1>a
    DEF FindDuplicate, UnlockExclusive, Goto, At, WriterExcludesReaders, locks
  <1>10. ASSUME NEW t \in Threads, InsertEntry(t) PROVE WriterExcludesReaders'
    BY <1>10, <1>a
    DEF InsertEntry, UnlockExclusive, Finish, Goto, At, WriterExcludesReaders,
        locks
  <1>11. ASSUME NEW t \in Threads, RejectRegistration(t) PROVE WriterExcludesReaders'
    BY <1>11, <1>a
    DEF RejectRegistration, Goto, At, WriterExcludesReaders, locks
  <1>12. ASSUME NEW t \in Threads, NextRegion(t) PROVE WriterExcludesReaders'
    BY <1>12, <1>a
    DEF NextRegion, Finish, Goto, At, WriterExcludesReaders, locks
  <1>13. ASSUME NEW t \in Threads, LockShared(t) PROVE WriterExcludesReaders'
    BY <1>13, <1>a DEF LockShared, Goto, At, WriterExcludesReaders, locks
  <1>14. ASSUME NEW t \in Threads, NextEntry(t) PROVE WriterExcludesReaders'
    BY <1>14, <1>a
    DEF NextEntry, UnlockShared, Goto, At, WriterExcludesReaders, locks
  <1>15. ASSUME NEW t \in Threads, LockCall(t) PROVE WriterExcludesReaders'
    BY <1>15, <1>a DEF LockCall, Goto, At, WriterExcludesReaders, locks
  <1>16. ASSUME NEW t \in Threads, SupportsReturns(t) PROVE WriterExcludesReaders'
    BY <1>16, <1>a
    DEF SupportsReturns, UnlockCall, UnlockShared, Finish, Goto, At,
        WriterExcludesReaders, locks
  <1>17. ASSUME NEW t \in Threads, AnalyzeReturns(t) PROVE WriterExcludesReaders'
    BY <1>17, <1>a
    DEF AnalyzeReturns, UnlockCall, UnlockShared, Finish, Goto, At,
        WriterExcludesReaders, locks
  <1>18. ASSUME NEW t \in Threads, BuiltInReturns(t) PROVE WriterExcludesReaders'
    BY <1>18, <1>a
    DEF BuiltInReturns, Finish, Goto, At, WriterExcludesReaders, locks
  <1>19. ASSUME NEW t \in Threads, DestroyNextEntry(t) PROVE WriterExcludesReaders'
    BY <1>19, <1>a
    DEF DestroyNextEntry, Finish, Goto, At, WriterExcludesReaders, locks
  <1>20. ASSUME NEW t \in Threads, DestroyReturns(t) PROVE WriterExcludesReaders'
    BY <1>20, <1>a DEF DestroyReturns, Goto, At, WriterExcludesReaders, locks
  <1>21. ASSUME NEW t \in Threads, CloseEntryModule(t) PROVE WriterExcludesReaders'
    BY <1>21, <1>a DEF CloseEntryModule, Goto, At, WriterExcludesReaders, locks
  <1>22. ASSUME NEW t \in Threads, Return(t) PROVE WriterExcludesReaders'
    BY <1>22, <1>a DEF Return, Goto, At, WriterExcludesReaders, locks
  <1>23. CASE UNCHANGED vars
    BY <1>23, <1>a DEF vars, WriterExcludesReaders, locks
  <1>24. QED
    BY <1>1, <1>2, <1>3, <1>4, <1>5, <1>6, <1>7, <1>8, <1>9, <1>10, <1>11,
       <1>12, <1>13, <1>14, <1>15, <1>16, <1>17, <1>18, <1>19, <1>20, <1>21,
       <1>22, <1>23
    DEF Next, Step

(* Nobody enters a runtime whose destruction has begun. *)
LEMMA DestroyerStep ==
  ASSUME IInv, [Next]_vars PROVE DestroyerIsAlone'
  <1>a. /\ DestroyerIsAlone /\ CallOfLabel
        /\ pc \in [Threads -> Labels] /\ call \in [Threads -> Calls]
        /\ open \subseteq Runtimes
    BY DEF IInv, LockDiscipline, TypeOK
  <1>b. CallOfLabel'
    BY CallOfLabelStep
  <1>1. ASSUME NEW t \in Threads, CallRegister(t) PROVE DestroyerIsAlone'
    BY <1>1, <1>a, <1>b, NewCalls
    DEF CallRegister, Begin, Goto, At, DestroyerIsAlone, Rt, CallOfLabel
  <1>2. ASSUME NEW t \in Threads, CallLoad(t) PROVE DestroyerIsAlone'
    BY <1>2, <1>a, <1>b, NewCalls
    DEF CallLoad, Begin, Goto, At, DestroyerIsAlone, Rt, CallOfLabel
  <1>3. ASSUME NEW t \in Threads, CallAnalyze(t) PROVE DestroyerIsAlone'
    BY <1>3, <1>a, <1>b, NewCalls
    DEF CallAnalyze, Begin, Goto, At, DestroyerIsAlone, Rt, CallOfLabel
  <1>4. ASSUME NEW t \in Threads, CallDestroy(t) PROVE DestroyerIsAlone'
    BY <1>4, <1>a, <1>b, NewCalls
    DEF CallDestroy, Begin, Goto, At, DestroyerIsAlone, Rt, CallOfLabel
  <1>5. ASSUME NEW t \in Threads, OpenModule(t) PROVE DestroyerIsAlone'
    BY <1>5, <1>a DEF OpenModule, Finish, Goto, At, DestroyerIsAlone, Rt
  <1>6. ASSUME NEW t \in Threads, ResolveEntry(t) PROVE DestroyerIsAlone'
    BY <1>6, <1>a DEF ResolveEntry, Finish, Goto, At, DestroyerIsAlone, Rt
  <1>7. ASSUME NEW t \in Threads, ValidateDescriptor(t) PROVE DestroyerIsAlone'
    BY <1>7, <1>a DEF ValidateDescriptor, Goto, At, DestroyerIsAlone, Rt
  <1>8. ASSUME NEW t \in Threads, LockExclusive(t) PROVE DestroyerIsAlone'
    BY <1>8, <1>a DEF LockExclusive, Goto, At, DestroyerIsAlone, Rt
  <1>9. ASSUME NEW t \in Threads, FindDuplicate(t) PROVE DestroyerIsAlone'
    BY <1>9, <1>a
    DEF FindDuplicate, UnlockExclusive, Goto, At, DestroyerIsAlone, Rt
  <1>10. ASSUME NEW t \in Threads, InsertEntry(t) PROVE DestroyerIsAlone'
    BY <1>10, <1>a
    DEF InsertEntry, UnlockExclusive, Finish, Goto, At, DestroyerIsAlone, Rt
  <1>11. ASSUME NEW t \in Threads, RejectRegistration(t) PROVE DestroyerIsAlone'
    BY <1>11, <1>a DEF RejectRegistration, Goto, At, DestroyerIsAlone, Rt
  <1>12. ASSUME NEW t \in Threads, NextRegion(t) PROVE DestroyerIsAlone'
    BY <1>12, <1>a DEF NextRegion, Finish, Goto, At, DestroyerIsAlone, Rt
  <1>13. ASSUME NEW t \in Threads, LockShared(t) PROVE DestroyerIsAlone'
    BY <1>13, <1>a DEF LockShared, Goto, At, DestroyerIsAlone, Rt
  <1>14. ASSUME NEW t \in Threads, NextEntry(t) PROVE DestroyerIsAlone'
    BY <1>14, <1>a DEF NextEntry, UnlockShared, Goto, At, DestroyerIsAlone, Rt
  <1>15. ASSUME NEW t \in Threads, LockCall(t) PROVE DestroyerIsAlone'
    BY <1>15, <1>a DEF LockCall, Goto, At, DestroyerIsAlone, Rt
  <1>16. ASSUME NEW t \in Threads, SupportsReturns(t) PROVE DestroyerIsAlone'
    BY <1>16, <1>a
    DEF SupportsReturns, UnlockCall, UnlockShared, Finish, Goto, At,
        DestroyerIsAlone, Rt
  <1>17. ASSUME NEW t \in Threads, AnalyzeReturns(t) PROVE DestroyerIsAlone'
    BY <1>17, <1>a
    DEF AnalyzeReturns, UnlockCall, UnlockShared, Finish, Goto, At,
        DestroyerIsAlone, Rt
  <1>18. ASSUME NEW t \in Threads, BuiltInReturns(t) PROVE DestroyerIsAlone'
    BY <1>18, <1>a DEF BuiltInReturns, Finish, Goto, At, DestroyerIsAlone, Rt
  <1>19. ASSUME NEW t \in Threads, DestroyNextEntry(t) PROVE DestroyerIsAlone'
    BY <1>19, <1>a DEF DestroyNextEntry, Finish, Goto, At, DestroyerIsAlone, Rt
  <1>20. ASSUME NEW t \in Threads, DestroyReturns(t) PROVE DestroyerIsAlone'
    BY <1>20, <1>a DEF DestroyReturns, Goto, At, DestroyerIsAlone, Rt
  <1>21. ASSUME NEW t \in Threads, CloseEntryModule(t) PROVE DestroyerIsAlone'
    BY <1>21, <1>a DEF CloseEntryModule, Goto, At, DestroyerIsAlone, Rt
  <1>22. ASSUME NEW t \in Threads, Return(t) PROVE DestroyerIsAlone'
    BY <1>22, <1>a, NoCallTyped
    DEF Return, Goto, At, DestroyerIsAlone, Rt, CallOfLabel
  <1>23. CASE UNCHANGED vars
    BY <1>23, <1>a DEF vars, DestroyerIsAlone, Rt, At, locals
  <1>24. QED
    BY <1>1, <1>2, <1>3, <1>4, <1>5, <1>6, <1>7, <1>8, <1>9, <1>10, <1>11,
       <1>12, <1>13, <1>14, <1>15, <1>16, <1>17, <1>18, <1>19, <1>20, <1>21,
       <1>22, <1>23
    DEF Next, Step

(* While a thread stays on an entry, the entry stays what it is. *)
EntryStable ==
  \A u \in Threads : pc[u] \in EntryLabels /\ pc'[u] \in EntryLabels =>
    call'[u] = call[u] /\ Current(u)' = Current(u)

(* An entry a routing thread looks at stays where it is. *)
LEMMA EntryStaysPut ==
  ASSUME IInv, [Next]_vars PROVE EntryStable
  <1>a. /\ CallOfLabel /\ CursorInRange /\ DestroyerIsAlone
        /\ pc \in [Threads -> Labels] /\ call \in [Threads -> Calls]
        /\ cursor \in [Threads -> Nat] /\ entries \in [Runtimes -> Seq(Entry)]
    BY DEF IInv, LockDiscipline, TypeOK
  <1>b. \A t \in Threads : InContext(t)
    BY CallContext DEF IInv, LockDiscipline
  <1>1. ASSUME NEW t \in Threads, CallRegister(t) PROVE EntryStable
    BY <1>1, <1>a
    DEF CallRegister, Begin, Goto, At, EntryStable, EntryLabels, Rt, Current,
        CallOfLabel
  <1>2. ASSUME NEW t \in Threads, CallLoad(t) PROVE EntryStable
    BY <1>2, <1>a
    DEF CallLoad, Begin, Goto, At, EntryStable, EntryLabels, Rt, Current,
        CallOfLabel
  <1>3. ASSUME NEW t \in Threads, CallAnalyze(t) PROVE EntryStable
    BY <1>3, <1>a
    DEF CallAnalyze, Begin, Goto, At, EntryStable, EntryLabels, Rt, Current,
        CallOfLabel
  <1>4. ASSUME NEW t \in Threads, CallDestroy(t) PROVE EntryStable
    BY <1>4, <1>a
    DEF CallDestroy, Begin, Goto, At, EntryStable, EntryLabels, Rt, Current,
        CallOfLabel
  <1>5. ASSUME NEW t \in Threads, OpenModule(t) PROVE EntryStable
    BY <1>5, <1>a
    DEF OpenModule, Finish, Goto, At, EntryStable, EntryLabels, Rt, Current
  <1>6. ASSUME NEW t \in Threads, ResolveEntry(t) PROVE EntryStable
    BY <1>6, <1>a
    DEF ResolveEntry, Finish, Goto, At, EntryStable, EntryLabels, Rt, Current
  <1>7. ASSUME NEW t \in Threads, ValidateDescriptor(t) PROVE EntryStable
    BY <1>7, <1>a
    DEF ValidateDescriptor, Goto, At, EntryStable, EntryLabels, Rt, Current
  <1>8. ASSUME NEW t \in Threads, LockExclusive(t) PROVE EntryStable
    BY <1>8, <1>a
    DEF LockExclusive, Goto, At, EntryStable, EntryLabels, Rt, Current
  <1>9. ASSUME NEW t \in Threads, FindDuplicate(t) PROVE EntryStable
    BY <1>9, <1>a
    DEF FindDuplicate, UnlockExclusive, Goto, At, EntryStable, EntryLabels, Rt,
        Current
  <1>10. ASSUME NEW t \in Threads, InsertEntry(t) PROVE EntryStable
    <2>1. /\ cursor' = cursor /\ call' = call
          /\ pc' = [pc EXCEPT ![t] = "done"] \/ pc' = [pc EXCEPT ![t] = "reject"]
      BY <1>10 DEF InsertEntry, Finish, Goto
    <2>2. \A r \in Runtimes : \A i \in DOMAIN entries[r] : entries'[r][i] = entries[r][i]
      <3>1. Append(entries[Rt(t)], [provider |-> Candidate(t), module |-> Origin(t)])
              = entries'[Rt(t)]
            \/ entries' = entries
        BY <1>10, <1>a, <1>b DEF InsertEntry, InContext, At
      <3>2. \A r \in Runtimes \ {Rt(t)} : entries'[r] = entries[r]
        BY <1>10, <1>a DEF InsertEntry
      <3>3. Rt(t) \in Runtimes
        BY <1>10, <1>b DEF InsertEntry, InContext, At
      <3>4. \A i \in DOMAIN entries[Rt(t)] :
              Append(entries[Rt(t)], [provider |-> Candidate(t), module |-> Origin(t)])[i]
                = entries[Rt(t)][i]
        BY <3>3, <1>a
      <3>5. QED
        BY <3>1, <3>2, <3>4
    <2>3. QED
      BY <2>1, <2>2, <1>a, <1>b DEF CursorInRange, EntryLabels, Rt, At, InContext, Current,
         EntryStable
  <1>11. ASSUME NEW t \in Threads, RejectRegistration(t) PROVE EntryStable
    BY <1>11, <1>a
    DEF RejectRegistration, Goto, At, EntryStable, EntryLabels, Rt, Current
  <1>12. ASSUME NEW t \in Threads, NextRegion(t) PROVE EntryStable
    BY <1>12, <1>a
    DEF NextRegion, Finish, Goto, At, EntryStable, EntryLabels, Rt, Current
  <1>13. ASSUME NEW t \in Threads, LockShared(t) PROVE EntryStable
    BY <1>13, <1>a
    DEF LockShared, Goto, At, EntryStable, EntryLabels, Rt, Current
  <1>14. ASSUME NEW t \in Threads, NextEntry(t) PROVE EntryStable
    BY <1>14, <1>a
    DEF NextEntry, UnlockShared, Goto, At, EntryStable, EntryLabels, Rt, Current
  <1>15. ASSUME NEW t \in Threads, LockCall(t) PROVE EntryStable
    BY <1>15, <1>a DEF LockCall, Goto, At, EntryStable, EntryLabels, Rt, Current
  <1>16. ASSUME NEW t \in Threads, SupportsReturns(t) PROVE EntryStable
    BY <1>16, <1>a
    DEF SupportsReturns, UnlockCall, UnlockShared, Finish, Goto, At,
        EntryStable, EntryLabels, Rt, Current
  <1>17. ASSUME NEW t \in Threads, AnalyzeReturns(t) PROVE EntryStable
    BY <1>17, <1>a
    DEF AnalyzeReturns, UnlockCall, UnlockShared, Finish, Goto, At, EntryStable,
        EntryLabels, Rt, Current
  <1>18. ASSUME NEW t \in Threads, BuiltInReturns(t) PROVE EntryStable
    BY <1>18, <1>a
    DEF BuiltInReturns, Finish, Goto, At, EntryStable, EntryLabels, Rt, Current
  <1>19. ASSUME NEW t \in Threads, DestroyNextEntry(t) PROVE EntryStable
    BY <1>19, <1>a
    DEF DestroyNextEntry, Finish, Goto, At, EntryStable, EntryLabels, Rt,
        Current
  <1>20. ASSUME NEW t \in Threads, DestroyReturns(t) PROVE EntryStable
    BY <1>20, <1>a
    DEF DestroyReturns, Goto, At, EntryStable, EntryLabels, Rt, Current
  <1>21. ASSUME NEW t \in Threads, CloseEntryModule(t) PROVE EntryStable
    BY <1>21, <1>a
    DEF CloseEntryModule, Goto, At, EntryStable, EntryLabels, Rt, Current,
        CallOfLabel, DestroyerIsAlone, DestroyLabels
  <1>22. ASSUME NEW t \in Threads, Return(t) PROVE EntryStable
    BY <1>22, <1>a DEF Return, Goto, At, EntryStable, EntryLabels, Rt, Current
  <1>23. CASE UNCHANGED vars
    BY <1>23, <1>a DEF vars, EntryStable, EntryLabels, Rt, Current, locals
  <1>24. QED
    BY <1>1, <1>2, <1>3, <1>4, <1>5, <1>6, <1>7, <1>8, <1>9, <1>10, <1>11,
       <1>12, <1>13, <1>14, <1>15, <1>16, <1>17, <1>18, <1>19, <1>20, <1>21,
       <1>22, <1>23
    DEF Next, Step

(* Releasing a call_mutex leaves it to nobody, whoever held the others. *)
LEMMA UnlockCallEffect ==
  ASSUME CallLocksMatch,
         callLock \in [Runtimes -> [Descriptors -> Threads \cup {NoThread}]],
         NEW t \in Threads, pc[t] \in {"supports", "analyze"},
         Rt(t) \in Runtimes, Current(t).provider \in Descriptors,
         UnlockCall(t)
  PROVE  \A u \in Threads, r \in Runtimes, d \in Descriptors :
           callLock'[r][d] = u <=> u # t /\ callLock[r][d] = u
  <1> DEFINE c == Current(t).provider
  <1>1. callLock[Rt(t)][c] = t \/ \A r \in Runtimes, d \in Descriptors : callLock[r][d] # t
    BY DEF CallLocksMatch
  <1>2. \A r \in Runtimes, d \in Descriptors : callLock[r][d] = t => r = Rt(t) /\ d = c
    BY DEF CallLocksMatch
  <1>3. \A r \in Runtimes, d \in Descriptors :
          callLock'[r][d] = IF r = Rt(t) /\ d = c /\ callLock[r][d] = t THEN NoThread
                            ELSE callLock[r][d]
    BY DEF UnlockCall
  <1>4. QED
    BY <1>1, <1>2, <1>3, RegistryAssumption

(* Only providers that are not thread-safe are waited for. *)
LEMMA UnsafeStep ==
  ASSUME IInv, [Next]_vars PROVE UnsafeTakesLock'
  <1>a. EntryStable /\ pc \in [Threads -> Labels] /\ call \in [Threads -> Calls]
    BY EntryStaysPut DEF IInv, LockDiscipline, TypeOK
  <1>b. UnsafeTakesLock
    BY DEF IInv, LockDiscipline
  <1>1. ASSUME NEW t \in Threads, CallRegister(t) PROVE UnsafeTakesLock'
    BY <1>1, <1>a, <1>b
    DEF CallRegister, Begin, Goto, At, UnsafeTakesLock, EntryStable, EntryLabels
  <1>2. ASSUME NEW t \in Threads, CallLoad(t) PROVE UnsafeTakesLock'
    BY <1>2, <1>a, <1>b
    DEF CallLoad, Begin, Goto, At, UnsafeTakesLock, EntryStable, EntryLabels
  <1>3. ASSUME NEW t \in Threads, CallAnalyze(t) PROVE UnsafeTakesLock'
    BY <1>3, <1>a, <1>b
    DEF CallAnalyze, Begin, Goto, At, UnsafeTakesLock, EntryStable, EntryLabels
  <1>4. ASSUME NEW t \in Threads, CallDestroy(t) PROVE UnsafeTakesLock'
    BY <1>4, <1>a, <1>b
    DEF CallDestroy, Begin, Goto, At, UnsafeTakesLock, EntryStable, EntryLabels
  <1>5. ASSUME NEW t \in Threads, OpenModule(t) PROVE UnsafeTakesLock'
    BY <1>5, <1>a, <1>b
    DEF OpenModule, Finish, Goto, At, UnsafeTakesLock, EntryStable, EntryLabels
  <1>6. ASSUME NEW t \in Threads, ResolveEntry(t) PROVE UnsafeTakesLock'
    BY <1>6, <1>a, <1>b
    DEF ResolveEntry, Finish, Goto, At, UnsafeTakesLock, EntryStable,
        EntryLabels
  <1>7. ASSUME NEW t \in Threads, ValidateDescriptor(t) PROVE UnsafeTakesLock'
    BY <1>7, <1>a, <1>b
    DEF ValidateDescriptor, Goto, At, UnsafeTakesLock, EntryStable, EntryLabels
  <1>8. ASSUME NEW t \in Threads, LockExclusive(t) PROVE UnsafeTakesLock'
    BY <1>8, <1>a, <1>b
    DEF LockExclusive, Goto, At, UnsafeTakesLock, EntryStable, EntryLabels
  <1>9. ASSUME NEW t \in Threads, FindDuplicate(t) PROVE UnsafeTakesLock'
    BY <1>9, <1>a, <1>b
    DEF FindDuplicate, UnlockExclusive, Goto, At, UnsafeTakesLock, EntryStable,
        EntryLabels
  <1>10. ASSUME NEW t \in Threads, InsertEntry(t) PROVE UnsafeTakesLock'
    BY <1>10, <1>a, <1>b
    DEF InsertEntry, UnlockExclusive, Finish, Goto, At, UnsafeTakesLock,
        EntryStable, EntryLabels
  <1>11. ASSUME NEW t \in Threads, RejectRegistration(t) PROVE UnsafeTakesLock'
    BY <1>11, <1>a, <1>b
    DEF RejectRegistration, Goto, At, UnsafeTakesLock, EntryStable, EntryLabels
  <1>12. ASSUME NEW t \in Threads, NextRegion(t) PROVE UnsafeTakesLock'
    BY <1>12, <1>a, <1>b
    DEF NextRegion, Finish, Goto, At, UnsafeTakesLock, EntryStable, EntryLabels
  <1>13. ASSUME NEW t \in Threads, LockShared(t) PROVE UnsafeTakesLock'
    BY <1>13, <1>a, <1>b
    DEF LockShared, Goto, At, UnsafeTakesLock, EntryStable, EntryLabels
  <1>14. ASSUME NEW t \in Threads, NextEntry(t) PROVE UnsafeTakesLock'
    BY <1>14, <1>a, <1>b
    DEF NextEntry, UnlockShared, Goto, At, UnsafeTakesLock, EntryStable,
        EntryLabels, Current, Rt
  <1>15. ASSUME NEW t \in Threads, LockCall(t) PROVE UnsafeTakesLock'
    BY <1>15, <1>a, <1>b
    DEF LockCall, Goto, At, UnsafeTakesLock, EntryStable, EntryLabels
  <1>16. ASSUME NEW t \in Threads, SupportsReturns(t) PROVE UnsafeTakesLock'
    BY <1>16, <1>a, <1>b
    DEF SupportsReturns, UnlockCall, UnlockShared, Finish, Goto, At,
        UnsafeTakesLock, EntryStable, EntryLabels
  <1>17. ASSUME NEW t \in Threads, AnalyzeReturns(t) PROVE UnsafeTakesLock'
    BY <1>17, <1>a, <1>b
    DEF AnalyzeReturns, UnlockCall, UnlockShared, Finish, Goto, At,
        UnsafeTakesLock, EntryStable, EntryLabels
  <1>18. ASSUME NEW t \in Threads, BuiltInReturns(t) PROVE UnsafeTakesLock'
    BY <1>18, <1>a, <1>b
    DEF BuiltInReturns, Finish, Goto, At, UnsafeTakesLock, EntryStable,
        EntryLabels
  <1>19. ASSUME NEW t \in Threads, DestroyNextEntry(t) PROVE UnsafeTakesLock'
    BY <1>19, <1>a, <1>b
    DEF DestroyNextEntry, Finish, Goto, At, UnsafeTakesLock, EntryStable,
        EntryLabels
  <1>20. ASSUME NEW t \in Threads, DestroyReturns(t) PROVE UnsafeTakesLock'
    BY <1>20, <1>a, <1>b
    DEF DestroyReturns, Goto, At, UnsafeTakesLock, EntryStable, EntryLabels
  <1>21. ASSUME NEW t \in Threads, CloseEntryModule(t) PROVE UnsafeTakesLock'
    BY <1>21, <1>a, <1>b
    DEF CloseEntryModule, Goto, At, UnsafeTakesLock, EntryStable, EntryLabels
  <1>22. ASSUME NEW t \in Threads, Return(t) PROVE UnsafeTakesLock'
    BY <1>22, <1>a, <1>b
    DEF Return, Goto, At, UnsafeTakesLock, EntryStable, EntryLabels
  <1>23. CASE UNCHANGED vars
    BY <1>23, <1>b
    DEF vars, UnsafeTakesLock, EntryStable, EntryLabels, At, Current, Rt, locals
  <1>24. QED
    BY <1>1, <1>2, <1>3, <1>4, <1>5, <1>6, <1>7, <1>8, <1>9, <1>10, <1>11,
       <1>12, <1>13, <1>14, <1>15, <1>16, <1>17, <1>18, <1>19, <1>20, <1>21,
       <1>22, <1>23
    DEF Next, Step

(* A call mutex is held from supports to the end of its entry, no longer. *)
LEMMA CallLocksStep ==
  ASSUME IInv, [Next]_vars PROVE CallLocksMatch'
  <1>a. /\ CallLocksMatch
        /\ callLock \in [Runtimes -> [Descriptors -> Threads \cup {NoThread}]]
        /\ pc \in [Threads -> Labels]
    BY DEF IInv, LockDiscipline, TypeOK
  <1>b. EntryStable /\ CallOfLabel /\ call \in [Threads -> Calls]
    BY EntryStaysPut DEF IInv, LockDiscipline, TypeOK
  <1>c. \A t \in Threads : InContext(t)
    BY CallContext DEF IInv, LockDiscipline
  <1>d. UnsafeTakesLock
    BY DEF IInv, LockDiscipline
  <1>1. ASSUME NEW t \in Threads, CallRegister(t) PROVE CallLocksMatch'
    BY <1>1, <1>a, <1>b
    DEF CallRegister, Begin, Goto, At, CallLocksMatch, EntryStable, EntryLabels,
        Rt, locks
  <1>2. ASSUME NEW t \in Threads, CallLoad(t) PROVE CallLocksMatch'
    BY <1>2, <1>a, <1>b
    DEF CallLoad, Begin, Goto, At, CallLocksMatch, EntryStable, EntryLabels, Rt,
        locks
  <1>3. ASSUME NEW t \in Threads, CallAnalyze(t) PROVE CallLocksMatch'
    BY <1>3, <1>a, <1>b
    DEF CallAnalyze, Begin, Goto, At, CallLocksMatch, EntryStable, EntryLabels,
        Rt, locks
  <1>4. ASSUME NEW t \in Threads, CallDestroy(t) PROVE CallLocksMatch'
    BY <1>4, <1>a, <1>b
    DEF CallDestroy, Begin, Goto, At, CallLocksMatch, EntryStable, EntryLabels,
        Rt, locks
  <1>5. ASSUME NEW t \in Threads, OpenModule(t) PROVE CallLocksMatch'
    BY <1>5, <1>a, <1>b
    DEF OpenModule, Finish, Goto, At, CallLocksMatch, EntryStable, EntryLabels,
        Rt, locks
  <1>6. ASSUME NEW t \in Threads, ResolveEntry(t) PROVE CallLocksMatch'
    BY <1>6, <1>a, <1>b
    DEF ResolveEntry, Finish, Goto, At, CallLocksMatch, EntryStable,
        EntryLabels, Rt, locks
  <1>7. ASSUME NEW t \in Threads, ValidateDescriptor(t) PROVE CallLocksMatch'
    BY <1>7, <1>a, <1>b
    DEF ValidateDescriptor, Goto, At, CallLocksMatch, EntryStable, EntryLabels,
        Rt, locks
  <1>8. ASSUME NEW t \in Threads, LockExclusive(t) PROVE CallLocksMatch'
    BY <1>8, <1>a, <1>b
    DEF LockExclusive, Goto, At, CallLocksMatch, EntryStable, EntryLabels, Rt,
        locks
  <1>9. ASSUME NEW t \in Threads, FindDuplicate(t) PROVE CallLocksMatch'
    BY <1>9, <1>a, <1>b
    DEF FindDuplicate, UnlockExclusive, Goto, At, CallLocksMatch, EntryStable,
        EntryLabels, Rt, locks
  <1>10. ASSUME NEW t \in Threads, InsertEntry(t) PROVE CallLocksMatch'
    BY <1>10, <1>a, <1>b
    DEF InsertEntry, UnlockExclusive, Finish, Goto, At, CallLocksMatch,
        EntryStable, EntryLabels, Rt, locks
  <1>11. ASSUME NEW t \in Threads, RejectRegistration(t) PROVE CallLocksMatch'
    BY <1>11, <1>a, <1>b
    DEF RejectRegistration, Goto, At, CallLocksMatch, EntryStable, EntryLabels,
        Rt, locks
  <1>12. ASSUME NEW t \in Threads, NextRegion(t) PROVE CallLocksMatch'
    BY <1>12, <1>a, <1>b
    DEF NextRegion, Finish, Goto, At, CallLocksMatch, EntryStable, EntryLabels,
        Rt, locks
  <1>13. ASSUME NEW t \in Threads, LockShared(t) PROVE CallLocksMatch'
    BY <1>13, <1>a, <1>b
    DEF LockShared, Goto, At, CallLocksMatch, EntryStable, EntryLabels, Rt,
        locks
  <1>14. ASSUME NEW t \in Threads, NextEntry(t) PROVE CallLocksMatch'
    <2>1. /\ pc[t] = "route" /\ \A u \in Threads \ {t} : pc'[u] = pc[u]
          /\ \/ pc'[t] \in {"calllock", "builtin"}
             \/ pc'[t] = "supports" /\ Current(t).provider \in ThreadSafe
          /\ call' = call /\ cursor' = cursor /\ entries' = entries
          /\ callLock' = callLock
      BY <1>14, <1>a, <1>b DEF NextEntry, UnlockShared, Goto, At, locks, Rt
    <2>2. Current(t)' = Current(t)
      BY <2>1 DEF Current, Rt
    <2>3. QED
      BY <2>1, <2>2, <1>a, <1>b DEF CallLocksMatch, EntryStable, EntryLabels, Rt
  <1>15. ASSUME NEW t \in Threads, LockCall(t) PROVE CallLocksMatch'
    <2>1. Rt(t) \in Runtimes /\ Current(t).provider \in Descriptors \ ThreadSafe
      BY <1>15, <1>c, <1>d DEF LockCall, At, InContext, EntryLabels, UnsafeTakesLock
    <2>2. \A r \in Runtimes, d \in Descriptors :
            callLock'[r][d] = IF r = Rt(t) /\ d = Current(t).provider THEN t
                              ELSE callLock[r][d]
      BY <1>15, <2>1, <1>a DEF LockCall
    <2>3. /\ callLock[Rt(t)][Current(t).provider] = NoThread
          /\ pc[t] = "calllock" /\ pc' = [pc EXCEPT ![t] = "supports"]
          /\ call' = call /\ cursor' = cursor /\ entries' = entries
      BY <1>15 DEF LockCall, Goto, At
    <2>4. Current(t)' = Current(t)
      BY <2>3 DEF Current, Rt
    <2>5. QED
      BY <2>1, <2>2, <2>3, <2>4, <1>a, <1>b, RegistryAssumption
      DEF CallLocksMatch, EntryStable, EntryLabels, Rt
  <1>16. ASSUME NEW t \in Threads, SupportsReturns(t) PROVE CallLocksMatch'
    <2>1. Rt(t) \in Runtimes /\ Current(t).provider \in Descriptors
      BY <1>16, <1>c DEF SupportsReturns, At, InContext, EntryLabels
    <2>2. /\ call' = call /\ \A u \in Threads \ {t} : pc'[u] = pc[u]
          /\ \/ pc'[t] = "analyze" /\ pc[t] = "supports" /\ callLock' = callLock
             \/ pc'[t] \notin {"supports", "analyze"} /\ UnlockCall(t)
      BY <1>16, <1>a DEF SupportsReturns, Finish, Goto, At
    <2>3. CASE pc'[t] = "analyze" /\ pc[t] = "supports" /\ callLock' = callLock
      BY <2>2, <2>3, <1>a, <1>b DEF CallLocksMatch, EntryStable, EntryLabels, Rt
    <2>4. CASE pc'[t] \notin {"supports", "analyze"} /\ UnlockCall(t)
      <3>1. \A u \in Threads, r \in Runtimes, d \in Descriptors :
              callLock'[r][d] = u <=> u # t /\ callLock[r][d] = u
        BY <2>1, <2>4, <1>a, <1>16, UnlockCallEffect DEF SupportsReturns, At
      <3>2. QED
        BY <3>1, <2>2, <2>4, <1>a, <1>b DEF CallLocksMatch, EntryStable, EntryLabels, Rt
    <2>5. QED
      BY <2>2, <2>3, <2>4
  <1>17. ASSUME NEW t \in Threads, AnalyzeReturns(t) PROVE CallLocksMatch'
    <2>1. Rt(t) \in Runtimes /\ Current(t).provider \in Descriptors
      BY <1>17, <1>c DEF AnalyzeReturns, At, InContext, EntryLabels
    <2>2. /\ call' = call /\ \A u \in Threads \ {t} : pc'[u] = pc[u]
          /\ \/ pc'[t] = "analyze" /\ pc[t] = "supports" /\ callLock' = callLock
             \/ pc'[t] \notin {"supports", "analyze"} /\ UnlockCall(t)
      BY <1>17, <1>a DEF AnalyzeReturns, Finish, Goto, At
    <2>3. CASE pc'[t] = "analyze" /\ pc[t] = "supports" /\ callLock' = callLock
      BY <2>2, <2>3, <1>a, <1>b DEF CallLocksMatch, EntryStable, EntryLabels, Rt
    <2>4. CASE pc'[t] \notin {"supports", "analyze"} /\ UnlockCall(t)
      <3>1. \A u \in Threads, r \in Runtimes, d \in Descriptors :
              callLock'[r][d] = u <=> u # t /\ callLock[r][d] = u
        BY <2>1, <2>4, <1>a, <1>17, UnlockCallEffect DEF AnalyzeReturns, At
      <3>2. QED
        BY <3>1, <2>2, <2>4, <1>a, <1>b DEF CallLocksMatch, EntryStable, EntryLabels, Rt
    <2>5. QED
      BY <2>2, <2>3, <2>4
  <1>18. ASSUME NEW t \in Threads, BuiltInReturns(t) PROVE CallLocksMatch'
    BY <1>18, <1>a, <1>b
    DEF BuiltInReturns, Finish, Goto, At, CallLocksMatch, EntryStable,
        EntryLabels, Rt, locks
  <1>19. ASSUME NEW t \in Threads, DestroyNextEntry(t) PROVE CallLocksMatch'
    BY <1>19, <1>a, <1>b
    DEF DestroyNextEntry, Finish, Goto, At, CallLocksMatch, EntryStable,
        EntryLabels, Rt, locks
  <1>20. ASSUME NEW t \in Threads, DestroyReturns(t) PROVE CallLocksMatch'
    BY <1>20, <1>a, <1>b
    DEF DestroyReturns, Goto, At, CallLocksMatch, EntryStable, EntryLabels, Rt,
        locks
  <1>21. ASSUME NEW t \in Threads, CloseEntryModule(t) PROVE CallLocksMatch'
    BY <1>21, <1>a, <1>b
    DEF CloseEntryModule, Goto, At, CallLocksMatch, EntryStable, EntryLabels,
        Rt, locks
  <1>22. ASSUME NEW t \in Threads, Return(t) PROVE CallLocksMatch'
    BY <1>22, <1>a, <1>b
    DEF Return, Goto, At, CallLocksMatch, EntryStable, EntryLabels, Rt, locks
  <1>23. CASE UNCHANGED vars
    BY <1>23, <1>a
    DEF vars, CallLocksMatch, EntryStable, EntryLabels, Rt, locks, locals,
        Current
  <1>24. QED
    BY <1>1, <1>2, <1>3, <1>4, <1>5, <1>6, <1>7, <1>8, <1>9, <1>10, <1>11,
       <1>12, <1>13, <1>14, <1>15, <1>16, <1>17, <1>18, <1>19, <1>20, <1>21,
       <1>22, <1>23
    DEF Next, Step

(* The inductive invariant holds in every behaviour. *)
LEMMA InvariantHolds == Spec => []IInv
  <1>1. Init => IInv
    <2>1. Init => TypeOK
      BY RegistryAssumption, NoCallTyped DEF Init, TypeOK, Labels
    <2>2. Init => LockDiscipline
      BY RegistryAssumption, NoCallTyped
      DEF Init, LockDiscipline, CallOfLabel, CursorInRange, WriterMatches, ReadersMatch,
          UnsafeTakesLock, CallLocksMatch, WriterExcludesReaders, DestroyerIsAlone, At,
          LoadLabels, RegisterLabels, AnalyzeLabels, ReaderLabels, EntryLabels,
          DestroyLabels, WriterLabels
    <2>3. QED
      BY <2>1, <2>2 DEF IInv
  <1>2. IInv /\ [Next]_vars => IInv'
    BY TypeStep, CallOfLabelStep, CursorStep, WriterStep, ReadersStep, UnsafeStep,
       CallLocksStep, ExclusionStep, DestroyerStep DEF IInv, LockDiscipline
  <1>3. QED
    BY <1>1, <1>2, PTL DEF Spec

(* Every variable keeps its type, whatever the threads do. *)
THEOREM TypeCorrect == Spec => []TypeOK
  BY InvariantHolds, PTL DEF IInv

(* Locks, labels and cursors agree on every path through the registry. *)
THEOREM LocksDisciplined == Spec => []LockDiscipline
  BY InvariantHolds, PTL DEF IInv

(* Two threads of a runtime are never inside the callbacks of one provider *)
(* unless it declared itself thread-safe (provider_registry.cpp:306).      *)
THEOREM CallbacksExclusive == Spec => []CallbackExclusion
  <1>1. LockDiscipline => CallbackExclusion
    BY DEF LockDiscipline, CallbackExclusion, InCallback, CallbackLabels, CallLocksMatch,
           CallOfLabel, DestroyerIsAlone, DestroyLabels, At
  <1>2. QED
    BY <1>1, LocksDisciplined, PTL

(* What one step may do to the entries of a runtime with readers: nothing *)
NoEntryMoves == \A r \in Runtimes : readers[r] # {} => entries'[r] = entries[r]

(* Only an insertion and a destruction touch entries, and both exclude readers. *)
LEMMA RoutingStep ==
  ASSUME IInv, [Next]_vars PROVE NoEntryMoves
  <1>a. TypeOK /\ LockDiscipline
    BY DEF IInv
  <1>b. \A t \in Threads : InContext(t)
    BY <1>a, CallContext DEF LockDiscipline
  <1>1. ASSUME NEW t \in Threads, CallRegister(t) PROVE NoEntryMoves
    BY <1>1 DEF CallRegister, Begin, Goto, At, NoEntryMoves
  <1>2. ASSUME NEW t \in Threads, CallLoad(t) PROVE NoEntryMoves
    BY <1>2 DEF CallLoad, Begin, Goto, At, NoEntryMoves
  <1>3. ASSUME NEW t \in Threads, CallAnalyze(t) PROVE NoEntryMoves
    BY <1>3 DEF CallAnalyze, Begin, Goto, At, NoEntryMoves
  <1>4. ASSUME NEW t \in Threads, CallDestroy(t) PROVE NoEntryMoves
    BY <1>4 DEF CallDestroy, Begin, Goto, At, NoEntryMoves
  <1>5. ASSUME NEW t \in Threads, OpenModule(t) PROVE NoEntryMoves
    BY <1>5 DEF OpenModule, Finish, Goto, At, NoEntryMoves
  <1>6. ASSUME NEW t \in Threads, ResolveEntry(t) PROVE NoEntryMoves
    BY <1>6 DEF ResolveEntry, Finish, Goto, At, NoEntryMoves
  <1>7. ASSUME NEW t \in Threads, ValidateDescriptor(t) PROVE NoEntryMoves
    BY <1>7 DEF ValidateDescriptor, Goto, At, NoEntryMoves
  <1>8. ASSUME NEW t \in Threads, LockExclusive(t) PROVE NoEntryMoves
    BY <1>8 DEF LockExclusive, Goto, At, NoEntryMoves
  <1>9. ASSUME NEW t \in Threads, FindDuplicate(t) PROVE NoEntryMoves
    BY <1>9 DEF FindDuplicate, UnlockExclusive, Goto, At, NoEntryMoves
  <1>10. ASSUME NEW t \in Threads, InsertEntry(t) PROVE NoEntryMoves
    <2>1. Rt(t) \in Runtimes /\ writer[Rt(t)] = t
      BY <1>10, <1>a, <1>b DEF InsertEntry, InContext, At, LockDiscipline, WriterMatches, WriterLabels
    <2>2. readers[Rt(t)] = {}
      BY <2>1, <1>a, RegistryAssumption DEF LockDiscipline, WriterExcludesReaders
    <2>3. \A r \in Runtimes \ {Rt(t)} : entries'[r] = entries[r]
      BY <1>10, <1>a DEF InsertEntry, TypeOK
    <2>4. QED
      BY <2>2, <2>3 DEF NoEntryMoves
  <1>11. ASSUME NEW t \in Threads, RejectRegistration(t) PROVE NoEntryMoves
    BY <1>11 DEF RejectRegistration, Goto, At, NoEntryMoves
  <1>12. ASSUME NEW t \in Threads, NextRegion(t) PROVE NoEntryMoves
    BY <1>12 DEF NextRegion, Finish, Goto, At, NoEntryMoves
  <1>13. ASSUME NEW t \in Threads, LockShared(t) PROVE NoEntryMoves
    BY <1>13 DEF LockShared, Goto, At, NoEntryMoves
  <1>14. ASSUME NEW t \in Threads, NextEntry(t) PROVE NoEntryMoves
    BY <1>14 DEF NextEntry, UnlockShared, Goto, At, NoEntryMoves
  <1>15. ASSUME NEW t \in Threads, LockCall(t) PROVE NoEntryMoves
    BY <1>15 DEF LockCall, Goto, At, NoEntryMoves
  <1>16. ASSUME NEW t \in Threads, SupportsReturns(t) PROVE NoEntryMoves
    BY <1>16
    DEF SupportsReturns, UnlockCall, UnlockShared, Finish, Goto, At,
        NoEntryMoves
  <1>17. ASSUME NEW t \in Threads, AnalyzeReturns(t) PROVE NoEntryMoves
    BY <1>17
    DEF AnalyzeReturns, UnlockCall, UnlockShared, Finish, Goto, At, NoEntryMoves
  <1>18. ASSUME NEW t \in Threads, BuiltInReturns(t) PROVE NoEntryMoves
    BY <1>18 DEF BuiltInReturns, Finish, Goto, At, NoEntryMoves
  <1>19. ASSUME NEW t \in Threads, DestroyNextEntry(t) PROVE NoEntryMoves
    BY <1>19 DEF DestroyNextEntry, Finish, Goto, At, NoEntryMoves
  <1>20. ASSUME NEW t \in Threads, DestroyReturns(t) PROVE NoEntryMoves
    BY <1>20 DEF DestroyReturns, Goto, At, NoEntryMoves
  <1>21. ASSUME NEW t \in Threads, CloseEntryModule(t) PROVE NoEntryMoves
    <2>1. Rt(t) \in Runtimes /\ call[t].op = "destroy" /\ pc[t] = "close"
      BY <1>21, <1>a, <1>b
      DEF CloseEntryModule, InContext, At, LockDiscipline, CallOfLabel, DestroyLabels
    <2>2. readers[Rt(t)] = {}
      BY <2>1, <1>a
      DEF TypeOK, LockDiscipline, ReadersMatch, DestroyerIsAlone, ReaderLabels, EntryLabels, At
    <2>3. \A r \in Runtimes \ {Rt(t)} : entries'[r] = entries[r]
      BY <1>21, <1>a DEF CloseEntryModule, TypeOK
    <2>4. QED
      BY <2>2, <2>3 DEF NoEntryMoves
  <1>22. ASSUME NEW t \in Threads, Return(t) PROVE NoEntryMoves
    BY <1>22 DEF Return, Goto, At, NoEntryMoves
  <1>23. CASE UNCHANGED vars
    BY <1>23 DEF vars, NoEntryMoves
  <1>24. QED
    BY <1>1, <1>2, <1>3, <1>4, <1>5, <1>6, <1>7, <1>8, <1>9, <1>10, <1>11,
       <1>12, <1>13, <1>14, <1>15, <1>16, <1>17, <1>18, <1>19, <1>20, <1>21,
       <1>22, <1>23
    DEF Next, Step

(* No registration slips in between two entries a routing thread looks at  *)
(* (the shared and exclusive locks of provider_registry.cpp:274 and 303).  *)
THEOREM RoutingUndisturbed == Spec => RoutingSeesFixedEntries
  <1>1. IInv /\ [Next]_vars => [\A r \in Runtimes : readers[r] # {} => entries'[r] = entries[r]]_vars
    BY RoutingStep DEF NoEntryMoves
  <1>2. QED
    BY <1>1, InvariantHolds, PTL DEF Spec, RoutingSeesFixedEntries

-----------------------------------------------------------------------------
(* Names: the duplicate check is still true when the entry is inserted *)
CheckedName == \A t \in Threads : At(t, "insert") => ~NameTaken(Rt(t), Candidate(t))

(* The inductive invariant for names *)
NamesInv == UniqueNames /\ CheckedName

(* What is left of a sequence without its i-th element, index by index *)
LEMMA WithoutEntryElements ==
  ASSUME NEW S, NEW s \in Seq(S), NEW i \in DOMAIN s
  PROVE  /\ Len(WithoutEntry(s, i)) = Len(s) - 1
         /\ \A j \in DOMAIN WithoutEntry(s, i) :
              /\ j \in Nat
              /\ j < i => j \in DOMAIN s /\ WithoutEntry(s, i)[j] = s[j]
              /\ j >= i => j + 1 \in DOMAIN s /\ WithoutEntry(s, i)[j] = s[j + 1]
  <1> DEFINE front == SubSeq(s, 1, i - 1)
             back == SubSeq(s, i + 1, Len(s))
  <1>1. i \in 1..Len(s) /\ Len(s) \in Nat
    OBVIOUS
  <1>2. front \in Seq(S) /\ Len(front) = i - 1 /\ \A j \in 1..(i - 1) : front[j] = s[j]
    BY <1>1
  <1>3. back \in Seq(S) /\ Len(back) = Len(s) - i
        /\ \A j \in 1..(Len(s) - i) : back[j] = s[i + j]
    BY <1>1
  <1>4. /\ Len(front \o back) = Len(front) + Len(back)
        /\ \A j \in 1..(Len(front) + Len(back)) :
             (front \o back)[j] = IF j <= Len(front) THEN front[j] ELSE back[j - Len(front)]
    <2> HIDE DEF front, back
    <2>1. QED
      BY <1>2, <1>3, ConcatProperties
  <1>5. /\ Len(front \o back) = Len(s) - 1
        /\ \A j \in 1..(Len(s) - 1) :
             (front \o back)[j] = IF j < i THEN s[j] ELSE s[j + 1]
    <2> HIDE DEF front, back
    <2>1. \A j \in 1..(Len(s) - 1) : j < i =>
            j \in 1..(i - 1) /\ (front \o back)[j] = front[j]
      BY <1>1, <1>2, <1>3, <1>4
    <2>2. \A j \in 1..(Len(s) - 1) : ~(j < i) =>
            /\ j - (i - 1) \in 1..(Len(s) - i) /\ i + (j - (i - 1)) = j + 1
            /\ ~(j <= i - 1) /\ j \in 1..((i - 1) + (Len(s) - i))
      BY <1>1
    <2>3. ASSUME NEW j \in 1..(Len(s) - 1), ~(j < i)
          PROVE  (front \o back)[j] = s[j + 1]
      <3>1. (front \o back)[j] = back[j - (i - 1)]
        BY <2>2, <2>3, <1>2, <1>3, <1>4
      <3>2. back[j - (i - 1)] = s[i + (j - (i - 1))]
        BY <2>2, <2>3, <1>3
      <3>3. QED
        BY <2>2, <2>3, <3>1, <3>2
    <2>4. \A j \in 1..(Len(s) - 1) : j < i => (front \o back)[j] = s[j]
      BY <1>2, <2>1
    <2>5. Len(front \o back) = Len(s) - 1
      <3>1. Len(front \o back) = (i - 1) + (Len(s) - i)
        BY <1>2, <1>3, <1>4
      <3>2. QED
        BY <1>1, <3>1
    <2>6. QED
      BY <2>3, <2>4, <2>5
  <1>6. WithoutEntry(s, i) = front \o back
    BY DEF WithoutEntry
  <1>7. WithoutEntry(s, i) \in Seq(S)
    BY WithoutEntryTyped
  <1>8. DOMAIN WithoutEntry(s, i) = 1..(Len(s) - 1)
    BY <1>5, <1>6, <1>7
  <1>9. QED
    <2> HIDE DEF front, back
    <2>1. QED
      BY <1>1, <1>5, <1>6, <1>8

(* What every step but an insertion and a removal leaves alone *)
NamesFrame ==
  /\ entries' = entries
  /\ \A u \in Threads : pc'[u] = "insert" => pc[u] = "insert" /\ call'[u] = call[u]

(* Steps that touch neither entries nor inserters keep the names unique. *)
LEMMA FrameKeepsNames == NamesInv /\ NamesFrame => NamesInv'
  BY DEF NamesInv, NamesFrame, UniqueNames, CheckedName, NameTaken, Candidate, Rt, At

(* Every step keeps names unique, the insertion by the check before it. *)
LEMMA NamesStep ==
  ASSUME IInv, NamesInv, [Next]_vars PROVE NamesInv'
  <1>a. TypeOK /\ LockDiscipline
    BY DEF IInv
  <1>b. \A t \in Threads : InContext(t)
    BY <1>a, CallContext DEF LockDiscipline
  <1>c. /\ pc \in [Threads -> Labels] /\ call \in [Threads -> Calls]
        /\ entries \in [Runtimes -> Seq(Entry)]
    BY <1>a DEF TypeOK
  <1>1. ASSUME NEW t \in Threads, CallRegister(t) PROVE NamesInv'
    BY <1>1, <1>c, FrameKeepsNames DEF CallRegister, Begin, Goto, At, NamesFrame
  <1>2. ASSUME NEW t \in Threads, CallLoad(t) PROVE NamesInv'
    BY <1>2, <1>c, FrameKeepsNames DEF CallLoad, Begin, Goto, At, NamesFrame
  <1>3. ASSUME NEW t \in Threads, CallAnalyze(t) PROVE NamesInv'
    BY <1>3, <1>c, FrameKeepsNames DEF CallAnalyze, Begin, Goto, At, NamesFrame
  <1>4. ASSUME NEW t \in Threads, CallDestroy(t) PROVE NamesInv'
    BY <1>4, <1>c, FrameKeepsNames DEF CallDestroy, Begin, Goto, At, NamesFrame
  <1>5. ASSUME NEW t \in Threads, OpenModule(t) PROVE NamesInv'
    BY <1>5, <1>c, FrameKeepsNames DEF OpenModule, Finish, Goto, At, NamesFrame
  <1>6. ASSUME NEW t \in Threads, ResolveEntry(t) PROVE NamesInv'
    BY <1>6, <1>c, FrameKeepsNames
    DEF ResolveEntry, Finish, Goto, At, NamesFrame
  <1>7. ASSUME NEW t \in Threads, ValidateDescriptor(t) PROVE NamesInv'
    BY <1>7, <1>c, FrameKeepsNames DEF ValidateDescriptor, Goto, At, NamesFrame
  <1>8. ASSUME NEW t \in Threads, LockExclusive(t) PROVE NamesInv'
    BY <1>8, <1>c, FrameKeepsNames DEF LockExclusive, Goto, At, NamesFrame
  <1>9. ASSUME NEW t \in Threads, FindDuplicate(t) PROVE NamesInv'
    <2>1. /\ call' = call /\ entries' = entries
          /\ \A u \in Threads \ {t} : pc'[u] = pc[u]
          /\ pc'[t] = "insert" => ~NameTaken(Rt(t), Candidate(t))
      BY <1>9, <1>c DEF FindDuplicate, Goto, At
    <2>2. QED
      BY <2>1 DEF NamesInv, UniqueNames, CheckedName, NameTaken, Candidate, Rt, At
  <1>10. ASSUME NEW t \in Threads, InsertEntry(t) PROVE NamesInv'
    <2>1. Rt(t) \in Runtimes /\ At(t, "insert") /\ Candidate(t) \in Descriptors
      BY <1>10, <1>b DEF InsertEntry, InContext, At, LoadLabels, RegisterLabels
    <2>2. \A u \in Threads \ {t} : ~(At(u, "insert") /\ Rt(u) = Rt(t))
      BY <2>1, <1>a DEF LockDiscipline, WriterMatches, WriterLabels, At
    <2>3. /\ call' = call /\ \A u \in Threads \ {t} : pc'[u] = pc[u]
          /\ pc'[t] # "insert"
      BY <1>10, <1>c DEF InsertEntry, Finish, Goto
    <2>4. \A r \in Runtimes \ {Rt(t)} : entries'[r] = entries[r]
      BY <1>10, <1>c DEF InsertEntry
    <2>5. CheckedName'
      <3>1. \A u \in Threads \ {t} : At(u, "insert") => Rt(u) \in Runtimes
        BY <1>b DEF InContext, At
      <3>2. QED
        BY <2>2, <2>3, <2>4, <3>1 DEF NamesInv, CheckedName, NameTaken, Candidate, Rt, At
    <2>6. UniqueNames'
      <3> DEFINE e == [provider |-> Candidate(t), module |-> Origin(t)]
      <3>1. CASE entries' = entries
        BY <3>1 DEF NamesInv, UniqueNames
      <3>2. CASE entries'[Rt(t)] = Append(entries[Rt(t)], e)
        <4>1. ~NameTaken(Rt(t), Candidate(t)) /\ UniqueNames
          BY <2>1 DEF NamesInv, CheckedName
        <4>2. \A i \in DOMAIN entries'[Rt(t)] :
                \/ i \in DOMAIN entries[Rt(t)] /\ entries'[Rt(t)][i] = entries[Rt(t)][i]
                \/ i = Len(entries[Rt(t)]) + 1 /\ entries'[Rt(t)][i].provider = Candidate(t)
          BY <3>2, <2>1, <1>c
        <4>3. \A i, j \in DOMAIN entries'[Rt(t)] :
                NameOf[entries'[Rt(t)][i].provider] = NameOf[entries'[Rt(t)][j].provider]
                  => i = j
          BY <4>1, <4>2, <2>1 DEF UniqueNames, NameTaken
        <4>4. QED
          BY <4>1, <4>3, <2>4 DEF UniqueNames
      <3>3. QED
        BY <1>10, <3>1, <3>2, <2>1, <1>c DEF InsertEntry
    <2>7. QED
      BY <2>5, <2>6 DEF NamesInv
  <1>11. ASSUME NEW t \in Threads, RejectRegistration(t) PROVE NamesInv'
    BY <1>11, <1>c, FrameKeepsNames DEF RejectRegistration, Goto, At, NamesFrame
  <1>12. ASSUME NEW t \in Threads, NextRegion(t) PROVE NamesInv'
    BY <1>12, <1>c, FrameKeepsNames DEF NextRegion, Finish, Goto, At, NamesFrame
  <1>13. ASSUME NEW t \in Threads, LockShared(t) PROVE NamesInv'
    BY <1>13, <1>c, FrameKeepsNames DEF LockShared, Goto, At, NamesFrame
  <1>14. ASSUME NEW t \in Threads, NextEntry(t) PROVE NamesInv'
    BY <1>14, <1>c, FrameKeepsNames
    DEF NextEntry, UnlockShared, Goto, At, NamesFrame
  <1>15. ASSUME NEW t \in Threads, LockCall(t) PROVE NamesInv'
    BY <1>15, <1>c, FrameKeepsNames DEF LockCall, Goto, At, NamesFrame
  <1>16. ASSUME NEW t \in Threads, SupportsReturns(t) PROVE NamesInv'
    BY <1>16, <1>c, FrameKeepsNames
    DEF SupportsReturns, UnlockCall, UnlockShared, Finish, Goto, At, NamesFrame
  <1>17. ASSUME NEW t \in Threads, AnalyzeReturns(t) PROVE NamesInv'
    BY <1>17, <1>c, FrameKeepsNames
    DEF AnalyzeReturns, UnlockCall, UnlockShared, Finish, Goto, At, NamesFrame
  <1>18. ASSUME NEW t \in Threads, BuiltInReturns(t) PROVE NamesInv'
    BY <1>18, <1>c, FrameKeepsNames
    DEF BuiltInReturns, Finish, Goto, At, NamesFrame
  <1>19. ASSUME NEW t \in Threads, DestroyNextEntry(t) PROVE NamesInv'
    BY <1>19, <1>c, FrameKeepsNames
    DEF DestroyNextEntry, Finish, Goto, At, NamesFrame
  <1>20. ASSUME NEW t \in Threads, DestroyReturns(t) PROVE NamesInv'
    BY <1>20, <1>c, FrameKeepsNames DEF DestroyReturns, Goto, At, NamesFrame
  <1>21. ASSUME NEW t \in Threads, CloseEntryModule(t) PROVE NamesInv'
    <2>1. /\ Rt(t) \in Runtimes /\ call[t].op = "destroy" /\ pc[t] = "close"
          /\ cursor[t] \in DOMAIN entries[Rt(t)]
      BY <1>21, <1>a, <1>b
      DEF CloseEntryModule, InContext, At, LockDiscipline, CallOfLabel, DestroyLabels,
          CursorInRange
    <2>2. /\ call' = call /\ \A u \in Threads \ {t} : pc'[u] = pc[u]
          /\ pc'[t] # "insert"
          /\ entries'[Rt(t)] = WithoutEntry(entries[Rt(t)], cursor[t])
          /\ \A r \in Runtimes \ {Rt(t)} : entries'[r] = entries[r]
      BY <1>21, <2>1, <1>c DEF CloseEntryModule, Goto
    <2>3. CheckedName'
      <3>1. \A u \in Threads \ {t} : At(u, "insert") => Rt(u) \in Runtimes \ {Rt(t)}
        BY <1>a, <1>b, <2>1 DEF InContext, At, LockDiscipline, DestroyerIsAlone
      <3>2. QED
        BY <2>2, <3>1 DEF NamesInv, CheckedName, NameTaken, Candidate, Rt, At
    <2>4. UniqueNames'
      <3> DEFINE s == entries[Rt(t)]
                 w == WithoutEntry(s, cursor[t])
      <3>1. /\ cursor[t] \in Nat
            /\ \A j \in DOMAIN w :
                 /\ j \in Nat
                 /\ j < cursor[t] => j \in DOMAIN s /\ w[j] = s[j]
                 /\ j >= cursor[t] => j + 1 \in DOMAIN s /\ w[j] = s[j + 1]
        BY <2>1, <1>a, WithoutEntryElements DEF TypeOK
      <3>2. \A i, j \in DOMAIN s : NameOf[s[i].provider] = NameOf[s[j].provider] => i = j
        BY <2>1 DEF NamesInv, UniqueNames
      <3>3. \A i, j \in DOMAIN w : NameOf[w[i].provider] = NameOf[w[j].provider] => i = j
        <4> HIDE DEF s, w
        <4>1. QED
          BY <3>1, <3>2
      <3>4. QED
        BY <2>2, <3>3 DEF NamesInv, UniqueNames
    <2>5. QED
      BY <2>3, <2>4 DEF NamesInv
  <1>22. ASSUME NEW t \in Threads, Return(t) PROVE NamesInv'
    BY <1>22, <1>c, FrameKeepsNames DEF Return, Goto, At, NamesFrame
  <1>23. CASE UNCHANGED vars
    BY <1>23, FrameKeepsNames DEF vars, NamesFrame, locals
  <1>24. QED
    BY <1>1, <1>2, <1>3, <1>4, <1>5, <1>6, <1>7, <1>8, <1>9, <1>10, <1>11,
       <1>12, <1>13, <1>14, <1>15, <1>16, <1>17, <1>18, <1>19, <1>20, <1>21,
       <1>22, <1>23
    DEF Next, Step

(* Whatever registrations and loads race for it, a name is taken once *)
(* (the check and the insertion of provider_registry.cpp:274-282).    *)
THEOREM NamesUnique == Spec => []UniqueNames
  <1>1. Init => NamesInv
    BY DEF Init, NamesInv, UniqueNames, CheckedName, At
  <1>2. IInv /\ NamesInv /\ [Next]_vars => NamesInv'
    BY NamesStep
  <1>3. NamesInv => UniqueNames
    BY DEF NamesInv
  <1>4. QED
    BY <1>1, <1>2, <1>3, InvariantHolds, PTL DEF Spec
=============================================================================
