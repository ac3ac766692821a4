\* Two threads, one runtime: routing against registration, loading and destruction;
\* every call returns.
SPECIFICATION FairSpec
CONSTANTS
  t1 = t1
  t2 = t2
  r1 = r1
  r2 = r2
  Threads <- MCThreads2
  Runtimes <- MCOneRuntime
  Descriptors <- MCDescriptors
  Modules <- MCModules
  Languages <- MCLanguages
  NameOf <- MCNameOf
  Claims <- MCClaims
  EntryPoint <- MCEntryPoint
  NoModule = NoModule
  BuiltIn = BuiltIn
  Plans <- MCPlans
  Static <- MCStatic
  ThreadSafe <- MCThreadSafe
  Incompatible <- MCIncompatible
  ContextOf <- MCContextOf
  DynamicLoading = TRUE
  NoThread = NoThread
  MaxCalls = 3
INVARIANTS
  TypeOK
  CallbackExclusion
  UniqueNames
  StickyRouting
PROPERTIES
  RoutingSeesFixedEntries
  ImplementsService
  EveryCallReturns
\* Every thread stops once it has made MaxCalls calls.
CHECK_DEADLOCK FALSE
