\* Two runtimes load one module: is its context serialized?
SPECIFICATION Spec
CONSTANTS
  t1 = t1
  t2 = t2
  r1 = r1
  r2 = r2
  Threads <- MCThreads2
  Runtimes <- MCTwoRuntimes
  Descriptors <- MCDescriptors
  Modules <- MCModules
  Languages <- MCLanguages
  NameOf <- MCNameOf
  Claims <- MCClaims
  EntryPoint <- MCEntryPoint
  NoModule = NoModule
  BuiltIn = BuiltIn
  Plans <- MCOnePlan
  Static <- MCNoStatic
  ThreadSafe <- MCThreadSafe
  Incompatible <- MCIncompatible
  ContextOf <- MCContextOf
  DynamicLoading = TRUE
  NoThread = NoThread
  MaxCalls = 3
INVARIANTS
  ContextsSerialized
\* Every thread stops once it has made MaxCalls calls.
CHECK_DEADLOCK FALSE
