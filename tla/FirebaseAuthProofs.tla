------------------------- MODULE FirebaseAuthProofs -------------------------
(***************************************************************************)
(* Proofs about FirebaseAuth, for every number of requests: the double-    *)
(* checked registration happens once and every answer fits its request.    *)
(***************************************************************************)
EXTENDS FirebaseAuth, TLAPS

\* AuthInv is inductive (api/auth.py:30-79).
THEOREM AuthInvariant == Spec => []AuthInv
<1> USE NoneAssumption DEF Goto, Finish, Headers, Answers
<1>1. Init => AuthInv
  BY DEF Init, AuthInv, TypeOK, LockInv, RegistersOnce, AnswersFit
<1>2. AuthInv /\ [Next]_vars => AuthInv'
  <2> SUFFICES ASSUME AuthInv, [Next]_vars
               PROVE  AuthInv'
    OBVIOUS
  <2> USE DEF AuthInv, TypeOK, LockInv, RegistersOnce, AnswersFit
  <2>1. CASE UNCHANGED vars
    BY <2>1 DEF vars
  <2>2. ASSUME NEW t \in Threads, ReadHeader(t)
        PROVE  AuthInv'
    BY <2>2 DEF ReadHeader
  <2>3. ASSUME NEW t \in Threads, Peek(t)
        PROVE  AuthInv'
    BY <2>3 DEF Peek
  <2>4. ASSUME NEW t \in Threads, Acquire(t)
        PROVE  AuthInv'
    BY <2>4 DEF Acquire
  <2>5. ASSUME NEW t \in Threads, Recheck(t)
        PROVE  AuthInv'
    BY <2>5 DEF Recheck
  <2>6. ASSUME NEW t \in Threads, Register(t)
        PROVE  AuthInv'
    BY <2>6 DEF Register
  <2>7. ASSUME NEW t \in Threads, RegisterFails(t)
        PROVE  AuthInv'
    BY <2>7 DEF RegisterFails
  <2>8. ASSUME NEW t \in Threads, Verify(t)
        PROVE  AuthInv'
    BY <2>8 DEF Verify
  <2> QED
    BY <2>1, <2>2, <2>3, <2>4, <2>5, <2>6, <2>7, <2>8 DEF Next, Step
<1> QED
  BY <1>1, <1>2, PTL DEF Spec

\* initialize_app is called by one thread only, and no request with good settings
\* ends in a server error.
THEOREM RegistrationSafe == Spec => [](RegistersOnce /\ AnswersFit)
<1>1. AuthInv => RegistersOnce /\ AnswersFit
  BY DEF AuthInv
<1> QED
  BY <1>1, AuthInvariant, PTL
=============================================================================
