------------------------- MODULE LoadingErrorProofs -------------------------
(***************************************************************************)
(* Proofs about LoadingError for every value of MaxFn and MaxFetches.      *)
(***************************************************************************)
EXTENDS LoadingError, SequenceTheorems, TLAPS

(***************************************************************************)
(* With a memoised fetchFn the retry icon is the only way to start a      *)
(* fetch, and it is rendered only once loading is over.  So every fetch    *)
(* but the latest has run its .finally callback, and the three state      *)
(* hooks follow the latest fetch alone.  RenderMatchesLatestFetch is not   *)
(* inductive by itself: it says nothing while loading, and it is the      *)
(* bookkeeping of the fetches in flight that keeps it true afterwards.    *)
(***************************************************************************)
OnlyLatestInFlight ==
    \A i \in 1..Len(fetches) - 1 : fetches[i].finished

FinishedAreSettled ==
    \A i \in 1..Len(fetches) : fetches[i].finished => fetches[i].result # "pending"

AllOfCurrentFn ==
    \A i \in 1..Len(fetches) : fetches[i].gen = fn

HooksFollowLatest ==
    mounted =>
        /\ loading <=> ~Latest.finished
        /\ Latest.result = "ok" => data = Len(fetches) /\ ~error
        /\ Latest.result = "err" => errorMessage = Len(fetches) /\ error
        /\ Latest.result = "pending" => ~error

IInv ==
    /\ TypeOK
    /\ OnlyLatestInFlight
    /\ FinishedAreSettled
    /\ AllOfCurrentFn
    /\ HooksFollowLatest

-----------------------------------------------------------------------------
(* Type correctness, for the full specification (prop changes included).  *)

\* Updating one field of one fetch keeps a sequence of fetches.
LEMMA SetFieldInSeq ==
  ASSUME NEW s \in Seq(Fetch), NEW i \in 1..Len(s),
         NEW v \in {"pending", "ok", "err"}, NEW b \in BOOLEAN
  PROVE  /\ [s EXCEPT ![i].result = v] \in Seq(Fetch)
         /\ Len([s EXCEPT ![i].result = v]) = Len(s)
         /\ [s EXCEPT ![i].finished = b] \in Seq(Fetch)
         /\ Len([s EXCEPT ![i].finished = b]) = Len(s)
<1>1. s[i] \in Fetch
  BY ElementOfSeq
<1>2. [s[i] EXCEPT !.result = v] \in Fetch /\ [s[i] EXCEPT !.finished = b] \in Fetch
  BY <1>1 DEF Fetch
<1>3. QED
  BY <1>2, ExceptSeq

\* TypeOK split into the boolean state hooks (Zenon's part) and the rest
\* (arithmetic and sequences, the SMT solver's part).
HooksTyped ==
    /\ loading \in BOOLEAN
    /\ error \in BOOLEAN
    /\ mounted \in BOOLEAN

ValuesTyped ==
    /\ errorMessage \in {NoMessage} \cup FetchIds
    /\ data \in {Undefined, Null} \cup FetchIds
    /\ fn \in 1..MaxFn
    /\ fetches \in Seq(Fetch)
    /\ Len(fetches) \in 1..MaxFetches

LEMMA TypeOKSplit == TypeOK <=> HooksTyped /\ ValuesTyped
  BY DEF TypeOK, HooksTyped, ValuesTyped

\* fetchLoad appends a well-typed fetch without passing the bound.
LEMMA FetchLoadTyped ==
  ASSUME TypeOK, NEW g \in 1..MaxFn, FetchLoad(g)
  PROVE  fetches' \in Seq(Fetch) /\ Len(fetches') \in 1..MaxFetches
<1>1. [gen |-> g, result |-> "pending", finished |-> FALSE] \in Fetch
  BY Zenon DEF Fetch
<1>2. QED
  BY <1>1, AppendProperties, BoundsAssumption DEF FetchLoad, TypeOK

\* The state after mounting is well typed.
LEMMA InitTypeOK == Init => TypeOK
<1> SUFFICES ASSUME Init PROVE HooksTyped /\ ValuesTyped
  BY TypeOKSplit
<1>1. HooksTyped
  BY Zenon DEF Init, HooksTyped
<1>2. [gen |-> 1, result |-> "pending", finished |-> FALSE] \in Fetch
  BY BoundsAssumption DEF Fetch
<1>3. fetches \in Seq(Fetch) /\ Len(fetches) = 1
  BY <1>2, EmptySeq, AppendProperties DEF Init
<1>4. ValuesTyped
  BY <1>3, BoundsAssumption DEF Init, ValuesTyped, FetchIds, NoMessage, Undefined, Null
<1>5. QED
  BY <1>1, <1>4

\* Every step of the full specification keeps the types.
LEMMA NextTypeOK == TypeOK /\ [Next]_vars => TypeOK'
<1> SUFFICES ASSUME TypeOK, [Next]_vars PROVE HooksTyped' /\ ValuesTyped'
  BY DEF TypeOK, HooksTyped, ValuesTyped
<1>1. HooksTyped'
  BY Zenon DEF TypeOK, HooksTyped, Next, vars, ChangeFetchFn, Retry, Unmount,
               Callbacks, Settle, Then, Catch, Finally, FetchLoad, SetState
<1>2. ASSUME ChangeFetchFn PROVE ValuesTyped'
  <2>1. fn + 1 \in 1..MaxFn
    BY <1>2, BoundsAssumption DEF ChangeFetchFn, TypeOK
  <2>2. fetches' \in Seq(Fetch) /\ Len(fetches') \in 1..MaxFetches
    BY <1>2, <2>1, FetchLoadTyped DEF ChangeFetchFn
  <2>3. QED
    BY <1>2, <2>1, <2>2 DEF ChangeFetchFn, TypeOK, ValuesTyped, NoMessage, Undefined, Null, FetchIds
<1>3. ASSUME Retry PROVE ValuesTyped'
  BY <1>3, FetchLoadTyped DEF Retry, TypeOK, ValuesTyped
<1>4. ASSUME Unmount PROVE ValuesTyped'
  BY <1>4 DEF Unmount, TypeOK, ValuesTyped
<1>5. ASSUME NEW i \in 1..Len(fetches), Then(i) PROVE ValuesTyped'
  <2>1. fetches' \in Seq(Fetch) /\ Len(fetches') = Len(fetches)
    BY <1>5, SetFieldInSeq, "ok" \in {"pending", "ok", "err"}, FALSE \in BOOLEAN
       DEF Then, TypeOK
  <2>2. i \in FetchIds
    <3>1. Len(fetches) \in 1..MaxFetches
      BY DEF TypeOK
    <3>2. QED
      BY <3>1, BoundsAssumption, SMT DEF FetchIds
  <2>3. QED
    BY <1>5, <2>1, <2>2 DEF Then, SetState, TypeOK, ValuesTyped, NoMessage, Undefined, Null
<1>6. ASSUME NEW i \in 1..Len(fetches), Catch(i) PROVE ValuesTyped'
  <2>1. fetches' \in Seq(Fetch) /\ Len(fetches') = Len(fetches)
    BY <1>6, SetFieldInSeq, "err" \in {"pending", "ok", "err"}, FALSE \in BOOLEAN
       DEF Catch, TypeOK
  <2>2. i \in FetchIds
    <3>1. Len(fetches) \in 1..MaxFetches
      BY DEF TypeOK
    <3>2. QED
      BY <3>1, BoundsAssumption, SMT DEF FetchIds
  <2>3. QED
    BY <1>6, <2>1, <2>2 DEF Catch, SetState, TypeOK, ValuesTyped, NoMessage, Undefined, Null
<1>7. ASSUME NEW i \in 1..Len(fetches), Finally(i) PROVE ValuesTyped'
  BY <1>7, SetFieldInSeq DEF Finally, TypeOK, ValuesTyped
<1>8. ASSUME UNCHANGED vars PROVE ValuesTyped'
  BY <1>8 DEF vars, TypeOK, ValuesTyped
<1>10. ValuesTyped'
  BY <1>2, <1>3, <1>4, <1>5, <1>6, <1>7, <1>8 DEF Next, Callbacks, Settle
<1>11. QED
  BY <1>1, <1>10

\* Every reachable state of LoadingError has the types TypeOK gives: the
\* state hooks hold booleans or fetch positions, and at most MaxFetches
\* calls of fetchFn are ever recorded.
THEOREM TypeCorrect == Spec => []TypeOK
<1>1. Init => TypeOK
  BY InitTypeOK
<1>2. TypeOK /\ [Next]_vars => TypeOK'
  BY NextTypeOK
<1>3. QED
  BY <1>1, <1>2, PTL DEF Spec

-----------------------------------------------------------------------------
(* The rendered state follows the latest fetch, with a memoised fetchFn.  *)

\* What one settle callback leaves of the sequence of fetches.
LEMMA SetResultFacts ==
  ASSUME NEW s \in Seq(Fetch), NEW i \in 1..Len(s), NEW v \in {"ok", "err"}
  PROVE  LET t == [s EXCEPT ![i].result = v] IN
         /\ Len(t) = Len(s)
         /\ t[i].result = v
         /\ t[i].finished = s[i].finished
         /\ t[i].gen = s[i].gen
         /\ \A j \in 1..Len(s) \ {i} : t[j] = s[j]
<1>1. s[i] \in Fetch
  BY ElementOfSeq
<1>2. QED
  BY <1>1 DEF Fetch

\* What one .finally callback leaves of the sequence of fetches.
LEMMA SetFinishedFacts ==
  ASSUME NEW s \in Seq(Fetch), NEW i \in 1..Len(s)
  PROVE  LET t == [s EXCEPT ![i].finished = TRUE] IN
         /\ Len(t) = Len(s)
         /\ t[i].finished = TRUE
         /\ t[i].result = s[i].result
         /\ t[i].gen = s[i].gen
         /\ \A j \in 1..Len(s) \ {i} : t[j] = s[j]
<1>1. s[i] \in Fetch
  BY ElementOfSeq
<1>2. QED
  BY <1>1 DEF Fetch

\* Under IInv a callback can only be pending for the latest fetch.
LEMMA OnlyLatestUnfinished ==
  ASSUME IInv, NEW i \in 1..Len(fetches), ~fetches[i].finished
  PROVE  i = Len(fetches)
BY DEF IInv, OnlyLatestInFlight, TypeOK

LEMMA InitIInv == Init => IInv
<1> SUFFICES ASSUME Init PROVE IInv
  OBVIOUS
<1>1. TypeOK
  BY InitTypeOK
<1>2. Len(fetches) = 1 /\ Latest = [gen |-> 1, result |-> "pending", finished |-> FALSE]
  BY DEF Init, Latest
<1>3. OnlyLatestInFlight /\ FinishedAreSettled /\ AllOfCurrentFn
  BY <1>2 DEF Init, OnlyLatestInFlight, FinishedAreSettled, AllOfCurrentFn, Latest
<1>4. HooksFollowLatest
  BY <1>2, Zenon DEF Init, HooksFollowLatest
<1>5. QED
  BY <1>1, <1>3, <1>4 DEF IInv


\* A retry starts a new fetch only once the previous one has finished, so
\* the fetches in flight never overlap.
LEMMA RetryIInv == IInv /\ Retry => IInv'
<1> SUFFICES ASSUME IInv, Retry PROVE IInv'
  OBVIOUS
<1> DEFINE new == [gen |-> fn, result |-> "pending", finished |-> FALSE]
           n == Len(fetches)
<1>1. TypeOK'
  BY NextTypeOK DEF IInv, Next
<1>2. Latest.finished
  BY Zenon DEF IInv, HooksFollowLatest, Retry
<1>3. new \in Fetch /\ fetches \in Seq(Fetch) /\ n \in Nat
  BY DEF IInv, TypeOK, Fetch
<1>4. /\ Len(fetches') = n + 1
      /\ fetches'[n + 1] = new
      /\ \A j \in 1..n : fetches'[j] = fetches[j]
  BY <1>3, AppendProperties DEF Retry, FetchLoad
<1>5. Latest' = new
  BY <1>4 DEF Latest
<1>6. OnlyLatestInFlight'
  BY <1>2, <1>3, <1>4 DEF IInv, OnlyLatestInFlight, Latest
<1>7. FinishedAreSettled'
  BY <1>3, <1>4 DEF IInv, FinishedAreSettled
<1>8. AllOfCurrentFn'
  BY <1>3, <1>4 DEF IInv, AllOfCurrentFn, Retry
<1>9. HooksFollowLatest'
  <2>1. loading' = TRUE /\ error' = FALSE
    BY DEF Retry, FetchLoad
  <2>2. QED
    BY <1>5, <2>1, Zenon DEF HooksFollowLatest
<1>10. QED
  BY <1>1, <1>6, <1>7, <1>8, <1>9 DEF IInv


\* Unmounting freezes the hooks; nothing else changes.
LEMMA UnmountIInv == IInv /\ Unmount => IInv'
<1> SUFFICES ASSUME IInv, Unmount PROVE IInv'
  OBVIOUS
<1>1. TypeOK'
  BY NextTypeOK DEF IInv, Next
<1>2. (OnlyLatestInFlight /\ FinishedAreSettled /\ AllOfCurrentFn)'
  BY DEF IInv, Unmount, OnlyLatestInFlight, FinishedAreSettled, AllOfCurrentFn
<1>3. HooksFollowLatest'
  BY Zenon DEF Unmount, HooksFollowLatest
<1>4. QED
  BY <1>1, <1>2, <1>3 DEF IInv

\* A settle callback can only be one of the latest fetch, and it sets the
\* hook that matches how the fetch settled.
LEMMA SettleIInv ==
  ASSUME IInv, NEW i \in 1..Len(fetches), Then(i) \/ Catch(i)
  PROVE  IInv'
<1> DEFINE n == Len(fetches)
<1>1. TypeOK'
  BY NextTypeOK DEF IInv, Next, Callbacks, Settle
<1>2. fetches[i].result = "pending"
  BY DEF Then, Catch
<1>3. i = n
  BY <1>2, OnlyLatestUnfinished DEF IInv, FinishedAreSettled
<1>4. Latest.result = "pending" /\ fetches \in Seq(Fetch)
  BY <1>2, <1>3 DEF Latest, IInv, TypeOK
<1>5. PICK v \in {"ok", "err"} : fetches' = [fetches EXCEPT ![i].result = v]
  BY DEF Then, Catch
<1>6. /\ Len(fetches') = n
      /\ Latest'.result = v
      /\ Latest'.finished = Latest.finished
      /\ Latest'.gen = Latest.gen
      /\ \A j \in 1..n - 1 : fetches'[j] = fetches[j]
  BY <1>3, <1>4, <1>5, SetResultFacts DEF Latest
<1>7. OnlyLatestInFlight'
  BY <1>6 DEF IInv, OnlyLatestInFlight
<1>11. AllOfCurrentFn'
  <2>1. fn' = fn
    BY Zenon DEF Then, Catch
  <2>2. n \in Nat
    BY <1>4
  <2>3. QED
    BY <1>6, <2>1, <2>2 DEF IInv, AllOfCurrentFn, Latest
<1>8. FinishedAreSettled'
  BY <1>6 DEF IInv, FinishedAreSettled, Latest
<1>9. HooksFollowLatest'
  <2>1. mounted => ~error
    BY <1>4, Zenon DEF IInv, HooksFollowLatest
  <2>2. CASE Then(i)
    <3>1. v = "ok"
      <4>1. fetches'[n].result = "ok"
        BY <1>3, <1>4, <2>2, SetResultFacts DEF Then
      <4>2. QED
        BY <1>6, <4>1 DEF Latest
    <3>2. mounted' = mounted /\ loading' = loading /\ error' = error
          /\ (mounted => data' = n)
      BY <1>3, <2>2 DEF Then, SetState
    <3>3. QED
      BY <1>6, <2>1, <3>1, <3>2, Zenon DEF IInv, HooksFollowLatest
  <2>3. CASE Catch(i)
    <3>1. v = "err"
      <4>1. fetches'[n].result = "err"
        BY <1>3, <1>4, <2>3, SetResultFacts DEF Catch
      <4>2. QED
        BY <1>6, <4>1 DEF Latest
    <3>2. mounted' = mounted /\ loading' = loading
          /\ (mounted => errorMessage' = n /\ error')
      BY <1>3, <2>3 DEF Catch, SetState
    <3>3. QED
      BY <1>6, <3>1, <3>2, Zenon DEF IInv, HooksFollowLatest
  <2>4. QED
    BY <2>2, <2>3
<1>10. QED
  BY <1>1, <1>7, <1>8, <1>9, <1>11 DEF IInv


\* A .finally callback can only be one of the latest fetch, which has
\* settled; it ends the loading state.
LEMMA FinallyIInv ==
  ASSUME IInv, NEW i \in 1..Len(fetches), Finally(i)
  PROVE  IInv'
<1> DEFINE n == Len(fetches)
<1>1. TypeOK'
  BY NextTypeOK DEF IInv, Next, Callbacks
<1>2. i = n
  BY OnlyLatestUnfinished DEF Finally
<1>3. fetches \in Seq(Fetch) /\ n \in Nat /\ Latest.result # "pending"
  BY <1>2 DEF IInv, TypeOK, Finally, Latest
<1>4. /\ Len(fetches') = n
      /\ Latest'.finished = TRUE
      /\ Latest'.result = Latest.result
      /\ Latest'.gen = Latest.gen
      /\ \A j \in 1..n - 1 : fetches'[j] = fetches[j]
  BY <1>2, <1>3, SetFinishedFacts DEF Finally, Latest
<1>5. OnlyLatestInFlight'
  BY <1>4 DEF IInv, OnlyLatestInFlight
<1>6. FinishedAreSettled'
  BY <1>3, <1>4 DEF IInv, FinishedAreSettled, Latest
<1>7. AllOfCurrentFn'
  <2>1. fn' = fn
    BY Zenon DEF Finally
  <2>2. QED
    BY <1>3, <1>4, <2>1 DEF IInv, AllOfCurrentFn, Latest
<1>8. HooksFollowLatest'
  <2>1. /\ mounted' = mounted /\ error' = error
        /\ data' = data /\ errorMessage' = errorMessage
        /\ (mounted => loading' = FALSE)
    BY DEF Finally, SetState
  <2>2. QED
    BY <1>4, <2>1, Zenon DEF IInv, HooksFollowLatest
<1>9. QED
  BY <1>1, <1>5, <1>6, <1>7, <1>8 DEF IInv

\* Every step of the specification with a memoised fetchFn keeps IInv.
LEMMA StableNextIInv == IInv /\ [StableNext]_vars => IInv'
<1> SUFFICES ASSUME IInv, [StableNext]_vars PROVE IInv'
  OBVIOUS
<1>1. CASE Retry
  BY <1>1, RetryIInv
<1>2. CASE Unmount
  BY <1>2, UnmountIInv
<1>3. ASSUME NEW i \in 1..Len(fetches), Settle(i) PROVE IInv'
  BY <1>3, SettleIInv DEF Settle
<1>4. ASSUME NEW i \in 1..Len(fetches), Finally(i) PROVE IInv'
  BY <1>4, FinallyIInv
<1>5. CASE UNCHANGED vars
  BY <1>5 DEF vars, IInv, TypeOK, OnlyLatestInFlight, FinishedAreSettled,
              AllOfCurrentFn, HooksFollowLatest, Latest
<1>6. QED
  BY <1>1, <1>2, <1>3, <1>4, <1>5 DEF StableNext, Callbacks

\* IInv is strong enough for what the component renders.
LEMMA IInvRender == IInv => RenderMatchesLatestFetch
<1> SUFFICES ASSUME IInv PROVE RenderMatchesLatestFetch
  OBVIOUS
<1>1. Len(fetches) \in 1..MaxFetches /\ Latest.gen = fn
  BY DEF IInv, TypeOK, AllOfCurrentFn, Latest
<1>2. Latest.finished => Latest.result # "pending"
  BY <1>1 DEF IInv, FinishedAreSettled, Latest
<1>3. Latest.result \in {"pending", "ok", "err"}
  <2>1. Latest \in Fetch
    BY <1>1, ElementOfSeq DEF IInv, TypeOK, Latest
  <2>2. QED
    BY <2>1 DEF Fetch
<1>4. QED
  BY <1>1, <1>2, <1>3, Zenon DEF IInv, HooksFollowLatest, RenderMatchesLatestFetch,
                                 ShowsContent, ShowsError

\* With a memoised fetchFn, whenever the component shows content it shows
\* the value the latest call of fetchFn resolved with, and whenever it
\* shows the error alert it shows the message the latest call rejected
\* with, however the .then/.catch/.finally callbacks, the retries and the
\* unmount interleave.
THEOREM StableRender == StableSpec => []RenderMatchesLatestFetch
<1>1. Init => IInv
  BY InitIInv
<1>2. IInv /\ [StableNext]_vars => IInv'
  BY StableNextIInv
<1>3. IInv => RenderMatchesLatestFetch
  BY IInvRender
<1>4. QED
  BY <1>1, <1>2, <1>3, PTL DEF StableSpec


(***************************************************************************)
(* With prop changes allowed, the render property holds for as long as    *)
(* the parent keeps its first fetchFn.  The invariant is IInv guarded by   *)
(* fn = 1: a ChangeFetchFn step leaves fn = 1 behind for good, and every   *)
(* other step keeps fn and is a step of the memoised specification.        *)
(***************************************************************************)
StableWhileFirstFn == TypeOK /\ (fn = 1 => IInv)

\* Every step of the full specification keeps StableWhileFirstFn.
LEMMA NextStableWhileFirstFn == StableWhileFirstFn /\ [Next]_vars => StableWhileFirstFn'
<1> SUFFICES ASSUME StableWhileFirstFn, [Next]_vars PROVE StableWhileFirstFn'
  OBVIOUS
<1>1. TypeOK'
  BY NextTypeOK DEF StableWhileFirstFn
<1>2. CASE ChangeFetchFn
  <2>1. fn \in Nat /\ fn >= 1 /\ fn' = fn + 1
    BY <1>2 DEF StableWhileFirstFn, TypeOK, ChangeFetchFn
  <2>2. fn' # 1
    BY <2>1
  <2>3. QED
    BY <1>1, <2>2 DEF StableWhileFirstFn
<1>3. CASE ~ChangeFetchFn
  <2>1. [StableNext]_vars
    BY <1>3 DEF Next, StableNext
  <2>2. fn' = fn
    BY <2>1 DEF StableNext, Retry, Unmount, Callbacks, Settle, Then, Catch, Finally, vars
  <2>3. fn' = 1 => IInv'
    BY <2>1, <2>2, StableNextIInv DEF StableWhileFirstFn
  <2>4. QED
    BY <1>1, <2>3 DEF StableWhileFirstFn
<1>4. QED
  BY <1>2, <1>3

\* Whatever new fetchFn props the parent may pass, as long as it has kept
\* the first one the component shows only the outcome of the latest call
\* of fetchFn, however the callbacks, the retries and the unmount
\* interleave.
THEOREM StableFnRender == Spec => RenderMatchesWhileFnStable
<1>1. Init => StableWhileFirstFn
  BY InitTypeOK, InitIInv DEF StableWhileFirstFn
<1>2. StableWhileFirstFn /\ [Next]_vars => StableWhileFirstFn'
  BY NextStableWhileFirstFn
<1>3. StableWhileFirstFn => (fn = 1 => RenderMatchesLatestFetch)
  BY IInvRender DEF StableWhileFirstFn
<1>4. QED
  BY <1>1, <1>2, <1>3, PTL DEF Spec, RenderMatchesWhileFnStable

=============================================================================
