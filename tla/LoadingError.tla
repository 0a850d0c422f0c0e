---------------------------- MODULE LoadingError ----------------------------
(***************************************************************************)
(* The React component LoadingError (ui-cra/src/components/LoadingError.tsx*)
(* lines 37-95).  It calls the promise-returning fetchFn, shows a spinner  *)
(* while `loading`, an error alert with a retry button when `error`, and   *)
(* otherwise renders children({ value: data }).                            *)
(*                                                                         *)
(* Every call of fetchFn is a promise in flight.  Its callbacks run as     *)
(* separate microtasks (.then or .catch, then .finally), so the callbacks  *)
(* of different fetches interleave freely.  A fetch is identified by its   *)
(* position in the sequence `fetches`; the value a fetch resolves with and *)
(* the message it rejects with are abstracted to that position.            *)
(***************************************************************************)
EXTENDS Integers, Sequences

CONSTANTS
    MaxFn,       \* bound on the distinct fetchFn props the parent passes
    MaxFetches   \* bound on the calls of fetchFn (mount, prop changes, retries)

ASSUME BoundsAssumption ==
    /\ MaxFn \in Nat \ {0}
    /\ MaxFetches \in Nat \ {0}

VARIABLES
    loading,       \* useState(true)
    error,         \* useState(false)
    errorMessage,  \* useState(''): the fetch whose rejection set it
    data,          \* useState<any>(): the fetch whose result it holds
    fn,            \* which fetchFn prop is current (1, 2, ...)
    mounted,       \* the component is mounted
    fetches        \* every promise fetchFn returned, in call order

vars == <<loading, error, errorMessage, data, fn, mounted, fetches>>

FetchIds == 1..MaxFetches

\* The values data can hold besides a fetch result.
Undefined == -1
Null == 0
NoMessage == 0

\* A promise returned by fetchFn: which prop made it, how it settled, and
\* whether its .finally callback has run.
Fetch == [gen : 1..MaxFn, result : {"pending", "ok", "err"}, finished : BOOLEAN]

TypeOK ==
    /\ loading \in BOOLEAN
    /\ error \in BOOLEAN
    /\ errorMessage \in {NoMessage} \cup FetchIds
    /\ data \in {Undefined, Null} \cup FetchIds
    /\ fn \in 1..MaxFn
    /\ mounted \in BOOLEAN
    /\ fetches \in Seq(Fetch)
    /\ Len(fetches) \in 1..MaxFetches

\* React drops a state update of an unmounted component.
SetState(old, new) == IF mounted THEN new ELSE old

\* Mutant: fetchLoad without its setError(false).
FetchLoadKeepsError(g) ==
    /\ Len(fetches) < MaxFetches
    /\ loading' = TRUE
    /\ error' = error
    /\ fetches' = Append(fetches, [gen |-> g, result |-> "pending", finished |-> FALSE])

\* fetchLoad(fn): setLoading(true); setError(false); then attach the
\* callbacks to the promise the call of the prop `g` returned.
FetchLoad(g) ==
    /\ Len(fetches) < MaxFetches
    /\ loading' = TRUE
    /\ error' = FALSE
    /\ fetches' = Append(fetches, [gen |-> g, result |-> "pending", finished |-> FALSE])

\* The state after mounting: useState initial values, then the effect ran
\* setLoading(true); setError(false); fetchLoad(fetchFn()).
Init ==
    /\ loading = TRUE
    /\ error = FALSE
    /\ errorMessage = NoMessage
    /\ data = Undefined
    /\ fn = 1
    /\ mounted = TRUE
    /\ fetches = <<[gen |-> 1, result |-> "pending", finished |-> FALSE]>>

\* The parent passes a new fetchFn: React runs the effect's cleanup
\* (setData(null)) and the effect again, which starts a new fetch.
ChangeFetchFn ==
    /\ mounted
    /\ fn < MaxFn
    /\ fn' = fn + 1
    /\ data' = Null
    /\ FetchLoad(fn + 1)
    /\ UNCHANGED <<errorMessage, mounted>>

\* The user clicks the retry icon, which is rendered only in the error
\* alert (!loading && error): fetchLoad(fetchFn()).
Retry ==
    /\ mounted
    /\ ~loading
    /\ error
    /\ FetchLoad(fn)
    /\ UNCHANGED <<errorMessage, data, fn, mounted>>

\* Fetch i resolves: its .then callback runs setData(res).
Then(i) ==
    /\ fetches[i].result = "pending"
    /\ fetches' = [fetches EXCEPT ![i].result = "ok"]
    /\ data' = SetState(data, i)
    /\ UNCHANGED <<loading, error, errorMessage, fn, mounted>>

\* Fetch i rejects: its .catch callback runs setErrorMessage(err.message)
\* and setError(true).
Catch(i) ==
    /\ fetches[i].result = "pending"
    /\ fetches' = [fetches EXCEPT ![i].result = "err"]
    /\ errorMessage' = SetState(errorMessage, i)
    /\ error' = SetState(error, TRUE)
    /\ UNCHANGED <<loading, data, fn, mounted>>

\* Mutant: a finally callback that forgets setLoading(false).
FinallyKeepsLoading(i) ==
    /\ fetches[i].result # "pending"
    /\ ~fetches[i].finished
    /\ fetches' = [fetches EXCEPT ![i].finished = TRUE]
    /\ UNCHANGED <<loading, error, errorMessage, data, fn, mounted>>

\* The .finally callback of a settled fetch i runs setLoading(false).
Finally(i) ==
    /\ fetches[i].result # "pending"
    /\ ~fetches[i].finished
    /\ fetches' = [fetches EXCEPT ![i].finished = TRUE]
    /\ loading' = SetState(loading, FALSE)
    /\ UNCHANGED <<error, errorMessage, data, fn, mounted>>

\* The component unmounts; the cleanup's setData(null) is dropped with it.
Unmount ==
    /\ mounted
    /\ mounted' = FALSE
    /\ UNCHANGED <<loading, error, errorMessage, data, fn, fetches>>

Settle(i) == Then(i) \/ Catch(i)

Callbacks == \E i \in 1..Len(fetches) : Settle(i) \/ Finally(i)

Next == ChangeFetchFn \/ Retry \/ Unmount \/ Callbacks

\* The parent passes a memoised fetchFn: the effect runs only on mount.
StableNext == Retry \/ Unmount \/ Callbacks

\* Every promise eventually settles and its callbacks run; the user and
\* the parent are not obliged to act.
Fairness ==
    \A i \in FetchIds :
        /\ WF_vars(i <= Len(fetches) /\ Settle(i))
        /\ WF_vars(i <= Len(fetches) /\ Finally(i))

Spec == Init /\ [][Next]_vars /\ Fairness

StableSpec == Init /\ [][StableNext]_vars /\ Fairness

-----------------------------------------------------------------------------
(* Properties *)

Latest == fetches[Len(fetches)]

\* The component renders children({ value: data }) ...
ShowsContent == mounted /\ ~loading /\ ~error
\* ... or the error alert with errorMessage and the retry icon.
ShowsError == mounted /\ ~loading /\ error

\* What the component renders is the outcome of the latest call of the
\* current fetchFn: children get the value that call resolved with, and
\* the alert shows the message that call rejected with.  Callbacks of an
\* earlier call that run late (after a retry or a new fetchFn prop) must
\* not decide what is shown.
RenderMatchesLatestFetch ==
    /\ ShowsContent => /\ data = Len(fetches)
                       /\ Latest.result = "ok"
                       /\ Latest.gen = fn
    /\ ShowsError => /\ errorMessage = Len(fetches)
                     /\ Latest.result = "err"

\* While the parent keeps passing the same (memoised) fetchFn, what the
\* component renders is always the outcome of the latest fetch, however
\* the callbacks of retried fetches interleave.
RenderMatchesWhileFnStable == [](fn = 1) => []RenderMatchesLatestFetch

\* Once a fetch is in flight the spinner eventually goes away: some
\* .finally callback resets loading (or the component unmounts).
LoadingEventuallyEnds ==
    [](mounted /\ loading => <>(~mounted \/ ~loading))

=============================================================================
