--------------------------- MODULE MCLoadingError ---------------------------
(* Small instances of LoadingError for TLC. *)
EXTENDS LoadingError

\* Up to three prop changes and five calls of fetchFn: enough for a late
\* callback of an old call to land after a newer call has started.
MCMaxFn == 3
MCMaxFetches == 5

=============================================================================
