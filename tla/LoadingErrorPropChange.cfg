\* Does the rendered outcome stay that of the latest fetch when the parent
\* passes a new fetchFn while a fetch is in flight?
CONSTANTS
    MaxFn <- MCMaxFn
    MaxFetches <- MCMaxFetches
SPECIFICATION Spec
INVARIANT RenderMatchesLatestFetch
CHECK_DEADLOCK FALSE
