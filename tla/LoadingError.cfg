\* The parent may pass a new fetchFn while a fetch is in flight; the user
\* retries failed fetches.
CONSTANTS
    MaxFn <- MCMaxFn
    MaxFetches <- MCMaxFetches
SPECIFICATION Spec
PROPERTIES
    RenderMatchesWhileFnStable
    LoadingEventuallyEnds
\* The component idles, waiting for the user, once every fetch finished.
CHECK_DEADLOCK FALSE
