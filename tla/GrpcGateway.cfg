\* Two concurrent requests through either registration; the gateway
\* implements its contract and answers every request.
CONSTANTS
    Slots <- MCSlots
    HttpRequests <- MCHttpRequests
    Replies <- MCReplies
SPECIFICATION Spec
PROPERTIES
    ImplementsContract
    EveryRequestAnswered
CHECK_DEADLOCK FALSE
