\* Two calls of up to three URLs over one slot; a name, two public addresses
\* and a private one, and one redirect.
SPECIFICATION DSpec
CONSTANTS
    Calls = {c1, c2}
    MaxSources = 2
    MaxUrls = 3
    MaxConcurrent = 1
    Names = {name}
    Blocked = {localhost}
    Public = {open, other}
    Private = {private}
    Literals = {open, private}
    MaxRedirects = 2
INVARIANTS TypeOK FetchesBounded StaysPublic RedirectsEnd
PROPERTY KeepsPromise
CHECK_DEADLOCK FALSE
