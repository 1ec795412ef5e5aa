\* Three requests, two at a time, over a budget of two; a host is spelled two ways.
SPECIFICATION FairSpec
CONSTANTS
  Req = {a, b, c}
  Url = {u, dotted, outside}
  Host = {h, o, odot}
  First <- StartUrls
  Fallback = {a}
  HostOf <- CheckedHost
  KeyOf <- CountedHost
  InScope = {u, dotted}
  AllowPrivate = FALSE
  Unresolved = Unresolved
  Concurrency = 2
  MaxRequests = 2
  MaxPerHost = 1
  MaxRedirects = 1
  Interval = 2
  a = a
  b = b
  c = c
  u = u
  dotted = dotted
  outside = outside
  h = h
  o = o
  odot = odot
INVARIANTS
  WithinBudgets
  RateBound
PROPERTIES
  NeverOutside
  EveryRequestReturns
CHECK_DEADLOCK FALSE
