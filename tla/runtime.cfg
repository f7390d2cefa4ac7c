SPECIFICATION RuntimeSpec
CONSTANTS
  a = a
  b = b
  ab = ab
  Raw = {a, b}
  Joined = ab
  Lists <- TheLists
  Flags <- TheFlags
  NoValue = NoValue
  NoCallback = NoCallback
  Plain = Plain
  MaxOps = 3
  FlagSets <- AnyFlags
  Callbacks = {c1, c2}
  Undefined = Undefined
  Nobody = Nobody
  True = True
  PublicOps = 5
  i1 = i1
  i2 = i2
  doc = doc
  fn1 = fn1
  fn2 = fn2
  Targets <- EventTargets
  EventTypes = {"click", "focus", "focusin", "blur", "focusout"}
  Fns = {fn1, fn2}
  Selectors = {"s"}
  Namespaces = {"n"}
  Path <- PathUp
  Bindable <- Bound
  Removable <- Unbound
  Triggerable <- TriggeredOn
  Matches <- SelectorsMatch
  Inline <- OnAttributes
  Sends <- Sent
  NoName = NoName
  Every = Every
  EventCalls = 3
  None = None
  e1 = e1
  e2 = e2
  FxElements = {e1, e2}
  Durations = {0, 1}
  Properties = {2}
  Scripts <- PageScripts
  EffectCalls = 5
  Requests = {1, 2}
  Options <- RequestsMade
  TypeNames <- DataTypeNames
  Asked <- TypesAsked
  Expressions <- TypeExpressions
  Filters = {"toJson", "toFoo", "none"}
  Redirect <- RedirectTo
  Plugins = {"fooTransport"}
  Brings <- BroughtBy
  Cors = TRUE
  ContentTypes = {"xml", "html", "json", "nothing"}
  NoType = "nothing"
  MaxRegistered = 2
  d1 = d1
  d2 = d2
  flash = flash
  plain = plain
  v1 = v1
  t1 = t1
  t2 = t2
  n1 = n1
  Missing = Missing
  Null = Null
  Falsy = {Missing, Null}
  MaxId = 3
  DataCalls = 3
  Elements <- DataElements
  KindOf <- DataKinds
  Pages <- DataPages
  Names <- DataNames
  Camel <- CamelOf
  CamelBehind <- CamelOf
  Dashed <- DashedOf
  Base <- BaseOf
  Together <- TakenAtOnce
  Values = {v1}
  Texts = {t1, t2}
  ReadAs <- ReadText
  x1 = x1
  Boxes <- OneBox
  SizedOnes <- OneBox
  BrowserDisplay = "block"
  Displays = {"block", "inline", "inline-block"}
  Full = 2
  Absent = Absent
  DisplayCalls = 4
SYMMETRY Symmetry
INVARIANTS
  RuntimeTypeOK
  DeferredsSettle
  OrderKept
  HandlersAgree
  EventsReachOnce
  EffectsInTurn
  ActiveCounts
  OutcomesAgree
  TypesServed
  DisplayRestored
  DataFollowsNodes
  FragmentsServe
PROPERTIES
  CalledWhileListed
  DataApart
CHECK_DEADLOCK FALSE
