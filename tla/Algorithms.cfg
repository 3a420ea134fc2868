\* Every algorithm on every input of MCAlgorithms; a behaviour ends with its result.
SPECIFICATION ASpec
CONSTANTS
  h1 = h1  h2 = h2  c1 = c1  c2 = c2
  None = None  NaN = NaN  Host = Host  ClientCert = ClientCert
  ContentType = ContentType  PlainText = PlainText
  Half <- MCHalf
  Sec = 2
  Ages <- MCAges
  Etags <- MCEtags
  MaxDirectives = 4
  Denotes <- MCDenotes
  Forbidden <- MCForbidden
  Names <- MCNames
  SpanBatches <- MCBatches
  HostSpans <- MCHosts
  GuestMetrics <- MCMetrics
  Resources <- MCResources
  Parameters <- MCParameters
  RuntimeSettings <- MCRuntimeSettings
  Identifiers <- MCIdentifiers
  GuestSettings <- MCGuestSettings
  PatternLists <- MCPatternLists
  Topics <- MCTopics
  Letters <- MCLetters
  OutgoingRequests <- MCRequests
  Upstreams <- MCUpstreams
  Settings <- MCSettings
  Codes = {"code"}
  Texts = {"why"}
  Contexts = {c1, c2}
  MaxContexts = 3
  Replies <- MCReplies
INVARIANTS HeadersReadAsAsked DataArrives ExpansionsAreFaithful AnsweredAsDecided
CHECK_DEADLOCK FALSE
