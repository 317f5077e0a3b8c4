SPECIFICATION Spec
CONSTANTS
  Clients = {"a", "b"}
  UpstreamHost = "up"
  MaxReads = 3
INVARIANTS RoutedByRole TapExact
