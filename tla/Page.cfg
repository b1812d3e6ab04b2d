CONSTANTS
  Tabs = {tab1, tab2, tab3}
  Themes = {"auto", "dark"}
  Default = "auto"
  NoTheme = NoTheme
  Listings = {p1, p2, p3}
  WithDots = {p1, p2}
  Nothing = Nothing
  MaxCopies = 2
  Queries = {"a", "b", "c"}
  Empty = ""
  Index <- MCIndex
  Excluded = {"e3"}
  Score <- MCScore
  MaxResults = 2
  NoElement = NoElement
SPECIFICATION Spec
INVARIANTS
  TypeOK
  ChoiceIsKept
  SelectShowsTheme
  ListingsRespond
  SelectedWasCopied
  ResultsAreForInput
  PageMatchesGrouping
PROPERTIES
  ImplementsSearchPage
  EditsAreAnswered
