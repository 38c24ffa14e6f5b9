SPECIFICATION CachesSpec
CONSTANTS
  Sessions = {p1, p2}
  ClassTokens = {c1, c2}
  SerializerTokens = {s1, s2}
  RevisionTokens = {r1, r2, r3}
  NoToken = NoToken
  ClassIds = {0}
  Names = {"A", "B"}
  NoName = NoName
  Layouts = {"x"}
  NoLayout = NoLayout
  Bytes = {1, 2}
  NoBytes = NoBytes
  Contexts = {"64"}
  Selections = {"p"}
  AllProperties = AllProperties
  NoBinding = NoBinding
  NoEntry = NoEntry
SYMMETRY Symmetric
INVARIANTS
  HitIsFresh
  BindingsAreTransparent
