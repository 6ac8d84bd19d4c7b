SPECIFICATION Spec
CONSTANTS
  Langs = {"ocaml", "python", "ruby", "perl"}
  Objs = {o1, o2}
  Hives = {h1, h2}
  IntBits = 5
  LongBits = 6
INVARIANTS HandlesSound ErrorsReported ResultsExact
SYMMETRY Symmetry
