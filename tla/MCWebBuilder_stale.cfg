\* One request after another: a source edited between its hash and its compile and
\* then restored makes the next build reuse bytes of the edited source.
SPECIFICATION BuilderSpec
CONSTANTS
  q1 = q1
  q2 = q2
  x = x
  y = y
  Examples = {x}
  Versions = {"v1", "v2", "bad"}
  Broken = {"bad"}
  Requests = {q1}
  EditsRace = TRUE
  MaxHistory = 2
  MaxBuilds = 5
  None = None
PROPERTY ReuseOnlyUnchanged
