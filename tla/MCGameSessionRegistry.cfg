\* Three games, two editors, two transports: a transfer of a transport
\* between two games of one editor with a third as a bystander.
SPECIFICATION RegistrySpec
CONSTANTS
  Games = {g1, g2, g3}
  Editors = {e1, e2}
  Runtimes = {r1, r2}
  Tokens = {t1}
  None = None
SYMMETRY Symmetry
INVARIANT RegistryTypeOK
INVARIANT RuntimeIndexExact
INVARIANT EditorIndexSound
PROPERTY StoppedIsUnreachable
