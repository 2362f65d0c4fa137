SPECIFICATION Spec
CONSTANTS
    h1 = h1
    h2 = h2
    f1 = f1
    f2 = f2
    Host = {h1}
    Name = {f1}
    Value = {0, 1}
    MaxGen = 3
    MaxId = 3
    MaxWipes = 0
    None = None
INVARIANT OwnEditsSurvive
