CONSTANTS
    Reg = {x0, x1, x2}
    X0 = x0
    Word = {z, v}
    Zero = z
SPECIFICATION Spec
INVARIANTS TypeOK KeepsPromise ReadsArchitectural
