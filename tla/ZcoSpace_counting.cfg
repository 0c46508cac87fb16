SPECIFICATION Spec
CONSTANTS
    cla = cla
    app = app
    file = file
    transit = transit
    f = f
    g = g
    h = h
    File = {f, g, h}
    MaxAddr = 6
    Maker = {cla, app, file}
    Mover = {transit}
    FileOf <- Files
    Piece <- Lengths
    Pieces <- TwoPieces
    AcctOf <- Accounts
    Rank <- Equal
    Impatient = {file}
    Mortal = {app}
    MaxOccupancy <- Limit
    Counting = TRUE
    MaxClones = 1
CHECK_DEADLOCK FALSE
INVARIANTS
    CreatesServed
