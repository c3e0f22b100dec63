CONSTANTS
    Pulls = {k1, k2}
    Readers = {r1}
    Inodes = {i1, i2, i3, i4}
    Letters = {a, b}
    Length = 2
    Hole = hole
    Absent = absent
    NoHash = empty
SYMMETRY Alike
SPECIFICATION Spec
INVARIANTS TypeOK DownloadIsOneText
PROPERTIES InstallsWhatItHashed
