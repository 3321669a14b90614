\* Two open pages, three members and codes, two phones, uploads of two rows.
SPECIFICATION Spec
CONSTANTS
  m1 = m1
  m2 = m2
  m3 = m3
  p1 = p1
  p2 = p2
  s1 = s1
  s2 = s2
  Members = {m1, m2, m3}
  Phones = {p1, p2}
  Slots = {s1, s2}
  MaxCode = 3
  Uploads <- MCUploads
  NoId = NoId
  NoMember = NoMember
  NoPhone = NoPhone
INVARIANTS TypeOK CodesUnique DuplicatesOverlap
SYMMETRY Symmetry
