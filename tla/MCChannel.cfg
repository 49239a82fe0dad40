SPECIFICATION Spec
CONSTANTS
  Task = {t1, t2, t3}
  nil = nil
  c1 = c1
  c2 = c2
  m1 = m1
  Zero = Zero
  Chan = {c1, c2}
  Sizes <- MCSizes
  Msg = {Zero, m1}
  Offers <- MCOffers
SYMMETRY Symmetry
INVARIANTS
  NoDanglingAlt
  NoMissedPartner
PROPERTIES
  FifoSpec
  ResultIsTransfer
