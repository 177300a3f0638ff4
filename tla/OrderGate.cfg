\* One signed action; two gates that may be run for it, lose their sessions or
\* die; three epochs.  The notice is given its values by the module.
CONSTANTS
  a1 = a1  o1 = o1
  NoAction = NoAction
  Actions = {a1}
  Orders = {o1}
  Of <- OneOrder
  Kind <- OneSigned
  Parent <- NoParent
  Gates = {g1, g2}
  MaxEpoch = 3
SPECIFICATION DutySpec
INVARIANT CallsAreSafe
PROPERTIES CalledInEpoch CutoverUnblocked ReservationEnds DeliveryEnds
