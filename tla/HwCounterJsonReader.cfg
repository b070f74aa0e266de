\* Two files of up to two events each, in either order, read once.
SPECIFICATION Spec
CONSTANTS
  Files = {f1, f2}
  Events = {e1, e2}
  Codes = {c1, c2}
  Models = {m1, m2}
  NoModel = NoModel
  MaxElements = 2
  MaxLoads = 1
INVARIANTS TypeOK CountersAreTheFacts AnswersAreComplete AgreementFixesCodes NoFileIsPassedOver
PROPERTY KnownEventsStay
CHECK_DEADLOCK FALSE
