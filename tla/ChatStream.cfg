SPECIFICATION Spec
CONSTANTS
  NoId = "none"
  Events <- AllEvents
  MaxEvents = 4
CONSTRAINT OneFamily
INVARIANTS SuccessIsComplete ToldAsRecorded DepartureIsNotFailure AccountsForTheResponse
