\* Telephones and tablets, with headsets that come and go, with and without usable Bluetooth
\* and with either default.
CONSTANT MaxMail = 3
SPECIFICATION LiveSpec
INVARIANTS TypeOK ScoMatchesState RouteIsReal AgreesWhenSettled StoppedRestores
PROPERTIES AttemptEnds
