\* Every request over a few amounts, steps, prices and balances.
CONSTANTS
    D = 10
    Steps = {1,5,9,10}
    MaxCount = 3
    Amounts = {1,2}
    Prices = {0,1000,3000}
    Balances = {500,1000,3000,9000,50000}
SPECIFICATION Spec
INVARIANT TypeOK
INVARIANT AcceptedSurvives
INVARIANT AverageInGrid
INVARIANT GridClosedForm
