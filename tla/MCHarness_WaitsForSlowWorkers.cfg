SPECIFICATION Spec
CONSTANT MaxTries = 3
PROPERTY WaitsForSlowWorkers
