CONSTANT Argument = {0, 1, 2}
SPECIFICATION Spec
INVARIANTS OwnResult TargetUndisturbed BoundedBypass
PROPERTIES ResultKept EveryRequestAnswered
