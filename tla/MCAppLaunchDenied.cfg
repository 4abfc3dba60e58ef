SPECIFICATION Spec
CONSTANT MaxDelegateRequests = 1
PROPERTY DeniedIsNotAdmitted
