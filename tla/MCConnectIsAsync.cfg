SPECIFICATION Spec
CONSTANT MaxKeepalives = 0
INVARIANT ConnectIsAsync
