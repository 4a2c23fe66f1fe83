CONSTANT NumMessages = 3
CHECK_DEADLOCK FALSE
SPECIFICATION KafkaSpec
INVARIANT NoneLost
