CONSTANTS NUM_HARTS = 2
          Commands <- MCCommands
          Addrs = {1}
          KickProtect = 2
          Unroll = 1
          HalfBase = 2
          MaxGen = 3
          Input = 2
          WordBase = 4
          MaxTime = 2
          STEP_TIMEOUT = 2
          kInputPoll = 1
          Page = 2
          BLOCK_COMMITS = 2
          WORK_SPAN = 1
          MAX_STALL = 3
          LogMax = 3
          CHIRON_ROB_DEPTH = 4
          CHIRON_WEDGE_CYCLES = 2
          RING = 3
          SHOW = 2
          TRACE = 2
          LINEBUF = 4
          FIXED = 0
          WORD = 7
          kTagSize = 2
          kNway = 2
          Word = 3
          DramBytes = 9
          G3D_W = 5
          G3D_H = 5
          G3D_SHIFT = 3
          Sintab <- MCSintab
          Ember = 4
          Spark = 9
          INT_MAX = 127
          GL_width = 3
          GL_height = 3
SPECIFICATION HostSpec
CHECK_DEADLOCK FALSE
INVARIANTS EmulatorSafe     WedgeSound LogsWhole BringupSound
            DemoSound   SignalSound
PROPERTIES EmulatorWakes DefectReported RunsRecoverable StaleReported MeetingSpec FramesGoOn
